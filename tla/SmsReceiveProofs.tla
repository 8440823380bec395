-------------------------- MODULE SmsReceiveProofs --------------------------
(***************************************************************************)
(* Proofs about SmsReceive, for every set of messages, observers and       *)
(* faults, and every limit of the store.                                   *)
(***************************************************************************)
EXTENDS SmsReceive, FiniteSetTheorems, TLAPS

\* A store s and the buffers c of the sockets agree: an entry is in one buffer at
\* most, one in a buffer is complete and marked, and, unless clients read or close
\* while the modem is off, a marked entry is in a buffer; a message has one entry
\* that is not complete.
Open(s, i) == s[i] # None /\ ~Complete(s, i)
Sound(s, c) ==
  /\ s \in [Id -> Entry \cup {None}] /\ c \in [Observer \X Id -> Nat]
  /\ \A i \in Id, o \in Observer, p \in Observer :
       c[<<o, i>>] > 0 /\ c[<<p, i>>] > 0 => o = p /\ c[<<o, i>>] = 1
  /\ \A i \in Id, o \in Observer :
       c[<<o, i>>] > 0 /\ s[i] # None => Complete(s, i) /\ s[i].passed
  /\ "offline" \notin Fault =>
       \A i \in Id : s[i] # None /\ s[i].passed => \E o \in Observer : c[<<o, i>>] > 0
  /\ \A i, j \in Id : i[1] = j[1] /\ Open(s, i) /\ Open(s, j) => i = j

\* A PDU is stored, or its message is done with.
Kept(s, d, e, seg) ==
  \/ seg[1] \in d \cup e
  \/ \E i \in {seg[1]} \X Stamp : s[i] # None /\ seg[2] \in s[i].parts

\* The PDU that is worked on: its entry is not in the hands of a client yet, and
\* it is stored before it is accepted.
PduSound ==
  /\ st = "Logging" => pdu # None
  /\ pdu # None =>
       /\ pdu.id # None => \A o \in Observer : copies[<<o, pdu.id>>] = 0
       /\ pdu.complete => pdu.id # None /\ (store[pdu.id] = None \/ Complete(store, pdu.id))
       /\ st = "Accept" => Kept(store, done, expired, pdu.seg)
       /\ st \in {"Absorb", "InvalidNack"} => pdu.seg \in Bad

Typed ==
  /\ net \subseteq Segment /\ held \in BOOLEAN
  /\ power \in {"off", "init", "ready", "on"} /\ booting \in BOOLEAN
  /\ bound \subseteq Observer
  /\ st \in State /\ pdu \in Processor \cup {None}
  /\ suspended \in BOOLEAN /\ delayed \in BOOLEAN
  /\ monitor \in {"Idle", "Monitor", "Resume"} /\ nackd \in BOOLEAN
  /\ done \subseteq Msg /\ expired \subseteq Msg

Safe == \A seg \in Segment \ (net \cup Bad) : Kept(store, done, expired, seg)

ReceiveInv == Typed /\ Sound(store, copies) /\ PduSound /\ Safe

-----------------------------------------------------------------------------
\* What handing messages on, and purging, leaves of the store and the buffers.
LEMMA ProcessStep ==
  ASSUME NEW s, NEW c, NEW d \in SUBSET Msg, NEW ids \in SUBSET Id, NEW gone \in SUBSET Id,
         Sound(s, c), expired \subseteq Msg,
         \A i \in ids, o \in Observer : c[<<o, i>>] = 0,
         \A i \in ids : s[i] = None \/ Complete(s, i),
         ProcessMessages(ids, s, c, d, gone)
  PROVE  /\ Sound(store', copies') /\ done' \subseteq Msg /\ expired' \subseteq Msg
         /\ \A i \in Id \ ids, o \in Observer : copies'[<<o, i>>] = c[<<o, i>>]
         /\ \A i \in Id : s[i] = None \/ Complete(s, i) => store'[i] = None \/ Complete(store', i)
         /\ \A seg \in Segment : Kept(s, d, expired, seg) => Kept(store', done', expired', seg)
<1> DEFINE kept == {i \in ids : Target(i[1]) \in Confirming}
           off == gone \cup (ids \ kept)
<1>1. /\ store' = [i \in Id |-> IF i \in off THEN None
                                ELSE IF i \in kept /\ s[i] # None
                                     THEN [s[i] EXCEPT !.passed = TRUE] ELSE s[i]]
      /\ copies' = [x \in Observer \X Id |->
                      IF x[2] \in kept /\ Target(x[2][1]) = x[1] THEN c[x] + 1 ELSE c[x]]
      /\ done' = d \cup {i[1] : i \in ids \ kept}
      /\ expired' = expired \cup {i[1] : i \in gone}
  BY DEF ProcessMessages
<1>2. /\ kept \subseteq ids /\ off \subseteq Id
      /\ \A i \in kept : Target(i[1]) \in Observer
      /\ \A i \in off : i \in gone \/ i \in ids \ kept
  BY MessageAssumption
<1>3. /\ s \in [Id -> Entry \cup {None}] /\ c \in [Observer \X Id -> Nat]
      /\ \A i \in Id, o \in Observer : c[<<o, i>>] \in Nat
  BY DEF Sound
<1>0. \A i \in Id : i \in off \/ s[i] = None => store'[i] = None
  BY <1>1
<1>4. ASSUME NEW i \in Id, i \notin off, s[i] # None
      PROVE  /\ store'[i] \in Entry /\ store'[i] # None
             /\ store'[i].parts = s[i].parts
             /\ store'[i].passed <=> (s[i].passed \/ i \in kept)
  <2>1. s[i] \in Entry
    BY <1>3, <1>4
  <2>2. CASE i \in kept
    <3>1. store'[i] = [s[i] EXCEPT !.passed = TRUE]
      BY <1>1, <1>4, <2>2
    <3>2. store'[i] \in Entry
      BY <2>1, <3>1 DEF Entry
    <3> QED  BY <2>1, <2>2, <3>1, <3>2, NoneAssumption DEF Entry
  <2>3. CASE i \notin kept
    BY <1>1, <1>4, <2>1, <2>3, NoneAssumption DEF Entry
  <2> QED  BY <2>2, <2>3
<1>5. \A i \in Id, o \in Observer :
        copies'[<<o, i>>] = IF i \in kept /\ Target(i[1]) = o THEN c[<<o, i>>] + 1
                                                             ELSE c[<<o, i>>]
  BY <1>1
<1>6. store' \in [Id -> Entry \cup {None}] /\ copies' \in [Observer \X Id -> Nat]
  <2>1. store' \in [Id -> Entry \cup {None}]
    <3>1. \A i \in Id : store'[i] \in Entry \cup {None}
      BY <1>0, <1>4
    <3> QED  BY <1>1, <3>1
  <2>2. copies' \in [Observer \X Id -> Nat]
    BY <1>1, <1>3
  <2> QED  BY <2>1, <2>2
<1>7. \A i \in Id : Complete(store', i) <=> store'[i] # None /\ Complete(s, i)
  BY <1>0, <1>4 DEF Complete
<1>8. \A i \in Id : Open(store', i) => Open(s, i)
  BY <1>0, <1>4, <1>7 DEF Open
<1>9. \A i \in Id, o \in Observer, p \in Observer :
        copies'[<<o, i>>] > 0 /\ copies'[<<p, i>>] > 0 => o = p /\ copies'[<<o, i>>] = 1
  <2> TAKE i \in Id, o \in Observer, p \in Observer
  <2>1. CASE i \in ids
    <3>1. c[<<o, i>>] = 0 /\ c[<<p, i>>] = 0
      BY <2>1
    <3> QED  BY <1>5, <3>1
  <2>2. CASE i \notin ids
    BY <1>2, <1>5, <2>2 DEF Sound
  <2> QED  BY <2>1, <2>2
<1>10. \A i \in Id, o \in Observer :
         copies'[<<o, i>>] > 0 /\ store'[i] # None => Complete(store', i) /\ store'[i].passed
  <2> TAKE i \in Id, o \in Observer
  <2> HAVE copies'[<<o, i>>] > 0 /\ store'[i] # None
  <2>1. CASE i \in ids
    <3>1. i \in kept
      BY <1>1, <2>1
    <3>2. s[i] # None /\ Complete(s, i)
      BY <1>0, <1>4, <2>1
    <3> QED  BY <1>0, <1>4, <1>7, <3>1, <3>2
  <2>2. CASE i \notin ids
    <3>1. copies'[<<o, i>>] = c[<<o, i>>] /\ s[i] # None
      BY <1>2, <1>0, <1>4, <1>5, <2>2
    <3>2. Complete(s, i) /\ s[i].passed
      BY <3>1 DEF Sound
    <3> QED  BY <1>0, <1>4, <1>7, <3>2
  <2> QED  BY <2>1, <2>2
<1>11. "offline" \notin Fault =>
         \A i \in Id : store'[i] # None /\ store'[i].passed
                         => \E o \in Observer : copies'[<<o, i>>] > 0
  <2> SUFFICES ASSUME "offline" \notin Fault, NEW i \in Id, store'[i] # None, store'[i].passed
               PROVE  \E o \in Observer : copies'[<<o, i>>] > 0
    OBVIOUS
  <2>1. CASE i \in kept
    <3>1. Target(i[1]) \in Observer /\ c[<<Target(i[1]), i>>] = 0
      BY <1>2, <2>1
    <3>2. copies'[<<Target(i[1]), i>>] > 0
      BY <1>5, <2>1, <3>1
    <3> QED  BY <3>1, <3>2
  <2>2. CASE i \notin kept
    <3>1. s[i] # None /\ s[i].passed
      BY <1>0, <1>4, <2>2
    <3> QED  BY <1>5, <2>2, <3>1 DEF Sound
  <2> QED  BY <2>1, <2>2
<1>12. \A i, j \in Id : i[1] = j[1] /\ Open(store', i) /\ Open(store', j) => i = j
  BY <1>8 DEF Sound
<1>13. Sound(store', copies')
  BY <1>6, <1>9, <1>10, <1>11, <1>12 DEF Sound
<1>14. done' \subseteq Msg /\ expired' \subseteq Msg
  BY <1>1 DEF Id
<1>15. ASSUME NEW seg \in Segment, Kept(s, d, expired, seg)
       PROVE  Kept(store', done', expired', seg)
  <2>1. CASE seg[1] \in d \cup expired
    BY <1>1, <2>1 DEF Kept
  <2>2. CASE \E i \in {seg[1]} \X Stamp : s[i] # None /\ seg[2] \in s[i].parts
    <3> PICK i \in {seg[1]} \X Stamp : s[i] # None /\ seg[2] \in s[i].parts
      BY <2>2
    <3>1. i \in Id /\ i[1] = seg[1]
      BY DEF Id, Segment
    <3>2. CASE i \in off
      <4>1. i[1] \in done' \cup expired'
        BY <1>1, <1>2, <3>2
      <4> QED  BY <3>1, <4>1 DEF Kept
    <3>3. CASE i \notin off
      BY <1>0, <1>4, <3>1, <3>3 DEF Kept
    <3> QED  BY <3>2, <3>3
  <2> QED  BY <1>15, <2>1, <2>2 DEF Kept
<1>16. \A i \in Id \ ids, o \in Observer : copies'[<<o, i>>] = c[<<o, i>>]
  BY <1>2, <1>5
<1>17. \A i \in Id : s[i] = None \/ Complete(s, i) => store'[i] = None \/ Complete(store', i)
  BY <1>0, <1>4, <1>7
<1> QED  BY <1>13, <1>14, <1>15, <1>16, <1>17

\* ProcessCompleteSmsMessagesL, which leaves out the entry that is worked on.
LEMMA ProcessCompleteStep ==
  ASSUME NEW s, NEW c, NEW d \in SUBSET Msg, NEW gone \in SUBSET Id,
         Sound(s, c), expired \subseteq Msg, ProcessComplete(s, c, d, gone)
  PROVE  /\ Sound(store', copies') /\ done' \subseteq Msg /\ expired' \subseteq Msg
         /\ pdu # None /\ pdu.id \in Id =>
              \A o \in Observer : copies'[<<o, pdu.id>>] = c[<<o, pdu.id>>]
         /\ \A i \in Id : s[i] = None \/ Complete(s, i) => store'[i] = None \/ Complete(store', i)
         /\ \A seg \in Segment : Kept(s, d, expired, seg) => Kept(store', done', expired', seg)
<1> PICK ids \in SUBSET Unpassed(s) : ProcessMessages(ids, s, c, d, gone)
  BY DEF ProcessComplete
<1>1. /\ ids \in SUBSET Id
      /\ \A i \in ids : Complete(s, i) /\ ~s[i].passed /\ (pdu # None => pdu.id # i)
  BY DEF Unpassed
<1>2. ASSUME NEW i \in ids, NEW o \in Observer PROVE c[<<o, i>>] = 0
  <2>1. c[<<o, i>>] \in Nat /\ ~(c[<<o, i>>] > 0 /\ s[i] # None)
    BY <1>1 DEF Sound
  <2> QED  BY <1>1, <2>1 DEF Complete
<1>3. pdu # None => pdu.id \notin ids
  BY <1>1
<1>4. \A i \in ids : s[i] = None \/ Complete(s, i)
  BY <1>1
<1>5. /\ Sound(store', copies') /\ done' \subseteq Msg /\ expired' \subseteq Msg
      /\ \A i \in Id \ ids, o \in Observer : copies'[<<o, i>>] = c[<<o, i>>]
      /\ \A i \in Id : s[i] = None \/ Complete(s, i) => store'[i] = None \/ Complete(store', i)
      /\ \A seg \in Segment : Kept(s, d, expired, seg) => Kept(store', done', expired', seg)
  BY <1>1, <1>2, <1>4, ProcessStep
<1> QED  BY <1>3, <1>5

-----------------------------------------------------------------------------
\* Steps that leave the store and the buffers alone.
LEMMA QuietStep ==
  ASSUME ReceiveInv, Typed', UNCHANGED mail,
         net' \subseteq net, \A seg \in net \ net' : seg \in Bad \/ Kept(store, done, expired, seg),
         \/ pdu' = None
         \/ pdu' = pdu /\ (st' = st \/ st' \notin {"Accept", "Absorb", "InvalidNack"}),
         st' = "Logging" => pdu' # None
  PROVE  ReceiveInv'
<1>1. UNCHANGED <<store, copies, done, expired>>
  BY DEF mail
<1>2. Sound(store, copies)'
  BY <1>1 DEF ReceiveInv, Sound, Complete, Open
<1>3. PduSound'
  BY <1>1 DEF ReceiveInv, PduSound, Kept, Complete
<1>4. Safe'
  BY <1>1 DEF ReceiveInv, Safe, Kept
<1> QED  BY <1>2, <1>3, <1>4 DEF ReceiveInv

\* Steps that hand messages on, in the middle of which the store is s, the buffers
\* are c and the history is d.
LEMMA HandingStep ==
  ASSUME ReceiveInv, NEW s, NEW c, NEW d \in SUBSET Msg, NEW gone \in SUBSET Id,
         Sound(s, c), ProcessComplete(s, c, d, gone), Typed',
         \A i \in Id : store[i] = None \/ Complete(store, i) => s[i] = None \/ Complete(s, i),
         \A o \in Observer, i \in Id : copies[<<o, i>>] = 0 => c[<<o, i>>] = 0,
         \A seg \in Segment : Kept(store, done, expired, seg) => Kept(s, d, expired, seg),
         net' = net, pdu' = pdu, st' = st \/ st' \notin Reporting \cup {"Logging"}
  PROVE  ReceiveInv'
<1>1. /\ Sound(store', copies')
      /\ pdu # None /\ pdu.id \in Id =>
           \A o \in Observer : copies'[<<o, pdu.id>>] = c[<<o, pdu.id>>]
      /\ \A i \in Id : s[i] = None \/ Complete(s, i) => store'[i] = None \/ Complete(store', i)
      /\ \A seg \in Segment : Kept(s, d, expired, seg) => Kept(store', done', expired', seg)
  BY ProcessCompleteStep DEF ReceiveInv, Typed
<1>2. pdu # None => pdu.seg \in Segment /\ (pdu.id = None \/ pdu.id \in Id)
  BY DEF ReceiveInv, Typed, Processor
<1>3. PduSound'
  <2>1. pdu # None /\ pdu.id # None => \A o \in Observer : copies'[<<o, pdu.id>>] = 0
    BY <1>1, <1>2 DEF ReceiveInv, PduSound
  <2>2. pdu # None /\ pdu.complete =>
          pdu.id # None /\ (store'[pdu.id] = None \/ Complete(store', pdu.id))
    BY <1>1, <1>2 DEF ReceiveInv, PduSound
  <2>3. pdu # None /\ st' = "Accept" => Kept(store', done', expired', pdu.seg)
    BY <1>1, <1>2 DEF ReceiveInv, PduSound, Reporting
  <2>4. /\ st' = "Logging" => pdu' # None
        /\ pdu # None /\ st' \in {"Absorb", "InvalidNack"} => pdu.seg \in Bad
    BY DEF ReceiveInv, PduSound, Reporting
  <2> QED  BY <2>1, <2>2, <2>3, <2>4 DEF PduSound
<1>4. Safe'
  BY <1>1 DEF ReceiveInv, Safe
<1>5. Sound(store, copies)'
  BY <1>1
<1> QED  BY <1>3, <1>4, <1>5 DEF ReceiveInv

-----------------------------------------------------------------------------
\* The types of what is not mail: the reader's own steps.
LEMMA ReceiveType ==
  ASSUME Typed, Receive PROVE st' \in State /\ suspended' \in BOOLEAN /\ delayed' \in BOOLEAN
BY DEF Typed, Receive, Resume, State

LEMMA DoneType ==
  ASSUME Typed, Done
  PROVE  pdu' = None /\ st' \in {"Idle", "Resume", "Waiting"}
         /\ suspended' \in BOOLEAN /\ delayed' \in BOOLEAN
BY DEF Typed, Done, Receive, Resume

LEMMA ReaderStep ==
  ASSUME ReceiveInv,
         \/ SetReceiveModeDone \/ ResumeDone \/ AckDone \/ DiscardDone \/ OOMNackDone
         \/ OOMTimer \/ ReceiveFailed \/ AckTimeout
  PROVE  ReceiveInv'
<1> USE DEF ReceiveInv
<1>1. CASE SetReceiveModeDone
  <2>1. Typed'
    BY <1>1 DEF SetReceiveModeDone, Resume, Typed, State, phone, protocol, disk, mail
  <2>2. UNCHANGED <<net, pdu, mail>> /\ st' \in {"Idle", "Resume"}
    BY <1>1 DEF SetReceiveModeDone, Resume, phone
  <2> QED  BY <2>1, <2>2, QuietStep
<1>2. CASE ResumeDone
  <2>1. /\ UNCHANGED <<net, protocol, disk, mail>> /\ held' \in BOOLEAN
        /\ pdu' \in {pdu, None} /\ st' \in {"Idle", "Resume", "Waiting"}
        /\ suspended' \in BOOLEAN /\ delayed' \in BOOLEAN
    BY <1>2, DoneType DEF ResumeDone, Receive, Resume, Typed
  <2>2. Typed'
    BY <2>1 DEF Typed, State, protocol, disk, mail
  <2> QED  BY <2>1, <2>2, QuietStep
<1>3. CASE AckDone
  <2>1. /\ pdu # None /\ pdu' = pdu /\ st = "Accept" /\ st' = "Logging" /\ UNCHANGED mail
        /\ net' = net \ {pdu.seg} \/ net' = net
    BY <1>3 DEF AckDone, AnsweredUnless, Unheard, Answered
  <2>2. Typed'
    BY <1>3, <2>1 DEF AckDone, Typed, State, protocol, disk, mail
  <2>3. Kept(store, done, expired, pdu.seg)
    BY <2>1 DEF PduSound
  <2>4. net' \subseteq net /\ \A seg \in net \ net' : Kept(store, done, expired, seg)
    BY <2>1, <2>3
  <2> QED  BY <2>1, <2>2, <2>4, QuietStep
<1>4. CASE DiscardDone
  <2>1. /\ pdu # None /\ st \in {"Absorb", "InvalidNack"} /\ UNCHANGED mail /\ Done
        /\ net' = net \ {pdu.seg} \/ net' = net
    BY <1>4 DEF DiscardDone, AnsweredUnless, Unheard, Answered
  <2>2. Typed'
    BY <1>4, <2>1, DoneType DEF DiscardDone, Typed, State, protocol, disk, mail
  <2>3. pdu.seg \in Bad
    BY <2>1 DEF PduSound
  <2>4. net' \subseteq net /\ \A seg \in net \ net' : seg \in Bad
    BY <2>1, <2>3
  <2> QED  BY <2>1, <2>2, <2>4, QuietStep, DoneType
<1>5. CASE OOMNackDone
  <2>1. /\ UNCHANGED <<phone, protocol, disk, mail>>
        /\ pdu' = None \/ pdu' = pdu
        /\ st' \in {"WaitTimer", "Idle", "Resume", "Waiting"}
        /\ suspended' \in BOOLEAN /\ delayed' \in BOOLEAN
    BY <1>5, DoneType DEF OOMNackDone, Typed
  <2>2. Typed'
    BY <2>1 DEF Typed, State, phone, protocol, disk, mail
  <2> QED  BY <2>1, <2>2, QuietStep DEF phone
<1>6. CASE OOMTimer
  <2>1. /\ UNCHANGED <<phone, protocol, pdu, disk, mail>> /\ st' \in {"Resume", "Waiting"}
        /\ suspended' \in BOOLEAN /\ delayed' \in BOOLEAN
    BY <1>6 DEF OOMTimer, Receive, Resume, Typed
  <2>2. Typed'
    BY <2>1 DEF Typed, State, phone, protocol, disk, mail
  <2> QED  BY <2>1, <2>2, QuietStep DEF phone
<1>7. CASE ReceiveFailed
  <2>1. /\ UNCHANGED <<phone, protocol, disk, mail>> /\ pdu' = None
        /\ st' \in {"Idle", "Resume", "Waiting"}
        /\ suspended' \in BOOLEAN /\ delayed' \in BOOLEAN
    BY <1>7, DoneType DEF ReceiveFailed, Typed
  <2>2. Typed'
    BY <2>1 DEF Typed, State, phone, protocol, disk, mail
  <2> QED  BY <2>1, <2>2, QuietStep DEF phone
<1>8. CASE AckTimeout
  <2>1. /\ st \in Reporting /\ pdu # None /\ pdu' = None /\ st' = st /\ UNCHANGED mail
        /\ net' = net \/ (st # "OOMNack" /\ net' = net \ {pdu.seg})
    <3>1. /\ st \in Reporting /\ pdu # None /\ pdu' = None /\ st' = st /\ UNCHANGED mail
          /\ net' = (IF st = "OOMNack" THEN net ELSE net \ {pdu.seg}) \/ net' = net
      BY <1>8 DEF AckTimeout, Unheard, Answered
    <3>2. CASE st = "OOMNack"
      BY <3>1, <3>2
    <3>3. CASE st # "OOMNack"
      BY <3>1, <3>3
    <3> QED  BY <3>2, <3>3
  <2>2. Typed'
    BY <1>8, <2>1 DEF AckTimeout, Typed, protocol, disk, mail
  <2>3. st # "OOMNack" => pdu.seg \in Bad \/ Kept(store, done, expired, pdu.seg)
    BY <2>1 DEF PduSound, Reporting
  <2>4. /\ net' \subseteq net /\ st' # "Logging"
        /\ \A seg \in net \ net' : seg \in Bad \/ Kept(store, done, expired, seg)
    BY <2>1, <2>3 DEF Reporting
  <2> QED  BY <2>1, <2>2, <2>4, QuietStep
<1> QED  BY <1>1, <1>2, <1>3, <1>4, <1>5, <1>6, <1>7, <1>8

-----------------------------------------------------------------------------
\* The TSY delivers.

\* A PDU that is answered without being stored.
LEMMA ReportOnly ==
  ASSUME ReceiveInv, NEW seg \in net, NEW state \in {"Absorb", "InvalidNack", "OOMNack"},
         state \in {"Absorb", "InvalidNack"} => seg \in Bad,
         Report(state, seg, None, store), monitor' \in {"Idle", "Monitor", "Resume"},
         nackd' \in BOOLEAN
  PROVE  ReceiveInv'
<1> USE DEF ReceiveInv
<1>1. /\ st' = state /\ UNCHANGED <<store, net, protocol, delayed, copies, done, expired>>
      /\ pdu' = [seg |-> seg, id |-> None, complete |-> FALSE]
      /\ suspended' \in BOOLEAN /\ held' \in BOOLEAN
  BY DEF Report, Typed
<1>2. pdu' \in Processor /\ seg \in Segment
  BY <1>1 DEF Processor, Typed
<1>3. Typed'
  BY <1>1, <1>2 DEF Typed, State, Reporting, protocol
<1>4. PduSound'
  BY <1>1, <1>2 DEF PduSound
<1>5. Sound(store, copies)' /\ Safe'
  BY <1>1 DEF Sound, Safe, Kept, Complete, Open
<1> QED  BY <1>3, <1>4, <1>5

\* A PDU that is put into entry i.
LEMMA AddStep ==
  ASSUME ReceiveInv, NEW seg \in net \ Bad, NEW i \in Id, Into(seg, i)
  PROVE  /\ AddSegment(seg, i)[i] \in Entry /\ seg[2] \in AddSegment(seg, i)[i].parts
         /\ \A o \in Observer : copies[<<o, i>>] = 0
         /\ Sound(AddSegment(seg, i), copies)
         /\ \A t \in Segment : Kept(store, done, expired, t)
                                 => Kept(AddSegment(seg, i), done, expired, t)
<1> DEFINE s == AddSegment(seg, i)
<1> USE DEF ReceiveInv
<1>1. seg \in Segment /\ i[1] = seg[1] /\ seg[2] \in 1..Parts[seg[1]] /\ seg[1] \in Msg
  BY DEF Typed, Segment, Into
<1>2. store \in [Id -> Entry \cup {None}] /\ copies \in [Observer \X Id -> Nat]
  BY DEF Sound
<1>3. IF Matches(seg) THEN i \in Match(seg[1]) ELSE Fresh(i)
  BY DEF Into
<1>4. Matches(seg) => store[i] \in Entry /\ store[i] # None /\ ~Complete(store, i)
  BY <1>2, <1>3 DEF Match
<1>5. ASSUME NEW o \in Observer PROVE copies[<<o, i>>] = 0
  <2>1. CASE Matches(seg)
    <3>1. ~(copies[<<o, i>>] > 0) /\ copies[<<o, i>>] \in Nat
      BY <1>2, <1>4, <2>1 DEF Sound
    <3> QED  BY <3>1
  <2>2. CASE ~Matches(seg)
    BY <1>3, <2>2 DEF Fresh
  <2> QED  BY <2>1, <2>2
<1> DEFINE e == [parts |-> IF Matches(seg) THEN store[i].parts \cup {seg[2]} ELSE {seg[2]},
                   passed |-> FALSE]
<1>7. s = [store EXCEPT ![i] = e]
  BY DEF AddSegment
<1>8. /\ e \in Entry /\ e # None /\ seg[2] \in e.parts /\ ~e.passed
      /\ store[i] # None => store[i].parts \subseteq e.parts
      /\ ~Matches(seg) => e.parts = {seg[2]}
  <2>1. seg[2] \in Nat
    BY <1>1
  <2>2. ASSUME NEW P \in SUBSET Nat, NEW x, x = [parts |-> P, passed |-> FALSE]
        PROVE  x \in Entry /\ x # None /\ x.parts = P /\ ~x.passed
    <3>1. x \in Entry
      BY <2>2 DEF Entry
    <3>2. x # None
      BY <3>1, NoneAssumption DEF Entry
    <3> QED  BY <2>2, <3>1, <3>2
  <2>3. CASE Matches(seg)
    <3> DEFINE P == store[i].parts \cup {seg[2]}
    <3>1. P \in SUBSET Nat
      BY <1>4, <2>1, <2>3 DEF Entry
    <3>2. e = [parts |-> P, passed |-> FALSE]
      BY <2>3
    <3> HIDE DEF e
    <3>3. e \in Entry /\ e # None /\ e.parts = P /\ ~e.passed
      BY <2>2, <3>1, <3>2
    <3> QED  BY <2>3, <3>3
  <2>4. CASE ~Matches(seg)
    <3>1. store[i] = None
      BY <1>3, <2>4 DEF Fresh
    <3>2. e = [parts |-> {seg[2]}, passed |-> FALSE]
      BY <2>4
    <3> HIDE DEF e
    <3>3. e \in Entry /\ e # None /\ e.parts = {seg[2]} /\ ~e.passed
      BY <2>1, <2>2, <3>2
    <3> QED  BY <3>1, <3>3
  <2> QED  BY <2>3, <2>4
<1> HIDE DEF e
<1>9. s[i] = e /\ \A j \in Id \ {i} : s[j] = store[j]
  BY <1>2, <1>7
<1>10. s \in [Id -> Entry \cup {None}]
  BY <1>2, <1>7, <1>8
<1> HIDE DEF s
<1>11. \A j \in Id \ {i} : (Complete(s, j) <=> Complete(store, j)) /\ (Open(s, j) <=> Open(store, j))
  BY <1>9 DEF Complete, Open
<1>12. ASSUME NEW k \in Id, k # i, k[1] = i[1], Open(store, k), Open(s, i) PROVE FALSE
  <2>1. CASE Matches(seg)
    BY <1>4, <1>12, <2>1 DEF Open, Sound
  <2>2. CASE ~Matches(seg)
    <3>1. k \in Match(seg[1])
      BY <1>1, <1>12 DEF Match, Open, Id
    <3>2. Parts[seg[1]] = 1
      BY <1>1, <2>2, <3>1, MessageAssumption DEF Matches
    <3>3. s[i].parts = 1..Parts[i[1]]
      BY <1>1, <1>8, <1>9, <2>2, <3>2
    <3> QED  BY <1>8, <1>9, <1>12, <3>3 DEF Open, Complete
  <2> QED  BY <2>1, <2>2
<1>13. \A j, k \in Id : j[1] = k[1] /\ Open(s, j) /\ Open(s, k) => j = k
  BY <1>11, <1>12 DEF Sound
<1>14. \A j \in Id, o \in Observer :
         copies[<<o, j>>] > 0 /\ s[j] # None => Complete(s, j) /\ s[j].passed
  BY <1>5, <1>9, <1>11 DEF Sound
<1>15. "offline" \notin Fault =>
         \A j \in Id : s[j] # None /\ s[j].passed => \E o \in Observer : copies[<<o, j>>] > 0
  BY <1>8, <1>9 DEF Sound
<1>16. Sound(s, copies)
  <2>1. \A j \in Id, o \in Observer, p \in Observer :
          copies[<<o, j>>] > 0 /\ copies[<<p, j>>] > 0 => o = p /\ copies[<<o, j>>] = 1
    BY DEF Sound
  <2> QED  BY <1>2, <1>10, <1>13, <1>14, <1>15, <2>1 DEF Sound
<1>17. ASSUME NEW t \in Segment, Kept(store, done, expired, t) PROVE Kept(s, done, expired, t)
  <2>1. \A j \in {t[1]} \X Stamp : j \in Id
    BY DEF Segment, Id
  <2> QED  BY <1>8, <1>9, <1>17, <2>1 DEF Kept
<1>18. s[i] \in Entry /\ seg[2] \in s[i].parts
  BY <1>8, <1>9
<1> QED  BY <1>5, <1>16, <1>17, <1>18 DEF s

LEMMA AddReported ==
  ASSUME ReceiveInv, NEW seg \in net \ Bad, NEW state \in {"Accept", "OOMNack"},
         NEW i \in Id, Into(seg, i), Report(state, seg, i, AddSegment(seg, i)), UNCHANGED disk
  PROVE  ReceiveInv'
<1> DEFINE s == AddSegment(seg, i)
<1> USE DEF ReceiveInv
<1>1. /\ s[i] \in Entry /\ seg[2] \in s[i].parts /\ Sound(s, copies)
      /\ \A o \in Observer : copies[<<o, i>>] = 0
      /\ \A t \in Segment : Kept(store, done, expired, t) => Kept(s, done, expired, t)
  BY AddStep
<1> HIDE DEF s
<1>2. /\ st' = state /\ store' = s /\ UNCHANGED <<net, protocol, delayed, copies, done, expired>>
      /\ pdu' = [seg |-> seg, id |-> i, complete |-> i # None /\ Complete(s, i)]
      /\ suspended' \in BOOLEAN /\ held' \in BOOLEAN
  BY DEF Report, Typed, s
<1>3. seg \in Segment /\ i[1] = seg[1] /\ i \in {seg[1]} \X Stamp /\ i # None
  BY NoneAssumption DEF Typed, Into, Id
<1>4. pdu' \in Processor
  BY <1>2, <1>3 DEF Processor
<1>5. Typed'
  BY <1>2, <1>4 DEF Typed, State, Reporting, protocol, disk
<1>6. Kept(store', done', expired', seg)
  BY <1>1, <1>2, <1>3, NoneAssumption DEF Kept, Entry
<1>7. PduSound'
  BY <1>1, <1>2, <1>3, <1>6 DEF PduSound
<1>8. Safe'
  BY <1>1, <1>2 DEF Safe
<1>9. Sound(store, copies)'
  BY <1>1, <1>2
<1> QED  BY <1>5, <1>7, <1>8, <1>9

LEMMA DeliveryStep ==
  ASSUME ReceiveInv, NEW seg \in Segment,
         ReceivePDU(seg) \/ DiscardPDU(seg) \/ RefuseDiskFull(seg) \/ RefuseNoMemory(seg)
  PROVE  ReceiveInv'
<1>1. monitor \in {"Idle", "Monitor", "Resume"} /\ nackd \in BOOLEAN
  BY DEF ReceiveInv, Typed
<1>2. CASE ReceivePDU(seg)
  <2>1. seg \in net \ Bad /\ UNCHANGED disk
        /\ \E i \in Id : Into(seg, i) /\ Report("Accept", seg, i, AddSegment(seg, i))
    BY <1>2 DEF ReceivePDU
  <2> QED  BY <2>1, AddReported
<1>3. CASE DiscardPDU(seg)
  <2>1. seg \in net /\ seg \in Bad /\ UNCHANGED disk
        /\ \E state \in {"Absorb", "InvalidNack"} : Report(state, seg, None, store)
    BY <1>3 DEF DiscardPDU
  <2> QED  BY <1>1, <2>1, ReportOnly DEF disk
<1>4. CASE RefuseDiskFull(seg)
  <2>1. seg \in net /\ Report("OOMNack", seg, None, store) /\ Watch!Refused
    BY <1>4 DEF RefuseDiskFull
  <2>2. monitor' \in {"Idle", "Monitor", "Resume"} /\ nackd' \in BOOLEAN
    BY <1>1, <2>1 DEF Watch!Refused
  <2> QED  BY <2>1, <2>2, ReportOnly
<1>5. CASE RefuseNoMemory(seg)
  <2>1. /\ seg \in net \ Bad /\ UNCHANGED disk
        /\ \/ Report("OOMNack", seg, None, store)
           \/ \E i \in Id : Into(seg, i) /\ Report("OOMNack", seg, i, AddSegment(seg, i))
    BY <1>5 DEF RefuseNoMemory
  <2>2. CASE Report("OOMNack", seg, None, store)
    BY <1>1, <2>1, <2>2, ReportOnly DEF disk
  <2> QED  BY <2>1, <2>2, AddReported
<1> QED  BY <1>2, <1>3, <1>4, <1>5

\* The event is logged, and the message handed on if it is complete.
LEMMA LogStep ==
  ASSUME ReceiveInv, LogDone PROVE ReceiveInv'
<1> USE DEF ReceiveInv
<1>1. /\ st = "Logging" /\ pdu # None /\ UNCHANGED <<phone, protocol, disk>> /\ Done
      /\ \/ UNCHANGED mail
         \/ \E taken \in SUBSET {pdu.id} :
              /\ Taken(IF pdu.complete THEN {pdu.id} ELSE {}, taken)
              /\ ProcessMessages(taken, store, copies, done, {})
  BY DEF LogDone, PduSound
<1>2. pdu' = None /\ st' \in {"Idle", "Resume", "Waiting"}
      /\ suspended' \in BOOLEAN /\ delayed' \in BOOLEAN
  BY <1>1, DoneType
<1>3. CASE UNCHANGED mail
  <2>1. Typed'
    BY <1>1, <1>2, <1>3 DEF Typed, State, phone, protocol, disk, mail
  <2> QED  BY <1>1, <1>2, <1>3, <2>1, QuietStep DEF phone
<1>4. ASSUME NEW taken \in SUBSET {pdu.id},
             Taken(IF pdu.complete THEN {pdu.id} ELSE {}, taken),
             ProcessMessages(taken, store, copies, done, {})
      PROVE  ReceiveInv'
  <2>1. taken # {} => pdu.complete
    BY <1>4 DEF Taken
  <2>2. pdu.id \in Id \cup {None}
    BY <1>1 DEF Typed, Processor
  <2>3. taken \in SUBSET Id /\ \A i \in taken : /\ (store[i] = None \/ Complete(store, i))
                                                 /\ \A o \in Observer : copies[<<o, i>>] = 0
    <3>1. ASSUME NEW i \in taken
          PROVE  /\ i = pdu.id /\ pdu.complete /\ i \in Id
                 /\ store[i] = None \/ Complete(store, i)
                 /\ \A o \in Observer : copies[<<o, i>>] = 0
      <4>1. i = pdu.id /\ pdu.complete /\ pdu # None
        BY <1>1, <2>1, <3>1
      <4> QED  BY <4>1, <2>2 DEF PduSound
    <3> QED  BY <3>1
  <2>4. done \in SUBSET Msg /\ expired \subseteq Msg /\ {} \in SUBSET Id
    BY DEF Typed
  <2>5. /\ Sound(store', copies') /\ done' \subseteq Msg /\ expired' \subseteq Msg
        /\ \A seg \in Segment : Kept(store, done, expired, seg) => Kept(store', done', expired', seg)
    <3>1. Sound(store, copies) /\ ProcessMessages(taken, store, copies, done, {})
      BY <1>4
    <3>2. /\ taken \in SUBSET Id
          /\ \A i \in taken, o \in Observer : copies[<<o, i>>] = 0
          /\ \A i \in taken : store[i] = None \/ Complete(store, i)
      BY <2>3
    <3> QED  BY ONLY <2>4, <3>1, <3>2, ProcessStep
  <2>6. Typed'
    BY <1>1, <1>2, <2>5 DEF Typed, State, phone, protocol, disk
  <2>7. PduSound'
    BY <1>2 DEF PduSound
  <2>8. Safe'
    BY <1>1, <2>5 DEF Safe, phone
  <2>9. Sound(store, copies)'
    BY <2>5
  <2> QED  BY <2>6, <2>7, <2>8, <2>9
<1> QED  BY <1>1, <1>3, <1>4

-----------------------------------------------------------------------------
\* Power and restart.

\* What the network may have heard of an answer that is cut off.
LEMMA CutOffStep ==
  ASSUME ReceiveInv, CutOff
  PROVE  /\ net' \subseteq net /\ st' = "Idle" /\ pdu' = None /\ monitor' = "Idle"
         /\ \A seg \in net \ net' : seg \in Bad \/ Kept(store, done, expired, seg)
<1>1. st' = "Idle" /\ pdu' = None /\ monitor' = "Idle"
  BY DEF CutOff
<1>2. \/ net' = net
      \/ st \in Reporting /\ pdu # None /\ st # "OOMNack" /\ net' = net \ {pdu.seg}
  <2>1. CASE st \in Reporting /\ pdu # None
    <3>1. net' = (IF st = "OOMNack" THEN net ELSE net \ {pdu.seg}) \/ net' = net
      BY <2>1 DEF CutOff, Unheard, Answered
    <3>2. CASE st = "OOMNack"
      BY <3>1, <3>2
    <3>3. CASE st # "OOMNack"
      BY <2>1, <3>1, <3>3
    <3> QED  BY <3>2, <3>3
  <2>2. CASE ~(st \in Reporting /\ pdu # None)
    BY <2>2 DEF CutOff
  <2> QED  BY <2>1, <2>2
<1>3. st \in Reporting /\ pdu # None /\ st # "OOMNack"
        => pdu.seg \in Bad \/ Kept(store, done, expired, pdu.seg)
  BY DEF ReceiveInv, PduSound, Reporting
<1> QED  BY <1>1, <1>2, <1>3

LEMMA RestartStep ==
  ASSUME ReceiveInv, Restart PROVE ReceiveInv'
<1> USE DEF ReceiveInv
<1> DEFINE s == [i \in Id |-> IF store[i] = None THEN None
                              ELSE [store[i] EXCEPT !.passed = FALSE]]
<1>1. /\ power' = "off" /\ booting' = TRUE /\ bound' = {}
      /\ suspended' = FALSE /\ delayed' = FALSE /\ nackd' = FALSE
      /\ copies' = [x \in Observer \X Id |-> 0] /\ store' = s
      /\ UNCHANGED <<held, done, expired>> /\ CutOff
  BY DEF Restart
<1>2. /\ net' \subseteq net /\ st' = "Idle" /\ pdu' = None /\ monitor' = "Idle"
      /\ \A seg \in net \ net' : seg \in Bad \/ Kept(store, done, expired, seg)
  BY <1>1, CutOffStep
<1>3. Typed'
  BY <1>1, <1>2 DEF Typed, State
<1>4. ASSUME NEW i \in Id
      PROVE  /\ s[i] \in Entry \cup {None} /\ (s[i] = None <=> store[i] = None)
             /\ store[i] # None => s[i].parts = store[i].parts /\ ~s[i].passed
  <2>1. CASE store[i] = None
    BY <2>1
  <2>2. CASE store[i] # None
    <3>1. store[i] \in Entry /\ s[i] = [store[i] EXCEPT !.passed = FALSE]
      BY <2>2 DEF Sound
    <3>2. s[i] \in Entry
      BY <3>1 DEF Entry
    <3> QED  BY <2>2, <3>1, <3>2, NoneAssumption DEF Entry
  <2> QED  BY <2>1, <2>2
<1>5. s \in [Id -> Entry \cup {None}]
  BY <1>4
<1> HIDE DEF s
<1>6. \A i \in Id : Open(s, i) <=> Open(store, i)
  BY <1>4 DEF Open, Complete
<1>7. \A i \in Id, o \in Observer : copies'[<<o, i>>] = 0
  BY <1>1
<1>8. copies' \in [Observer \X Id -> Nat]
  BY <1>1
<1>9. \A i, j \in Id : i[1] = j[1] /\ Open(s, i) /\ Open(s, j) => i = j
  BY <1>6 DEF Sound
<1>10. Sound(s, copies')
  BY <1>4, <1>5, <1>7, <1>8, <1>9 DEF Sound
<1>11. ASSUME NEW seg \in Segment, Kept(store, done, expired, seg)
       PROVE  Kept(s, done, expired, seg)
  <2>1. \A j \in {seg[1]} \X Stamp : j \in Id
    BY DEF Segment, Id
  <2> QED  BY <1>4, <1>11, <2>1 DEF Kept
<1>12. PduSound'
  BY <1>2 DEF PduSound
<1>13. Safe'
  BY <1>1, <1>2, <1>11 DEF Safe
<1>14. Sound(store, copies)'
  BY <1>1, <1>10
<1> QED  BY <1>3, <1>12, <1>13, <1>14

LEMMA PowerStep ==
  ASSUME ReceiveInv,
         PowerUp \/ PhoneInitialised \/ StartReader \/ PowerDown \/ Crash \/ CompleteAgain
  PROVE  ReceiveInv'
<1> USE DEF ReceiveInv
<1>1. CASE PowerUp
  <2>1. power' = "init" /\ UNCHANGED <<phone, booting, bound, reader, disk>>
        /\ ProcessComplete(store, copies, done, {})
    BY <1>1 DEF PowerUp
  <2>2. done \in SUBSET Msg /\ {} \in SUBSET Id /\ expired \subseteq Msg
    BY DEF Typed
  <2>3. done' \subseteq Msg /\ expired' \subseteq Msg
    BY <2>1, <2>2, ProcessCompleteStep
  <2>4. Typed'
    BY <2>1, <2>3 DEF Typed, phone, reader, disk
  <2>5. net' = net /\ pdu' = pdu /\ st' = st
    BY <2>1 DEF phone, reader
  <2> QED  BY <2>1, <2>2, <2>4, <2>5, HandingStep
<1>2. CASE PhoneInitialised
  <2>1. Typed'
    BY <1>2 DEF PhoneInitialised, Typed, phone, reader, disk, mail
  <2>2. UNCHANGED <<net, st, pdu, mail>>
    BY <1>2 DEF PhoneInitialised, phone, reader
  <2> QED  BY <2>1, <2>2, QuietStep DEF PduSound
<1>3. CASE StartReader
  <2>1. /\ power' = "on" /\ st' \in {st, "SetReceiveMode"}
        /\ UNCHANGED <<phone, booting, bound, pdu, suspended, delayed, disk, mail>>
    BY <1>3 DEF StartReader
  <2>2. Typed'
    BY <2>1 DEF Typed, State, phone, disk, mail
  <2> QED  BY <2>1, <2>2, QuietStep DEF PduSound, phone
<1>4. CASE PowerDown
  <2>1. power' = "off" /\ CutOff
        /\ UNCHANGED <<held, booting, bound, suspended, delayed, nackd, mail>>
    BY <1>4 DEF PowerDown
  <2>2. /\ net' \subseteq net /\ st' = "Idle" /\ pdu' = None /\ monitor' = "Idle"
        /\ \A seg \in net \ net' : seg \in Bad \/ Kept(store, done, expired, seg)
    BY <2>1, CutOffStep
  <2>3. Typed'
    BY <2>1, <2>2 DEF Typed, State, mail
  <2> QED  BY <2>1, <2>2, <2>3, QuietStep
<1>5. CASE Crash
  BY <1>5, RestartStep DEF Crash
<1>6. CASE CompleteAgain
  <2>1. pdu = None /\ st \in Reporting
        /\ \/ Restart
           \/ /\ st' = "WaitTimer"
              /\ UNCHANGED <<phone, protocol, pdu, suspended, delayed, disk, mail>>
           \/ UNCHANGED <<phone, protocol, disk, mail>> /\ Done
    BY <1>6 DEF CompleteAgain
  <2>2. CASE Restart
    BY <2>2, RestartStep
  <2>3. CASE /\ st' = "WaitTimer"
             /\ UNCHANGED <<phone, protocol, pdu, suspended, delayed, disk, mail>>
    <3>1. Typed'
      BY <2>3 DEF Typed, State, phone, protocol, disk, mail
    <3> QED  BY <2>1, <2>3, <3>1, QuietStep DEF phone
  <2>4. CASE UNCHANGED <<phone, protocol, disk, mail>> /\ Done
    <3>1. Typed'
      BY <2>4, DoneType DEF Typed, State, phone, protocol, disk, mail
    <3> QED  BY <2>4, <3>1, DoneType, QuietStep DEF phone
  <2> QED  BY <2>1, <2>2, <2>3, <2>4
<1> QED  BY <1>1, <1>2, <1>3, <1>4, <1>5, <1>6

-----------------------------------------------------------------------------
\* The clients.

LEMMA ReadStep ==
  ASSUME ReceiveInv, NEW s, NEW c, NEW d \in SUBSET Msg, Sound(s, c),
         MessageReadedSuccessfully(s, c, d), booting' \in BOOLEAN,
         \A i \in Id : store[i] = None \/ Complete(store, i) => s[i] = None \/ Complete(s, i),
         \A o \in Observer, i \in Id : copies[<<o, i>>] = 0 => c[<<o, i>>] = 0,
         \A seg \in Segment : Kept(store, done, expired, seg) => Kept(s, d, expired, seg)
  PROVE  ReceiveInv'
<1> USE DEF ReceiveInv
<1>1. /\ UNCHANGED <<phone, power, bound, pdu, disk>>
      /\ \/ store' = s /\ copies' = c /\ done' = d /\ expired' = expired
         \/ \E gone \in SUBSET Id : ProcessComplete(s, c, d, gone)
  BY DEF MessageReadedSuccessfully
<1>2. /\ st' = st \/ st' = "Resume"
      /\ suspended' \in BOOLEAN /\ delayed' \in BOOLEAN
  BY DEF MessageReadedSuccessfully, ResumeSmsReception, Resume, Typed
<1>3. ASSUME done' \subseteq Msg, expired' \subseteq Msg PROVE Typed'
  BY <1>1, <1>2, <1>3 DEF Typed, State, phone, disk
<1>4. CASE store' = s /\ copies' = c /\ done' = d /\ expired' = expired
  <2>1. Typed'
    BY <1>3, <1>4 DEF Typed
  <2>2. Sound(store, copies)'
    BY <1>4
  <2>3. PduSound'
    <3>1. pdu # None => pdu.seg \in Segment /\ (pdu.id = None \/ pdu.id \in Id)
      BY DEF Typed, Processor
    <3> QED  BY <1>1, <1>2, <1>4, <3>1 DEF PduSound
  <2>4. Safe'
    BY <1>1, <1>4 DEF Safe, phone
  <2> QED  BY <2>1, <2>2, <2>3, <2>4
<1>5. ASSUME NEW gone \in SUBSET Id, ProcessComplete(s, c, d, gone) PROVE ReceiveInv'
  <2>1. done' \subseteq Msg /\ expired' \subseteq Msg
    BY <1>5, ProcessCompleteStep DEF Typed
  <2>2. Typed'
    BY <1>3, <2>1
  <2>3. net' = net /\ pdu' = pdu /\ (st' = st \/ st' \notin Reporting \cup {"Logging"})
    BY <1>1, <1>2 DEF phone, Reporting
  <2> QED  BY <1>5, <2>2, <2>3, HandingStep
<1> QED  BY <1>1, <1>4, <1>5

\* A client that has read entry i gives its copy up, and the entry is deleted.
LEMMA ConfirmStep ==
  ASSUME ReceiveInv, NEW o \in Observer, NEW i \in Id, Confirm(o, i) PROVE ReceiveInv'
<1> USE DEF ReceiveInv
<1> DEFINE found == power # "off" /\ store[i] # None /\ store[i].passed
           s == IF found THEN [store EXCEPT ![i] = None] ELSE store
           c == [copies EXCEPT ![<<o, i>>] = @ - 1]
           d == done \cup {i[1]}
<1>1. /\ copies[<<o, i>>] > 0 /\ (power = "off" => "offline" \in Fault) /\ booting' \in BOOLEAN
      /\ MessageReadedSuccessfully(s, c, d)
  BY DEF Confirm, Typed
<1>2. /\ store \in [Id -> Entry \cup {None}] /\ copies \in [Observer \X Id -> Nat]
      /\ copies[<<o, i>>] = 1
  BY <1>1 DEF Sound
<1>3. s[i] \in {None, store[i]} /\ \A j \in Id \ {i} : s[j] = store[j]
  BY <1>2
<1>4. s \in [Id -> Entry \cup {None}]
  BY <1>2
<1>5. "offline" \notin Fault => s[i] = None
  BY <1>1, <1>2 DEF Sound
<1>6. \A p \in Observer, j \in Id : copies[<<p, j>>] \in Nat
        /\ c[<<p, j>>] = IF p = o /\ j = i THEN 0 ELSE copies[<<p, j>>]
  BY <1>2
<1>7. c \in [Observer \X Id -> Nat]
  BY <1>2
<1>8. d \in SUBSET Msg
  BY DEF Typed, Id
<1> HIDE DEF s, c, found
<1>9. \A j \in Id : s[j] # None => s[j] = store[j] /\ (Complete(s, j) <=> Complete(store, j))
                                  /\ (Open(s, j) <=> Open(store, j))
  BY <1>3 DEF Complete, Open
<1>10. Sound(s, c)
  <2>1. \A j \in Id, p \in Observer, q \in Observer :
          c[<<p, j>>] > 0 /\ c[<<q, j>>] > 0 => p = q /\ c[<<p, j>>] = 1
    BY <1>6 DEF Sound
  <2>2. \A j \in Id, p \in Observer :
          c[<<p, j>>] > 0 /\ s[j] # None => Complete(s, j) /\ s[j].passed
    BY <1>6, <1>9 DEF Sound
  <2>3. ASSUME "offline" \notin Fault, NEW j \in Id, s[j] # None, s[j].passed
        PROVE  \E p \in Observer : c[<<p, j>>] > 0
    <3>1. j # i
      BY <1>5, <2>3
    <3>2. PICK p \in Observer : copies[<<p, j>>] > 0
      BY <1>3, <2>3, <3>1 DEF Sound
    <3> QED  BY <1>6, <3>1, <3>2
  <2>4. \A j, k \in Id : j[1] = k[1] /\ Open(s, j) /\ Open(s, k) => j = k
    BY <1>9 DEF Sound, Open
  <2> QED  BY <1>4, <1>7, <2>1, <2>2, <2>3, <2>4 DEF Sound
<1>11. \A j \in Id : store[j] = None \/ Complete(store, j) => s[j] = None \/ Complete(s, j)
  BY <1>3, <1>9
<1>12. \A p \in Observer, j \in Id : copies[<<p, j>>] = 0 => c[<<p, j>>] = 0
  BY <1>6
<1>13. ASSUME NEW seg \in Segment, Kept(store, done, expired, seg)
       PROVE  Kept(s, d, expired, seg)
  <2>1. \A j \in {seg[1]} \X Stamp : j \in Id /\ j[1] = seg[1]
    BY DEF Segment, Id
  <2> QED  BY <1>3, <1>13, <2>1 DEF Kept
<1> QED  BY <1>1, <1>8, <1>10, <1>11, <1>12, <1>13, ReadStep

\* A socket that is shut down gives all its copies up, and their entries are not
\* marked any more.
LEMMA ShutdownStep ==
  ASSUME ReceiveInv, NEW o \in Observer, Shutdown(o) PROVE ReceiveInv'
<1> USE DEF ReceiveInv
<1> DEFINE mine == {i \in Id : power # "off" /\ copies[<<o, i>>] > 0 /\ store[i] # None}
<1>1. /\ bound' = bound \ {o} /\ (power = "off" => "offline" \in Fault)
      /\ store' = [i \in Id |-> IF i \in mine THEN [store[i] EXCEPT !.passed = FALSE]
                                ELSE store[i]]
      /\ copies' = [x \in Observer \X Id |-> IF x[1] = o THEN 0 ELSE copies[x]]
      /\ UNCHANGED <<phone, power, booting, reader, disk, done, expired>>
  BY DEF Shutdown
<1>2. /\ store \in [Id -> Entry \cup {None}] /\ copies \in [Observer \X Id -> Nat]
      /\ \A i \in Id, p \in Observer : copies[<<p, i>>] \in Nat
  BY DEF Sound
<1>3. ASSUME NEW i \in mine
      PROVE  /\ store'[i] \in Entry /\ store'[i] # None /\ store'[i].parts = store[i].parts
             /\ ~store'[i].passed
  <2>1. store[i] \in Entry /\ store'[i] = [store[i] EXCEPT !.passed = FALSE]
    BY <1>1, <1>2
  <2>2. store'[i] \in Entry
    BY <2>1 DEF Entry
  <2> QED  BY <2>1, <2>2, NoneAssumption DEF Entry
<1>4. \A i \in Id \ mine : store'[i] = store[i]
  BY <1>1
<1>5. \A i \in Id, p \in Observer :
        copies'[<<p, i>>] = IF p = o THEN 0 ELSE copies[<<p, i>>]
  BY <1>1
<1>6. store' \in [Id -> Entry \cup {None}] /\ copies' \in [Observer \X Id -> Nat]
  <2>1. \A i \in Id : store'[i] \in Entry \cup {None}
    BY <1>2, <1>3, <1>4
  <2> QED  BY <1>1, <1>2, <2>1
<1>7. \A i \in mine : /\ i \in Id /\ store[i] # None
                      /\ \A p \in Observer \ {o} : copies'[<<p, i>>] = 0
  <2> TAKE i \in mine
  <2>1. \A p \in Observer \ {o} : ~(copies[<<p, i>>] > 0)
    BY DEF Sound
  <2> QED  BY <1>2, <1>5, <2>1
<1>8. \A i \in Id : i \notin mine /\ store[i] # None /\ power # "off" => copies[<<o, i>>] = 0
  BY <1>2
<1> HIDE DEF mine
<1>9. \A i \in Id : /\ store'[i] = None <=> store[i] = None
                    /\ Complete(store', i) <=> Complete(store, i)
                    /\ Open(store', i) <=> Open(store, i)
  BY <1>3, <1>4, <1>7 DEF Complete, Open
<1>10. Sound(store, copies)'
  <2>1. \A i \in Id, p \in Observer, q \in Observer :
          copies'[<<p, i>>] > 0 /\ copies'[<<q, i>>] > 0 => p = q /\ copies'[<<p, i>>] = 1
    BY <1>5 DEF Sound
  <2>2. \A i \in Id, p \in Observer :
          copies'[<<p, i>>] > 0 /\ store'[i] # None => Complete(store', i) /\ store'[i].passed
    BY <1>4, <1>5, <1>7, <1>9 DEF Sound
  <2>3. ASSUME "offline" \notin Fault, NEW i \in Id, store'[i] # None, store'[i].passed
        PROVE  \E p \in Observer : copies'[<<p, i>>] > 0
    <3>1. i \notin mine /\ store[i] # None /\ store[i].passed
      BY <1>3, <1>4, <1>9, <2>3
    <3>2. PICK p \in Observer : copies[<<p, i>>] > 0
      BY <2>3, <3>1 DEF Sound
    <3>3. p # o
      BY <1>1, <1>8, <2>3, <3>1, <3>2
    <3> QED  BY <1>5, <3>2, <3>3
  <2>4. \A i, j \in Id : i[1] = j[1] /\ Open(store', i) /\ Open(store', j) => i = j
    BY <1>9 DEF Sound
  <2> QED  BY <1>6, <2>1, <2>2, <2>3, <2>4 DEF Sound
<1>11. Typed'
  BY <1>1 DEF Typed, phone, reader, disk
<1>12. ASSUME NEW seg \in Segment, Kept(store, done, expired, seg)
       PROVE  Kept(store', done', expired', seg)
  <2>1. \A j \in {seg[1]} \X Stamp : j \in Id
    BY DEF Segment, Id
  <2> QED  BY <1>1, <1>3, <1>4, <1>9, <1>12, <2>1 DEF Kept
<1>13. PduSound'
  <2>1. pdu # None => pdu.seg \in Segment /\ (pdu.id = None \/ pdu.id \in Id)
    BY DEF Typed, Processor
  <2>2. \A i \in Id, p \in Observer : copies[<<p, i>>] = 0 => copies'[<<p, i>>] = 0
    BY <1>5
  <2> QED  BY <1>1, <1>9, <1>12, <2>1, <2>2 DEF PduSound, reader
<1>14. Safe'
  BY <1>1, <1>12 DEF Safe, phone
<1> QED  BY <1>10, <1>11, <1>13, <1>14

LEMMA ClientStep ==
  ASSUME ReceiveInv, BootTimer \/ \E o \in Observer : Bind(o) PROVE ReceiveInv'
<1> USE DEF ReceiveInv
<1>1. done \in SUBSET Msg /\ {} \in SUBSET Id /\ expired \subseteq Msg
  BY DEF Typed
<1>2. CASE BootTimer
  <2>1. booting' \in BOOLEAN /\ MessageReadedSuccessfully(store, copies, done)
    BY <1>2 DEF BootTimer
  <2> QED  BY <1>1, <2>1, ReadStep
<1>3. ASSUME NEW o \in Observer, Bind(o) PROVE ReceiveInv'
  <2>1. /\ bound' \subseteq Observer /\ UNCHANGED <<phone, power, booting, reader, disk>>
        /\ UNCHANGED mail \/ ProcessComplete(store, copies, done, {})
    BY <1>3 DEF Bind, Typed
  <2>2. CASE UNCHANGED mail
    <3>1. Typed'
      BY <2>1, <2>2 DEF Typed, phone, reader, disk, mail
    <3> QED  BY <2>1, <2>2, <3>1, QuietStep DEF PduSound, phone, reader
  <2>3. CASE ProcessComplete(store, copies, done, {})
    <3>1. done' \subseteq Msg /\ expired' \subseteq Msg
      BY <1>1, <2>3, ProcessCompleteStep
    <3>2. Typed'
      BY <2>1, <3>1 DEF Typed, phone, reader, disk
    <3>3. net' = net /\ pdu' = pdu /\ st' = st
      BY <2>1 DEF phone, reader
    <3> QED  BY <1>1, <2>3, <3>2, <3>3, HandingStep
  <2> QED  BY <2>1, <2>2, <2>3
<1> QED  BY <1>2, <1>3

LEMMA DiskStep ==
  ASSUME ReceiveInv,
         DiskSpaceFreed \/ DiskNotifyFailed \/ DiskResumeDone \/ UNCHANGED vars
  PROVE  ReceiveInv'
<1>1. /\ UNCHANGED <<net, protocol, reader, mail>> /\ held' \in BOOLEAN
      /\ monitor' \in {"Idle", "Monitor", "Resume"} /\ nackd' \in BOOLEAN
  BY DEF DiskSpaceFreed, DiskNotifyFailed, DiskResumeDone, Watch!SpaceFreed,
         Watch!NotifyFailed, Watch!ResumeDone, ReceiveInv, Typed, vars, phone, disk
<1>2. Typed'
  BY <1>1 DEF ReceiveInv, Typed, protocol, reader, mail
<1> QED  BY <1>1, <1>2, QuietStep DEF reader, ReceiveInv, PduSound

-----------------------------------------------------------------------------
LEMMA ReceiveInit == Init => ReceiveInv
<1> SUFFICES ASSUME Init PROVE ReceiveInv
  OBVIOUS
<1>1. /\ net = Segment /\ held = FALSE /\ power = "off" /\ booting = TRUE /\ bound = {}
      /\ copies = [x \in Observer \X Id |-> 0] /\ store = [i \in Id |-> None]
      /\ st = "Idle" /\ pdu = None /\ suspended = FALSE /\ delayed = FALSE
      /\ monitor = "Idle" /\ nackd = FALSE /\ done = {} /\ expired = {}
  BY DEF Init
<1>2. Sound(store, copies)
  BY <1>1 DEF Sound, Open
<1>3. Typed
  BY <1>1 DEF Typed, State
<1> QED  BY <1>1, <1>2, <1>3 DEF ReceiveInv, PduSound, Safe

LEMMA ReceiveNext == ReceiveInv /\ [Next]_vars => ReceiveInv'
<1> SUFFICES ASSUME ReceiveInv, [Next]_vars PROVE ReceiveInv'
  OBVIOUS
<1>1. CASE Answers
  BY <1>1, ReaderStep, LogStep, PowerStep DEF Answers
<1>2. CASE Delivers \/ Refuses
  BY <1>2, DeliveryStep DEF Delivers, Refuses
<1>3. CASE Starts
  BY <1>3, PowerStep DEF Starts
<1>4. CASE Reads
  BY <1>4, ConfirmStep DEF Reads
<1>5. CASE AckTimeout \/ ReceiveFailed \/ PowerDown \/ Crash \/ BootTimer
  BY <1>5, ReaderStep, PowerStep, ClientStep
<1>6. CASE \E o \in Observer : Bind(o) \/ Shutdown(o)
  BY <1>6, ClientStep, ShutdownStep
<1>7. CASE DiskSpaceFreed \/ DiskNotifyFailed \/ DiskResumeDone \/ UNCHANGED vars
  BY <1>7, DiskStep
<1> QED  BY <1>1, <1>2, <1>3, <1>4, <1>5, <1>6, <1>7 DEF Next

\* The invariant holds in every reachable state.
LEMMA ReceiveInvariant == Spec => []ReceiveInv
<1> QED  BY ReceiveInit, ReceiveNext, PTL DEF Spec

\* The type invariant of CSmsPDURead, CSmsProtocol and the reassembly store.
THEOREM ReceiveTypeCorrect == Spec => []TypeOK
<1>1. ReceiveInv => TypeOK
  BY DEF ReceiveInv, Typed, Sound, TypeOK
<1> QED  BY <1>1, ReceiveInvariant, PTL

\* ProcessMessageL and ProcessCompleteSmsMessagesL: an entry of the store is in the
\* hands of one client at most, and once, whatever goes wrong.
THEOREM NeverHandedTwice == Spec => []HandedOnce
<1>1. ReceiveInv => HandedOnce
  BY DEF ReceiveInv, Sound, HandedOnce
<1> QED  BY <1>1, ReceiveInvariant, PTL

\* iPassedToClient is set exactly while a socket holds the message, if no client
\* reads or closes while the modem is off.
THEOREM PassedMeansHeld == ASSUME "offline" \notin Fault PROVE Spec => []PassedIffHeld
<1>1. ReceiveInv => PassedIffHeld
  BY DEF ReceiveInv, Sound, PassedIffHeld
<1> QED  BY <1>1, ReceiveInvariant, PTL

\* MatchPDUToExistingMessage: the PDUs of a message come together in one entry.
THEOREM OneEntryPerMessage == Spec => []OneOpenEntry
<1>1. ReceiveInv => OneOpenEntry
  BY DEF ReceiveInv, Sound, OneOpenEntry, Open, Match, Id
<1> QED  BY <1>1, ReceiveInvariant, PTL

\* ProcessPDUL before SendDeliverReport: what the network has a positive answer for
\* survives any restart, refusal, time-out and purge.
THEOREM NothingAnsweredIsLost == Spec => []NoLoss
<1>1. ReceiveInv => NoLoss
  BY DEF ReceiveInv, Safe, Kept, NoLoss
<1> QED  BY <1>1, ReceiveInvariant, PTL
-----------------------------------------------------------------------------
\* Reception goes on: what the steps leave of the complete messages.

\* Of the messages that are handed on, those whose observer confirms them.
Confirmable(ids) == {i \in ids : Target(i[1]) \in Confirming}

\* ProcessMessageL takes an entry out of the store only if it is purged or the
\* WAP protocol has taken it.
LEMMA ProcessLeaves ==
  ASSUME NEW s \in [Id -> Entry \cup {None}], NEW c, NEW d, NEW ids \in SUBSET Id,
         NEW gone \in SUBSET Id, ProcessMessages(ids, s, c, d, gone)
  PROVE  LET kept == Confirmable(ids)
             off == gone \cup (ids \ kept)
         IN /\ \A i \in Id : store'[i] = None <=> s[i] = None \/ i \in off
            /\ \A i \in Id : Complete(store', i) <=> Complete(s, i) /\ i \notin off
<1> DEFINE kept == Confirmable(ids)
           off == gone \cup (ids \ kept)
<1>1. store' = [i \in Id |-> IF i \in off THEN None
                             ELSE IF i \in kept /\ s[i] # None
                                  THEN [s[i] EXCEPT !.passed = TRUE] ELSE s[i]]
  BY DEF ProcessMessages, Confirmable
<1> HIDE DEF kept, off
<1>2. ASSUME NEW i \in Id
      PROVE  /\ store'[i] = None <=> s[i] = None \/ i \in off
             /\ Complete(store', i) <=> Complete(s, i) /\ i \notin off
  <2>1. CASE i \in off
    BY <1>1, <2>1 DEF Complete
  <2>2. CASE i \notin off /\ i \in kept /\ s[i] # None
    <3>1. s[i] \in Entry /\ store'[i] = [s[i] EXCEPT !.passed = TRUE]
      BY <1>1, <2>2
    <3>2. store'[i] \in Entry /\ store'[i].parts = s[i].parts
      BY <3>1 DEF Entry
    <3>3. store'[i] # None
      BY <3>2, NoneAssumption DEF Entry
    <3> QED  BY <2>2, <3>2, <3>3 DEF Complete
  <2>3. CASE i \notin off /\ ~(i \in kept /\ s[i] # None)
    <3>1. store'[i] = s[i]
      BY <1>1, <2>3
    <3> QED  BY <2>3, <3>1 DEF Complete
  <2> QED  BY <2>1, <2>2, <2>3
<1> QED  BY <1>2 DEF kept, off

\* Whoever takes a message is an observer.
LEMMA TakenByObservers ==
  ASSUME NEW ids \in SUBSET Id, NEW taken, Taken(ids, taken)
  PROVE  taken \in SUBSET ids /\ \A i \in taken : Target(i[1]) \in Observer
<1>1. taken \subseteq {i \in ids : Target(i[1]) # None}
  BY DEF Taken
<1>2. ASSUME NEW i \in taken PROVE Target(i[1]) \in Observer
  <2>1. i[1] \in Msg /\ Target(i[1]) # None
    BY <1>1 DEF Id
  <2>2. Target(i[1]) = PortOf[i[1]] \/ Target(i[1]) = RecvAny
    BY <2>1 DEF Target, TargetOf
  <2> QED  BY <2>1, <2>2, MessageAssumption
<1> QED  BY <1>1, <1>2

\* Every client confirms what it reads, and nothing goes wrong after which the
\* code does not resume reception: it leaves the reader idle when the TSY refuses
\* its receive mode or has no receiving, does not repeat a refused resumption, has no
\* memory monitor, and gives the disk monitor up when the file server refuses the
\* notification.
Resumable ==
  /\ Confirming = Observer
  /\ Fault \cap {"mode_error", "not_supported", "resume_error", "no_memory",
                "notify_error"} = {}

LEMMA NothingTakenAway ==
  ASSUME Resumable, NEW s \in [Id -> Entry \cup {None}], NEW c, NEW d, NEW ids \in SUBSET Id,
         NEW taken, Taken(ids, taken), ProcessMessages(taken, s, c, d, {})
  PROVE  \A i \in Id : Complete(store', i) <=> Complete(s, i)
<1>1. taken \in SUBSET Id /\ \A i \in taken : Target(i[1]) \in Confirming
  BY TakenByObservers DEF Resumable
<1>2. {} \in SUBSET Id
  OBVIOUS
<1> DEFINE off == {} \cup (taken \ Confirmable(taken))
<1>3. off = {}
  BY <1>1 DEF Confirmable
<1> HIDE DEF off
<1>4. \A i \in Id : Complete(store', i) <=> Complete(s, i) /\ i \notin off
  BY <1>1, <1>2, ProcessLeaves DEF off
<1> QED  BY <1>3, <1>4

LEMMA SameFullness ==
  ASSUME NEW s, NEW t, \A i \in Id : Complete(t, i) <=> Complete(s, i)
  PROVE  IsFull(t) = IsFull(s)
<1>1. {i \in Id : Complete(t, i)} = {i \in Id : Complete(s, i)}
  OBVIOUS
<1> QED  BY <1>1 DEF IsFull

\* A TSY that holds messages back will be told to go on, by the reader or by the
\* disk monitor.
ToBeTold == \/ delayed \/ st \in {"SetReceiveMode", "Resume"}
            \/ monitor = "Monitor" \/ (monitor = "Resume" /\ nackd)

\* While messages are read in a powered phone: the reader is idle only because the
\* store is full, and reception is suspended only until there is room.
GoingOn ==
  /\ power \in {"off", "init"} => st = "Idle"
  /\ power = "on" /\ st = "Idle" => IsFull(store)
  /\ power \in {"ready", "on"} /\ st # "Idle" /\ held
       => ToBeTold \/ (suspended /\ IsFull(store))

GoingInv == ReceiveInv /\ GoingOn

\* Steps that leave the phone's power, the disk monitor and how full the store is.
LEMMA CompletedGoesOn ==
  ASSUME GoingInv, Done, st # "Idle", st \notin {"SetReceiveMode", "Resume"},
         held' = held \/ ~held', UNCHANGED <<power, disk>>, IsFull(store') = IsFull(store)
  PROVE  GoingOn'
<1>1. /\ power \in {"ready", "on"}
      /\ power' = power /\ monitor' = monitor /\ nackd' = nackd
      /\ power \in {"off", "init", "ready", "on"}
  BY DEF GoingInv, GoingOn, ReceiveInv, Typed, disk
<1>2. CASE IsFull(store')
  BY <1>1, <1>2 DEF GoingInv, GoingOn, Done
<1>3. CASE ~IsFull(store')
  <2>1. \/ st' = "Resume"
        \/ ~delayed /\ st' = "Waiting" /\ UNCHANGED <<suspended, delayed>>
    BY <1>3 DEF Done, Receive, Resume
  <2> QED  BY <1>1, <1>3, <2>1 DEF GoingInv, GoingOn, ToBeTold
<1> QED  BY <1>2, <1>3

LEMMA ReaderGoesOn ==
  ASSUME Resumable, GoingInv,
         \/ SetReceiveModeDone \/ ResumeDone \/ AckDone \/ LogDone \/ DiscardDone \/ OOMNackDone
         \/ OOMTimer \/ ReceiveFailed \/ AckTimeout \/ CompleteAgain
  PROVE  GoingOn'
<1> USE DEF GoingInv
<1>0. /\ "mode_error" \notin Fault /\ "resume_error" \notin Fault
      /\ "no_memory" \notin Fault /\ "notify_error" \notin Fault
      /\ "not_supported" \notin Fault
  BY DEF Resumable
<1>1. CASE SetReceiveModeDone
  BY <1>0, <1>1 DEF SetReceiveModeDone, Resume, GoingOn, ToBeTold, protocol
<1>2. CASE ResumeDone
  BY <1>0, <1>2 DEF ResumeDone, Receive, Resume, GoingOn, ToBeTold, protocol
<1>3. CASE AckDone
  BY <1>3 DEF AckDone, GoingOn, ToBeTold, protocol, disk, mail
<1>4. CASE LogDone
  <2>1. /\ st = "Logging" /\ UNCHANGED <<phone, protocol, disk>> /\ Done
        /\ \/ \E taken \in SUBSET {pdu.id} :
                /\ Taken(IF pdu.complete THEN {pdu.id} ELSE {}, taken)
                /\ ProcessMessages(taken, store, copies, done, {})
           \/ UNCHANGED mail
    BY <1>4 DEF LogDone
  <2>2. \A i \in Id : Complete(store', i) <=> Complete(store, i)
    <3>1. CASE UNCHANGED mail
      BY <3>1 DEF mail
    <3>2. ASSUME NEW taken \in SUBSET {pdu.id},
                 Taken(IF pdu.complete THEN {pdu.id} ELSE {}, taken),
                 ProcessMessages(taken, store, copies, done, {})
          PROVE  \A i \in Id : Complete(store', i) <=> Complete(store, i)
      <4> DEFINE ids == IF pdu.complete THEN {pdu.id} ELSE {}
      <4>1. ids \in SUBSET Id
        BY <2>1 DEF ReceiveInv, PduSound, Typed, Processor
      <4>2. store \in [Id -> Entry \cup {None}] /\ Taken(ids, taken)
        BY <3>2 DEF ReceiveInv, Sound
      <4> HIDE DEF ids
      <4> QED  BY <3>2, <4>1, <4>2, NothingTakenAway
    <3> QED  BY <2>1, <3>1, <3>2
  <2>3. IsFull(store') = IsFull(store)
    BY <2>2, SameFullness
  <2> QED  BY <2>1, <2>3, CompletedGoesOn DEF phone, protocol
<1>5. CASE DiscardDone
  <2>1. st \in {"Absorb", "InvalidNack"} /\ UNCHANGED <<held, power, disk, store>> /\ Done
    BY <1>5 DEF DiscardDone, protocol, mail
  <2> QED  BY <2>1, CompletedGoesOn
<1>6. CASE OOMNackDone
  <2>1. /\ st = "OOMNack" /\ UNCHANGED <<held, power, disk, store>>
        /\ Done \/ (st' = "WaitTimer" /\ UNCHANGED <<suspended, delayed>>)
    BY <1>6 DEF OOMNackDone, phone, protocol, mail
  <2>2. CASE Done
    BY <2>1, <2>2, CompletedGoesOn
  <2>3. CASE st' = "WaitTimer" /\ UNCHANGED <<suspended, delayed>>
    BY <2>1, <2>3 DEF GoingOn, ToBeTold, disk
  <2> QED  BY <2>1, <2>2, <2>3
<1>7. CASE OOMTimer
  <2>1. /\ st = "WaitTimer" /\ UNCHANGED <<held, power, disk, store>>
        /\ \/ st' = "Resume"
           \/ st' = "Waiting" /\ ~delayed /\ UNCHANGED <<suspended, delayed>>
    BY <1>7 DEF OOMTimer, Receive, Resume, phone, protocol, mail
  <2> QED  BY <2>1 DEF GoingOn, ToBeTold, disk
<1>8. CASE ReceiveFailed
  <2>1. st = "Waiting" /\ UNCHANGED <<held, power, disk, store>> /\ Done
    BY <1>0, <1>8 DEF ReceiveFailed, phone, protocol, mail
  <2> QED  BY <2>1, CompletedGoesOn
<1>9. CASE AckTimeout
  BY <1>9 DEF AckTimeout, GoingOn, ToBeTold, protocol, disk, mail
<1>10. CASE CompleteAgain
  <2>1. \/ Restart
        \/ st = "OOMNack" /\ st' = "WaitTimer"
             /\ UNCHANGED <<held, power, suspended, delayed, disk, store>>
        \/ st \in Reporting /\ UNCHANGED <<held, power, disk, store>> /\ Done
    BY <1>10 DEF CompleteAgain, phone, protocol, mail
  <2>2. CASE Restart
    BY <2>2 DEF Restart, CutOff, GoingOn
  <2>3. CASE st = "OOMNack" /\ st' = "WaitTimer"
               /\ UNCHANGED <<held, power, suspended, delayed, disk, store>>
    BY <2>3 DEF GoingOn, ToBeTold, disk
  <2>4. CASE st \in Reporting /\ UNCHANGED <<held, power, disk, store>> /\ Done
    BY <2>4, CompletedGoesOn DEF Reporting
  <2> QED  BY <2>1, <2>2, <2>3, <2>4
<1> QED  BY <1>1, <1>2, <1>3, <1>4, <1>5, <1>6, <1>7, <1>8, <1>9, <1>10

LEMMA DeliveryGoesOn ==
  ASSUME Resumable, GoingInv, Delivers \/ Refuses PROVE GoingOn'
<1> USE DEF GoingInv
<1>1. "no_memory" \notin Fault
  BY DEF Resumable
\* A report that suspends reception does so because the store is full.
<1>2. ASSUME NEW state \in {"Accept", "Absorb", "InvalidNack"}, NEW seg, NEW i, NEW s,
             st = "Waiting", ~held, Report(state, seg, i, s), UNCHANGED disk
      PROVE  GoingOn'
  <2>1. /\ st' = state /\ store' = s /\ power' = power
        /\ held' => IsFull(s) /\ suspended'
    BY <1>2 DEF Report, protocol
  <2> QED  BY <1>2, <2>1 DEF GoingOn
<1>3. ASSUME NEW seg \in Segment, ReceivePDU(seg) \/ DiscardPDU(seg) PROVE GoingOn'
  <2>1. CASE ReceivePDU(seg)
    <3>1. PICK i \in Id : Report("Accept", seg, i, AddSegment(seg, i))
      BY <2>1 DEF ReceivePDU
    <3> QED  BY <1>2, <2>1, <3>1 DEF ReceivePDU
  <2>2. CASE DiscardPDU(seg)
    <3>1. PICK state \in {"Absorb", "InvalidNack"} : Report(state, seg, None, store)
      BY <2>2 DEF DiscardPDU
    <3> QED  BY <1>2, <2>2, <3>1 DEF DiscardPDU
  <2> QED  BY <1>3, <2>1, <2>2
<1>4. ASSUME NEW seg \in Segment, RefuseDiskFull(seg) PROVE GoingOn'
  <2>1. /\ st = "Waiting" /\ st' = "OOMNack" /\ UNCHANGED power
        /\ monitor' = (IF monitor = "Idle" THEN "Monitor" ELSE monitor) /\ nackd' = TRUE
    BY <1>4 DEF RefuseDiskFull, Report, Watch!Refused, protocol
  <2>2. monitor \in {"Idle", "Monitor", "Resume"}
    BY DEF ReceiveInv, Typed
  <2> QED  BY <2>1, <2>2 DEF GoingOn, ToBeTold
<1> QED  BY <1>1, <1>3, <1>4 DEF Delivers, Refuses, RefuseNoMemory

LEMMA PowerGoesOn ==
  ASSUME Resumable, GoingInv, Starts \/ PowerDown \/ Crash PROVE GoingOn'
<1> USE DEF GoingInv
<1>1. CASE PowerUp
  BY <1>1 DEF PowerUp, reader, GoingOn
<1>2. CASE PhoneInitialised
  BY <1>2 DEF PhoneInitialised, reader, GoingOn
<1>3. CASE StartReader
  <2>1. /\ power = "ready" /\ power' = "on"
        /\ st' = IF st = "Idle" /\ ~IsFull(store) THEN "SetReceiveMode" ELSE st
        /\ UNCHANGED <<held, store, suspended, delayed, disk>>
    BY <1>3 DEF StartReader, phone, mail
  <2> QED  BY <2>1 DEF GoingOn, ToBeTold, disk
<1>4. CASE PowerDown \/ Crash
  BY <1>4 DEF PowerDown, Crash, Restart, CutOff, GoingOn
<1> QED  BY <1>1, <1>2, <1>3, <1>4 DEF Starts

LEMMA ClientGoesOn ==
  ASSUME Resumable, GoingInv,
         Reads \/ BootTimer \/ \E o \in Observer : Bind(o) \/ Shutdown(o)
  PROVE  GoingOn'
<1> USE DEF GoingInv
\* Whatever a client has read, reception is resumed or going to be.
<1>1. ASSUME NEW s, NEW c, NEW d, MessageReadedSuccessfully(s, c, d) PROVE GoingOn'
  <2>1. /\ UNCHANGED <<held, power, disk>>
        /\ IF PoweredUp THEN ResumeSmsReception ELSE UNCHANGED <<st, suspended, delayed>>
    BY <1>1 DEF MessageReadedSuccessfully, phone
  <2>2. CASE PoweredUp /\ st = "Idle"
    BY <2>1, <2>2 DEF PoweredUp, ResumeSmsReception, Resume, GoingOn, ToBeTold
  <2>3. CASE PoweredUp /\ st # "Idle"
    BY <2>1, <2>3 DEF PoweredUp, ResumeSmsReception, GoingOn, ToBeTold, disk
  <2>4. CASE ~PoweredUp
    BY <2>1, <2>4 DEF PoweredUp, GoingOn
  <2> QED  BY <2>2, <2>3, <2>4
<1>2. CASE Reads \/ BootTimer
  BY <1>1, <1>2 DEF Reads, Confirm, BootTimer
<1>3. ASSUME NEW o \in Observer, Bind(o) PROVE GoingOn'
  <2>1. /\ UNCHANGED <<held, power, st, suspended, delayed, disk>>
        /\ UNCHANGED mail \/ ProcessComplete(store, copies, done, {})
    BY <1>3 DEF Bind, phone, reader
  <2>2. \A i \in Id : Complete(store', i) <=> Complete(store, i)
    <3>1. CASE UNCHANGED mail
      BY <3>1 DEF mail
    <3>2. CASE ProcessComplete(store, copies, done, {})
      <4>1. PICK taken \in SUBSET Unpassed(store) :
              Taken(Unpassed(store), taken) /\ ProcessMessages(taken, store, copies, done, {})
        BY <3>2 DEF ProcessComplete
      <4>2. Unpassed(store) \in SUBSET Id /\ store \in [Id -> Entry \cup {None}]
        BY DEF Unpassed, ReceiveInv, Sound
      <4> QED  BY <4>1, <4>2, NothingTakenAway
    <3> QED  BY <2>1, <3>1, <3>2
  <2>3. IsFull(store') = IsFull(store)
    BY <2>2, SameFullness
  <2> QED  BY <2>1, <2>3 DEF GoingOn, ToBeTold, disk
<1>4. ASSUME NEW o \in Observer, Shutdown(o) PROVE GoingOn'
  <2>1. /\ UNCHANGED <<held, power, st, suspended, delayed, disk>>
        /\ store' = [i \in Id |-> IF power # "off" /\ copies[<<o, i>>] > 0 /\ store[i] # None
                                  THEN [store[i] EXCEPT !.passed = FALSE] ELSE store[i]]
    BY <1>4 DEF Shutdown, phone, reader
  <2>2. \A i \in Id : Complete(store', i) <=> Complete(store, i)
    <3> TAKE i \in Id
    <3>1. CASE store'[i] = store[i]
      BY <3>1 DEF Complete
    <3>2. CASE store[i] # None /\ store'[i] = [store[i] EXCEPT !.passed = FALSE]
      <4>1. store[i] \in Entry
        BY <3>2 DEF ReceiveInv, Sound
      <4>2. store'[i] \in Entry /\ store'[i].parts = store[i].parts
        BY <3>2, <4>1 DEF Entry
      <4>3. store'[i] # None
        BY <4>2, NoneAssumption DEF Entry
      <4> QED  BY <3>2, <4>2, <4>3 DEF Complete
    <3> QED  BY <2>1, <3>1, <3>2
  <2>3. IsFull(store') = IsFull(store)
    BY <2>2, SameFullness
  <2> QED  BY <2>1, <2>3 DEF GoingOn, ToBeTold, disk
<1> QED  BY <1>2, <1>3, <1>4

LEMMA DiskGoesOn ==
  ASSUME Resumable, GoingInv,
         DiskSpaceFreed \/ DiskNotifyFailed \/ DiskResumeDone \/ UNCHANGED vars
  PROVE  GoingOn'
<1> USE DEF GoingInv
<1>1. "resume_error" \notin Fault /\ "notify_error" \notin Fault
  BY DEF Resumable
<1>2. CASE DiskSpaceFreed
  BY <1>1, <1>2 DEF DiskSpaceFreed, Watch!SpaceFreed, GoingOn, protocol, reader, mail
<1>3. CASE DiskResumeDone
  BY <1>3 DEF DiskResumeDone, Watch!ResumeDone, GoingOn, ToBeTold, protocol, reader, mail
<1>4. CASE UNCHANGED vars
  BY <1>4 DEF vars, phone, protocol, reader, disk, mail, GoingOn, ToBeTold
<1> QED  BY <1>1, <1>2, <1>3, <1>4 DEF DiskNotifyFailed, Watch!NotifyFailed

LEMMA GoingNext == ASSUME Resumable PROVE GoingInv /\ [Next]_vars => GoingInv'
<1> SUFFICES ASSUME GoingInv, [Next]_vars PROVE GoingInv'
  OBVIOUS
<1>1. ReceiveInv'
  BY ReceiveNext DEF GoingInv
<1>2. CASE Answers \/ AckTimeout \/ ReceiveFailed
  BY <1>1, <1>2, ReaderGoesOn DEF Answers, GoingInv
<1>3. CASE Delivers \/ Refuses
  BY <1>1, <1>3, DeliveryGoesOn DEF GoingInv
<1>4. CASE Starts \/ PowerDown \/ Crash
  BY <1>1, <1>4, PowerGoesOn DEF GoingInv
<1>5. CASE Reads \/ BootTimer \/ \E o \in Observer : Bind(o) \/ Shutdown(o)
  BY <1>1, <1>5, ClientGoesOn DEF GoingInv
<1>6. CASE DiskSpaceFreed \/ DiskNotifyFailed \/ DiskResumeDone \/ UNCHANGED vars
  BY <1>1, <1>6, DiskGoesOn DEF GoingInv
<1> QED  BY <1>2, <1>3, <1>4, <1>5, <1>6 DEF Next

\* Complete, Start and ResumeSmsReception: once the phone is up and there is room
\* in the store the reader is at work, and a TSY that holds messages back is going
\* to be told to go on, through every crash, power down and time-out.
THEOREM ReceptionAlwaysGoesOn == ASSUME Resumable PROVE Spec => []ReceptionGoesOn
<1>1. Init => GoingInv
  <2>1. Init => GoingOn
    BY DEF Init, GoingOn
  <2> QED  BY <2>1, ReceiveInit DEF GoingInv
<1>2. GoingInv /\ [Next]_vars => GoingInv'
  BY GoingNext
<1>3. GoingInv => ReceptionGoesOn
  BY DEF GoingInv, GoingOn, ToBeTold, ReceptionGoesOn
<1> QED  BY <1>1, <1>2, <1>3, PTL DEF Spec
-----------------------------------------------------------------------------
\* The limit of the store.

CompleteOnes(s) == {i \in Id : Complete(s, i)}

\* The reader may have one complete message more than when it waits for the next PDU:
\* one it has just accepted, or one it has stored and refused, after which it waits
\* without asking whether the store is full, but the TSY has been told to hold back.
Later == {"Idle", "Accept", "Logging"}
Shut == /\ "no_memory" \in Fault /\ st \in {"OOMNack", "WaitTimer", "Waiting"}
        /\ held /\ ~suspended /\ ~delayed
Late == st \in Later \/ Shut
Limit(boot, late) ==
  MaxComplete + (IF boot THEN 0 ELSE 1) + (IF late THEN 1 ELSE 0)

Bounded ==
  /\ IsFiniteSet(CompleteOnes(store))
  /\ Cardinality(CompleteOnes(store)) <= Limit(booting, Late)

\* Nobody but the reader tells the TSY to go on, and it has not been asked to.
HeldBack ==
  "no_memory" \in Fault =>
    /\ monitor = "Idle" /\ (suspended => held) /\ (delayed => suspended)
    /\ st = "Resume" => ~suspended

\* A message that a client holds, or that the reader works on, is in the store.
Present ==
  /\ \A i \in Id, o \in Observer : copies[<<o, i>>] > 0 => store[i] # None
  /\ pdu # None /\ pdu.complete => store[pdu.id] # None
  /\ st \in Reporting => pdu # None

StoreInv == ReceiveInv /\ Bounded /\ Present /\ HeldBack

\* No restart starts the boot timer anew, and no purge leaves a client with a message
\* to confirm that is not stored any more: each of these resumes reception once more
\* into a full store.  And the disk monitor does not tell the TSY to go on after a
\* PDU that was stored has been refused: the reader waits and does not ask whether
\* the store is full.
Orderly ==
  /\ Fault \cap {"crash", "ack_timeout", "purge"} = {}
  /\ "no_memory" \notin Fault \/ "disk_full" \notin Fault

LEMMA FewerComplete ==
  ASSUME Bounded, CompleteOnes(store') \subseteq CompleteOnes(store)
  PROVE  /\ IsFiniteSet(CompleteOnes(store')) /\ Cardinality(CompleteOnes(store')) \in Nat
         /\ Cardinality(CompleteOnes(store')) <= Cardinality(CompleteOnes(store))
         /\ Cardinality(CompleteOnes(store)) \in Nat
<1>1. IsFiniteSet(CompleteOnes(store))
  BY DEF Bounded
<1>2. CompleteOnes(store') \in SUBSET CompleteOnes(store)
  OBVIOUS
<1>3. /\ IsFiniteSet(CompleteOnes(store'))
      /\ Cardinality(CompleteOnes(store')) <= Cardinality(CompleteOnes(store))
  BY ONLY <1>1, <1>2, FS_Subset
<1> QED  BY <1>1, <1>3, FS_CardinalityType

\* A step that stores nothing, and lets the reader wait for a PDU only when it did
\* so before or there is room.
LEMMA StaysBounded ==
  ASSUME Bounded, CompleteOnes(store') \subseteq CompleteOnes(store), booting' = booting,
         Late => Late' \/ ~IsFull(store')
  PROVE  Bounded'
<1> DEFINE n == Cardinality(CompleteOnes(store))
           m == Cardinality(CompleteOnes(store'))
<1>1. IsFiniteSet(CompleteOnes(store')) /\ m \in Nat /\ n \in Nat /\ m <= n
  BY FewerComplete
<1>2. n <= Limit(booting, Late) /\ MaxComplete \in Nat
  BY BoundAssumption DEF Bounded
<1>3. ~IsFull(store') <=> ~(m > MaxComplete)
  BY DEF IsFull, CompleteOnes
<1> HIDE DEF n, m
<1>4. m <= Limit(booting, Late')
  BY <1>1, <1>2, <1>3 DEF Limit
<1> QED  BY <1>1, <1>4 DEF Bounded, m

LEMMA SameComplete ==
  ASSUME UNCHANGED store PROVE CompleteOnes(store') \subseteq CompleteOnes(store)
  BY DEF CompleteOnes

\* Messages that are handed on.
LEMMA HandedPresent ==
  ASSUME NEW s, NEW c, NEW d, NEW ids \in SUBSET Id, Sound(s, c),
         \A i \in Id, o \in Observer : c[<<o, i>>] > 0 => s[i] # None,
         \A i \in ids : s[i] # None /\ \A o \in Observer : c[<<o, i>>] = 0,
         ProcessMessages(ids, s, c, d, {})
  PROVE  /\ \A i \in Id, o \in Observer : copies'[<<o, i>>] > 0 => store'[i] # None
         /\ \A i \in Id \ ids : s[i] # None => store'[i] # None
         /\ CompleteOnes(store') \subseteq CompleteOnes(s)
<1> DEFINE kept == Confirmable(ids)
           off == {} \cup (ids \ kept)
<1>1. s \in [Id -> Entry \cup {None}] /\ {} \in SUBSET Id
  BY DEF Sound
<1>2. /\ \A i \in Id : store'[i] = None <=> s[i] = None \/ i \in off
      /\ \A i \in Id : Complete(store', i) <=> Complete(s, i) /\ i \notin off
      /\ \A i \in Id, o \in Observer : i \in kept \/ copies'[<<o, i>>] = c[<<o, i>>]
  <2>1. /\ s \in [Id -> Entry \cup {None}] /\ ids \in SUBSET Id /\ {} \in SUBSET Id
        /\ ProcessMessages(ids, s, c, d, {})
    BY <1>1
  <2>2. \A i \in Id : store'[i] = None <=> s[i] = None \/ i \in off
    BY ONLY <2>1, ProcessLeaves
  <2>3. \A i \in Id : Complete(store', i) <=> Complete(s, i) /\ i \notin off
    BY ONLY <2>1, ProcessLeaves
  <2>4. \A i \in Id, o \in Observer : i \in kept \/ copies'[<<o, i>>] = c[<<o, i>>]
    <3>1. copies' = [x \in Observer \X Id |->
                       IF x[2] \in kept /\ Target(x[2][1]) = x[1] THEN c[x] + 1 ELSE c[x]]
      BY DEF ProcessMessages, Confirmable
    <3> HIDE DEF kept
    <3> QED  BY <3>1
  <2> QED  BY <2>2, <2>3, <2>4
<1>3. kept \subseteq ids /\ off = ids \ kept
  BY DEF Confirmable
<1> HIDE DEF kept, off
<1>4. ASSUME NEW i \in Id, NEW o \in Observer, copies'[<<o, i>>] > 0 PROVE store'[i] # None
  <2>1. CASE i \in ids
    <3>1. c[<<o, i>>] = 0 /\ s[i] # None
      BY <2>1
    <3>2. i \in kept
      BY <1>2, <1>4, <3>1
    <3> QED  BY <1>2, <1>3, <3>1, <3>2
  <2>2. CASE i \notin ids
    <3>1. c[<<o, i>>] > 0
      BY <1>2, <1>3, <1>4, <2>2
    <3> QED  BY <1>2, <1>3, <2>2, <3>1
  <2> QED  BY <2>1, <2>2
<1>5. \A i \in Id \ ids : s[i] # None => store'[i] # None
  BY <1>2, <1>3
<1>6. CompleteOnes(store') \subseteq CompleteOnes(s)
  BY <1>2 DEF CompleteOnes
<1> QED  BY <1>4, <1>5, <1>6

LEMMA CompleteHanded ==
  ASSUME NEW s, NEW c, NEW d, Sound(s, c),
         \A i \in Id, o \in Observer : c[<<o, i>>] > 0 => s[i] # None,
         ProcessComplete(s, c, d, {})
  PROVE  /\ \A i \in Id, o \in Observer : copies'[<<o, i>>] > 0 => store'[i] # None
         /\ pdu # None /\ pdu.id \in Id /\ s[pdu.id] # None => store'[pdu.id] # None
         /\ CompleteOnes(store') \subseteq CompleteOnes(s)
<1> PICK ids \in SUBSET Unpassed(s) : ProcessMessages(ids, s, c, d, {})
  BY DEF ProcessComplete
<1>1. /\ ids \in SUBSET Id /\ (pdu # None => pdu.id \notin ids)
      /\ \A i \in ids : i \in Id /\ Complete(s, i) /\ ~s[i].passed
  BY DEF Unpassed
<1>2. ASSUME NEW i \in ids PROVE s[i] # None /\ \A o \in Observer : c[<<o, i>>] = 0
  <2>1. s[i] # None
    BY <1>1 DEF Complete
  <2>2. \A o \in Observer : c[<<o, i>>] \in Nat /\ ~(c[<<o, i>>] > 0)
    BY <1>1, <2>1 DEF Sound
  <2> QED  BY <2>1, <2>2
<1>3. /\ \A i \in Id, o \in Observer : copies'[<<o, i>>] > 0 => store'[i] # None
      /\ \A i \in Id \ ids : s[i] # None => store'[i] # None
      /\ CompleteOnes(store') \subseteq CompleteOnes(s)
  BY <1>1, <1>2, HandedPresent
<1> QED  BY <1>1, <1>3

\* Steps that hand on what waits in the store and are no concern of the reader.
LEMMA HandingBounded ==
  ASSUME StoreInv, ProcessComplete(store, copies, done, {}) \/ UNCHANGED mail,
         UNCHANGED <<booting, st, pdu>>, Late => Late'
  PROVE  Bounded' /\ Present'
<1> USE DEF StoreInv
<1>1. Sound(store, copies) /\ (pdu # None => pdu.id \in Id \cup {None})
      /\ (pdu # None /\ pdu.complete => pdu.id # None)
  BY DEF ReceiveInv, Typed, PduSound, Processor
<1>2. /\ CompleteOnes(store') \subseteq CompleteOnes(store)
      /\ \A i \in Id, o \in Observer : copies'[<<o, i>>] > 0 => store'[i] # None
      /\ pdu # None /\ pdu.complete => store'[pdu.id] # None
  <2>1. CASE ProcessComplete(store, copies, done, {})
    BY <1>1, <2>1, CompleteHanded DEF Present
  <2>2. CASE UNCHANGED mail
    BY <2>2, SameComplete DEF mail, Present
  <2> QED  BY <2>1, <2>2
<1>3. Present'
  BY <1>2 DEF Present
<1> QED  BY <1>2, <1>3, StaysBounded

\* Steps that leave store and buffers alone.
LEMMA ReaderBounded ==
  ASSUME StoreInv, UNCHANGED <<booting, mail>>, pdu' = None \/ pdu' = pdu,
         Late => Late' \/ ~IsFull(store'),
         st' \in Reporting => pdu' # None
  PROVE  Bounded' /\ Present'
<1>1. store' = store /\ copies' = copies
  BY DEF mail
<1>2. Present'
  BY <1>1 DEF StoreInv, Present
<1> QED  BY <1>1, <1>2, SameComplete, StaysBounded DEF StoreInv

LEMMA AnswersBounded ==
  ASSUME Orderly, StoreInv,
         \/ SetReceiveModeDone \/ ResumeDone \/ AckDone \/ DiscardDone \/ OOMNackDone
         \/ OOMTimer \/ ReceiveFailed \/ AckTimeout \/ CompleteAgain
  PROVE  Bounded' /\ Present'
<1>1. "ack_timeout" \notin Fault /\ ~CompleteAgain
  BY DEF Orderly, StoreInv, Present, CompleteAgain
<1>2. ASSUME Done PROVE /\ pdu' = None /\ st' \notin Reporting
                        /\ Late' \/ ~IsFull(store')
  BY <1>2 DEF Done, Receive, Resume, Later, Late, Reporting
<1>3. ASSUME Receive \/ Resume PROVE st' \notin Reporting
  BY <1>3 DEF Receive, Resume, Reporting
<1>4. CASE SetReceiveModeDone
  <2>1. ~Late
    BY <1>4 DEF SetReceiveModeDone, Late, Later, Shut
  <2> QED  BY <1>3, <1>4, <2>1, ReaderBounded DEF SetReceiveModeDone, Reporting, protocol
<1>5. CASE ResumeDone
  <2>1. ~Late
    BY <1>5 DEF ResumeDone, Late, Later, Shut
  <2> QED  BY <1>2, <1>3, <1>5, <2>1, ReaderBounded DEF ResumeDone, protocol
<1>6. CASE AckDone
  <2>1. Late'
    BY <1>6 DEF AckDone, Late, Later
  <2> QED  BY <1>6, <2>1, ReaderBounded DEF AckDone, Reporting, protocol
<1>7. CASE DiscardDone
  BY <1>2, <1>7, ReaderBounded DEF DiscardDone, protocol
<1>8. CASE OOMNackDone
  <2>1. CASE st' = "WaitTimer" /\ UNCHANGED <<pdu, suspended, delayed>>
    <3>1. Late => Late'
      BY <1>8, <2>1 DEF OOMNackDone, Late, Later, Shut, phone
    <3> QED  BY <1>8, <2>1, <3>1, ReaderBounded DEF OOMNackDone, Reporting, protocol
  <2>2. CASE Done
    BY <1>2, <1>8, <2>2, ReaderBounded DEF OOMNackDone, protocol
  <2> QED  BY <1>8, <2>1, <2>2 DEF OOMNackDone
<1>9. CASE OOMTimer
  <2>1. Late => Late'
    BY <1>9 DEF OOMTimer, Receive, Late, Later, Shut, phone
  <2> QED  BY <1>3, <1>9, <2>1, ReaderBounded DEF OOMTimer, protocol
<1>10. CASE ReceiveFailed
  <2>1. CASE Done
    BY <1>2, <1>10, <2>1, ReaderBounded DEF ReceiveFailed, protocol
  <2>2. CASE ~Done
    <3>1. pdu' = None /\ st' \notin Reporting /\ Late'
      BY <1>10, <2>2 DEF ReceiveFailed, Late, Later, Reporting
    <3> QED  BY <1>10, <3>1, ReaderBounded DEF ReceiveFailed, protocol
  <2> QED  BY <2>1, <2>2
<1> QED  BY <1>1, <1>4, <1>5, <1>6, <1>7, <1>8, <1>9, <1>10 DEF AckTimeout

LEMMA LogBounded ==
  ASSUME StoreInv, LogDone PROVE Bounded' /\ Present'
<1> USE DEF StoreInv
<1>1. /\ st = "Logging" /\ pdu # None /\ pdu' = None /\ booting' = booting
      /\ st' \notin Reporting /\ (Late' \/ ~IsFull(store'))
      /\ \/ \E taken \in SUBSET {pdu.id} :
              /\ Taken(IF pdu.complete THEN {pdu.id} ELSE {}, taken)
              /\ ProcessMessages(taken, store, copies, done, {})
         \/ UNCHANGED mail
  BY DEF LogDone, Done, Receive, Resume, Late, Later, Reporting, protocol, ReceiveInv, PduSound
<1>2. CASE UNCHANGED mail
  BY <1>1, <1>2, ReaderBounded
<1>3. ASSUME NEW taken \in SUBSET {pdu.id},
             Taken(IF pdu.complete THEN {pdu.id} ELSE {}, taken),
             ProcessMessages(taken, store, copies, done, {})
      PROVE  Bounded' /\ Present'
  <2> DEFINE ids == IF pdu.complete THEN {pdu.id} ELSE {}
  <2>1. ids \in SUBSET Id /\ Sound(store, copies)
    BY <1>1 DEF ReceiveInv, PduSound, Typed, Processor
  <2>2. taken \in SUBSET ids
    BY <1>3, <2>1, TakenByObservers
  <2>3. ASSUME NEW i \in taken
        PROVE  store[i] # None /\ \A o \in Observer : copies[<<o, i>>] = 0
    <3>1. i = pdu.id /\ pdu.complete /\ pdu.id # None
      BY <1>1, <2>2 DEF ReceiveInv, PduSound
    <3> QED  BY <1>1, <3>1 DEF Present, ReceiveInv, PduSound
  <2> HIDE DEF ids
  <2>4. taken \in SUBSET Id
    BY <2>1, <2>2
  <2>5. /\ \A i \in Id, o \in Observer : copies'[<<o, i>>] > 0 => store'[i] # None
        /\ CompleteOnes(store') \subseteq CompleteOnes(store)
    <3>1. \A i \in Id, o \in Observer : copies[<<o, i>>] > 0 => store[i] # None
      BY DEF Present
    <3> QED  BY <1>3, <2>1, <2>3, <2>4, <3>1, HandedPresent
  <2>6. Present'
    BY <1>1, <2>5 DEF Present
  <2> QED  BY <1>1, <2>5, <2>6, StaysBounded
<1> QED  BY <1>1, <1>2, <1>3

\* A PDU that is stored completes one message at most, be it accepted or refused.
LEMMA ReceiveBounded ==
  ASSUME StoreInv, NEW seg \in net \ Bad, NEW i \in Id, NEW state, Into(seg, i),
         st = "Waiting", ~held, state = "Accept" \/ (state = "OOMNack" /\ "no_memory" \in Fault),
         Report(state, seg, i, AddSegment(seg, i))
  PROVE  Bounded' /\ Present'
<1> USE DEF StoreInv
<1>1. ~Late
  BY DEF Late, Later, Shut
<1>2. Late'
  <2>1. CASE state = "Accept"
    BY <2>1 DEF Report, Late, Later
  <2>2. CASE state = "OOMNack" /\ "no_memory" \in Fault
    <3>1. ~suspended /\ ~delayed
      BY <2>2 DEF HeldBack
    <3>2. st' = "OOMNack" /\ held' /\ ~suspended' /\ ~delayed'
      BY <2>2, <3>1 DEF Report
    <3> QED  BY <2>2, <3>2 DEF Late, Shut
  <2> QED  BY <2>1, <2>2
<1>3. /\ store' = AddSegment(seg, i) /\ booting' = booting
      /\ copies' = copies
      /\ pdu' = [seg |-> seg, id |-> i, complete |-> i # None /\ Complete(store', i)]
  BY DEF Report, protocol
<1>4. /\ store'[i] # None
      /\ \A j \in Id \ {i} : store'[j] = store[j]
  <2>1. AddSegment(seg, i)[i] \in Entry
    BY AddStep
  <2>2. store \in [Id -> Entry \cup {None}]
    BY DEF ReceiveInv, Sound
  <2> QED  BY <1>3, <2>1, <2>2, NoneAssumption DEF AddSegment, Entry
<1>5. pdu' # None /\ pdu'.id = i
  <2>1. i # None
    BY NoneAssumption DEF Id
  <2>2. pdu' \in Processor
    <3>1. seg \in Segment
      BY DEF ReceiveInv, Typed
    <3> QED  BY <1>3, <3>1 DEF Processor
  <2> QED  BY <1>3, <2>2, ProcessorAssumption
<1>6. Present'
  BY <1>3, <1>4, <1>5 DEF Present
<1> DEFINE S == CompleteOnes(store)
           T == CompleteOnes(store')
<1>7. /\ IsFiniteSet(T) /\ Cardinality(T) \in Nat /\ Cardinality(S) \in Nat
      /\ Cardinality(T) <= Cardinality(S) + 1
  <2>1. T \in SUBSET (S \cup {i})
    BY <1>4 DEF CompleteOnes, Complete
  <2>2. IsFiniteSet(S)
    BY DEF Bounded
  <2> HIDE DEF S, T
  <2>3. /\ IsFiniteSet(S \cup {i}) /\ Cardinality(S) \in Nat
        /\ Cardinality(S \cup {i}) <= Cardinality(S) + 1
    <3>1. Cardinality(S) \in Nat
      BY ONLY <2>2, FS_CardinalityType
    <3>2. /\ IsFiniteSet(S \cup {i})
          /\ Cardinality(S \cup {i}) = IF i \in S THEN Cardinality(S) ELSE Cardinality(S) + 1
      BY ONLY <2>2, FS_AddElement
    <3> QED  BY ONLY <3>1, <3>2
  <2>4. IsFiniteSet(T) /\ Cardinality(T) <= Cardinality(S \cup {i})
    BY ONLY <2>1, <2>3, FS_Subset
  <2> QED  BY <2>3, <2>4, FS_CardinalityType
<1>8. Cardinality(S) <= Limit(booting, FALSE) /\ MaxComplete \in Nat
  BY <1>1, BoundAssumption DEF Bounded, Limit
<1> HIDE DEF S, T
<1>9. Cardinality(T) <= Limit(booting, TRUE)
  BY <1>7, <1>8 DEF Limit
<1>10. Bounded'
  BY <1>2, <1>3, <1>7, <1>9 DEF Bounded, T, Limit
<1> QED  BY <1>6, <1>10

LEMMA DeliveryBounded ==
  ASSUME Orderly, StoreInv, Delivers \/ Refuses PROVE Bounded' /\ Present'
<1>1. ASSUME NEW seg \in Segment, NEW state \in {"Absorb", "InvalidNack", "OOMNack"},
             st = "Waiting", ~held, Report(state, seg, None, store)
      PROVE  Bounded' /\ Present'
  <2>1. /\ UNCHANGED <<store, copies, booting>> /\ st' = state
        /\ pdu' = [seg |-> seg, id |-> None, complete |-> FALSE]
    BY <1>1 DEF Report, protocol
  <2>2. Present'
    <3>1. ~pdu'.complete
      BY <2>1
    <3>2. pdu' # None
      <4>1. pdu' \in Processor
        BY <2>1 DEF Processor
      <4> QED  BY <4>1, ProcessorAssumption
    <3> QED  BY <2>1, <3>1, <3>2 DEF StoreInv, Present
  <2>3. ~Late
    BY <1>1 DEF Late, Later, Shut
  <2> QED  BY <2>1, <2>2, <2>3, SameComplete, StaysBounded DEF StoreInv
<1>2. ASSUME NEW seg \in Segment, DiscardPDU(seg) \/ RefuseDiskFull(seg)
      PROVE  Bounded' /\ Present'
  BY <1>1, <1>2 DEF DiscardPDU, RefuseDiskFull
<1>3. ASSUME NEW seg \in Segment, ReceivePDU(seg) PROVE Bounded' /\ Present'
  <2>1. PICK i \in Id : Into(seg, i) /\ Report("Accept", seg, i, AddSegment(seg, i))
    BY <1>3 DEF ReceivePDU
  <2> QED  BY <1>3, <2>1, ReceiveBounded DEF ReceivePDU
<1>4. ASSUME NEW seg \in Segment, RefuseNoMemory(seg) PROVE Bounded' /\ Present'
  <2>1. CASE Report("OOMNack", seg, None, store)
    BY <1>1, <1>4, <2>1 DEF RefuseNoMemory
  <2>2. CASE \E i \in Id : Into(seg, i) /\ Report("OOMNack", seg, i, AddSegment(seg, i))
    <3>1. PICK i \in Id : Into(seg, i) /\ Report("OOMNack", seg, i, AddSegment(seg, i))
      BY <2>2
    <3> QED  BY <1>4, <3>1, ReceiveBounded DEF RefuseNoMemory
  <2> QED  BY <1>4, <2>1, <2>2 DEF RefuseNoMemory
<1> QED  BY <1>2, <1>3, <1>4 DEF Delivers, Refuses

LEMMA PowerBounded ==
  ASSUME Orderly, StoreInv, Starts \/ PowerDown \/ Crash PROVE Bounded' /\ Present'
<1>1. ~Crash
  BY DEF Orderly, Crash
<1>2. CASE PowerUp
  BY <1>2, HandingBounded DEF PowerUp, reader, phone, Late, Shut
<1>3. CASE PhoneInitialised
  BY <1>3, HandingBounded DEF PhoneInitialised, reader, phone, Late, Shut
<1>4. CASE StartReader
  <2>1. /\ UNCHANGED <<booting, mail, pdu>>
        /\ st' = IF st = "Idle" /\ ~IsFull(store) THEN "SetReceiveMode" ELSE st
    BY <1>4 DEF StartReader
  <2>2. Late => Late' \/ ~IsFull(store')
    BY <1>4, <2>1 DEF StartReader, Late, Later, Shut, mail, phone
  <2>3. st' \in Reporting => pdu' # None
    BY <2>1 DEF StoreInv, Present, Reporting
  <2> QED  BY <2>1, <2>2, <2>3, ReaderBounded
<1>5. CASE PowerDown
  BY <1>5, ReaderBounded DEF PowerDown, CutOff, Late, Later, Reporting
<1> QED  BY <1>1, <1>2, <1>3, <1>4, <1>5 DEF Starts

\* What a client has read leaves the store, and makes room for one message.
LEMMA ConfirmBounded ==
  ASSUME Orderly, StoreInv, NEW o \in Observer, NEW i \in Id, Confirm(o, i)
  PROVE  Bounded' /\ Present'
<1> USE DEF StoreInv
<1> DEFINE found == power # "off" /\ store[i] # None /\ store[i].passed
           s == IF found THEN [store EXCEPT ![i] = None] ELSE store
           c == [copies EXCEPT ![<<o, i>>] = @ - 1]
           d == done \cup {i[1]}
<1>1. copies[<<o, i>>] > 0 /\ booting' = booting /\ MessageReadedSuccessfully(s, c, d)
  BY DEF Confirm
<1>2. /\ store \in [Id -> Entry \cup {None}] /\ copies \in [Observer \X Id -> Nat]
      /\ copies[<<o, i>>] = 1 /\ Complete(store, i) /\ store[i].passed
      /\ \A p \in Observer : copies[<<p, i>>] > 0 => p = o
  BY <1>1 DEF ReceiveInv, Sound, Present
<1>3. found <=> power # "off"
  BY <1>2 DEF Complete
<1>4. \A p \in Observer, j \in Id : copies[<<p, j>>] \in Nat
        /\ c[<<p, j>>] = IF p = o /\ j = i THEN 0 ELSE copies[<<p, j>>]
  BY <1>2
<1>5. /\ power = "off" => s = store
      /\ power # "off" => s[i] = None /\ \A j \in Id \ {i} : s[j] = store[j]
  BY <1>2, <1>3
<1>6. s \in [Id -> Entry \cup {None}] /\ c \in [Observer \X Id -> Nat]
  BY <1>2
<1> HIDE DEF s, c, found
<1>7. \A j \in Id, p \in Observer : c[<<p, j>>] > 0 => s[j] # None
  BY <1>2, <1>4, <1>5 DEF Present
<1>8. /\ \A j \in Id : s[j] # None => s[j] = store[j]
      /\ power # "off" => CompleteOnes(s) \subseteq CompleteOnes(store) \ {i}
      /\ CompleteOnes(s) \subseteq CompleteOnes(store)
      /\ i \in CompleteOnes(store)
  BY <1>2, <1>5 DEF CompleteOnes, Complete
<1>9. /\ pdu' = pdu /\ st' \in {st, "Resume"} /\ UNCHANGED phone
      /\ st' # st => st = "Idle" /\ PoweredUp
      /\ st' = st => suspended' = suspended /\ (delayed' => delayed \/ suspended)
      /\ \/ power = "off" /\ store' = s /\ copies' = c
         \/ power # "off" /\ ProcessComplete(s, c, d, {})
  <2>1. \A gone \in SUBSET {j \in Id : s[j] # None} : (gone # {} => "purge" \in Fault) => gone = {}
    BY DEF Orderly
  <2> QED  BY <1>1, <2>1 DEF MessageReadedSuccessfully, ResumeSmsReception, Resume
<1>10. Sound(s, c)
  <2>1. \A j \in Id : s[j] # None => (Complete(s, j) <=> Complete(store, j))
                                     /\ (Open(s, j) <=> Open(store, j))
    BY <1>8 DEF Complete, Open
  <2>2. \A j \in Id, p \in Observer, q \in Observer :
          c[<<p, j>>] > 0 /\ c[<<q, j>>] > 0 => p = q /\ c[<<p, j>>] = 1
    BY <1>4 DEF ReceiveInv, Sound
  <2>3. \A j \in Id, p \in Observer :
          c[<<p, j>>] > 0 /\ s[j] # None => Complete(s, j) /\ s[j].passed
    BY <1>4, <1>8, <2>1 DEF ReceiveInv, Sound
  <2>4. ASSUME "offline" \notin Fault, NEW j \in Id, s[j] # None, s[j].passed
        PROVE  \E p \in Observer : c[<<p, j>>] > 0
    <3>1. PICK p \in Observer : copies[<<p, j>>] > 0
      BY <1>8, <2>4 DEF ReceiveInv, Sound
    <3>2. j # i
      BY <1>1, <1>5, <2>4 DEF Confirm
    <3> QED  BY <1>4, <3>1, <3>2
  <2>5. \A j, k \in Id : j[1] = k[1] /\ Open(s, j) /\ Open(s, k) => j = k
    BY <2>1 DEF ReceiveInv, Sound, Open
  <2> QED  BY <1>6, <2>2, <2>3, <2>4, <2>5 DEF Sound
<1>11. pdu # None /\ pdu.complete => pdu.id \in Id /\ pdu.id # i /\ store[pdu.id] # None
  BY <1>2 DEF ReceiveInv, PduSound, Typed, Processor, Present
<1>12. /\ CompleteOnes(store') \subseteq CompleteOnes(s)
       /\ \A j \in Id, p \in Observer : copies'[<<p, j>>] > 0 => store'[j] # None
       /\ pdu # None /\ pdu.complete => store'[pdu.id] # None
  <2>1. CASE power = "off"
    BY <1>5, <1>7, <1>9, <1>11, <2>1
  <2>2. CASE power # "off"
    <3>1. /\ CompleteOnes(store') \subseteq CompleteOnes(s)
          /\ \A j \in Id, p \in Observer : copies'[<<p, j>>] > 0 => store'[j] # None
          /\ pdu # None /\ pdu.id \in Id /\ s[pdu.id] # None => store'[pdu.id] # None
      BY <1>7, <1>9, <1>10, <2>2, CompleteHanded
    <3> QED  BY <1>5, <1>11, <2>2, <3>1
  <2> QED  BY <2>1, <2>2
<1>13. Present'
  <2>1. st' \in Reporting => pdu' # None
    BY <1>9 DEF Present, Reporting
  <2> QED  BY <1>9, <1>12, <2>1 DEF Present
<1>14. Bounded'
  <2>1. CASE st' = st
    <3>1. Late => Late'
      BY <1>9, <2>1 DEF Late, Shut, phone
    <3> QED  BY <1>1, <1>8, <1>12, <3>1, StaysBounded
  <2>2. CASE st' # st
    <3> DEFINE S == CompleteOnes(store)
               T == CompleteOnes(store')
    <3>1. power # "off" /\ st = "Idle" /\ st' = "Resume"
      BY <1>9, <2>2 DEF PoweredUp
    <3>2. T \in SUBSET (S \ {i}) /\ i \in S /\ IsFiniteSet(S)
      BY <1>8, <1>12, <3>1 DEF Bounded
    <3>3. Cardinality(S) <= Limit(booting, TRUE) /\ MaxComplete \in Nat
      BY <3>1, BoundAssumption DEF Bounded, Late, Later, Limit
    <3> HIDE DEF S, T
    <3>4. /\ IsFiniteSet(S \ {i}) /\ Cardinality(S \ {i}) = Cardinality(S) - 1
          /\ Cardinality(S) \in Nat
      BY <3>2, FS_RemoveElement, FS_CardinalityType
    <3>5. IsFiniteSet(T) /\ Cardinality(T) <= Cardinality(S \ {i})
      BY ONLY <3>2, <3>4, FS_Subset
    <3>6. Cardinality(T) \in Nat
      BY <3>5, FS_CardinalityType
    <3>7. Cardinality(T) <= Limit(booting, FALSE)
      BY <3>3, <3>4, <3>5, <3>6 DEF Limit
    <3>8. ~Late'
      BY <3>1 DEF Late, Later, Shut
    <3> QED  BY <1>1, <3>5, <3>7, <3>8 DEF Bounded, T, Limit
  <2> QED  BY <2>1, <2>2
<1> QED  BY <1>13, <1>14

\* The boot timer resumes reception once more than there was room for.
LEMMA BootTimerBounded ==
  ASSUME Orderly, StoreInv, BootTimer PROVE Bounded' /\ Present'
<1> USE DEF StoreInv
<1>1. booting /\ ~booting' /\ MessageReadedSuccessfully(store, copies, done)
  BY DEF BootTimer
<1>2. /\ pdu' = pdu /\ st' \in {st, "Resume"}
      /\ \/ store' = store /\ copies' = copies
         \/ ProcessComplete(store, copies, done, {})
  <2>1. \A gone \in SUBSET {j \in Id : store[j] # None} :
          (gone # {} => "purge" \in Fault) => gone = {}
    BY DEF Orderly
  <2> QED  BY <1>1, <2>1 DEF MessageReadedSuccessfully, ResumeSmsReception, Resume
<1>3. Sound(store, copies) /\ (pdu # None /\ pdu.complete => pdu.id \in Id)
  BY DEF ReceiveInv, Typed, PduSound, Processor
<1>4. /\ CompleteOnes(store') \subseteq CompleteOnes(store)
      /\ \A i \in Id, o \in Observer : copies'[<<o, i>>] > 0 => store'[i] # None
      /\ pdu # None /\ pdu.complete => store'[pdu.id] # None
  <2>1. CASE store' = store /\ copies' = copies
    BY <2>1 DEF Present
  <2>2. CASE ProcessComplete(store, copies, done, {})
    BY <1>3, <2>2, CompleteHanded DEF Present
  <2> QED  BY <1>2, <2>1, <2>2
<1>5. Present'
  BY <1>2, <1>4 DEF Present, Reporting
<1>6. /\ IsFiniteSet(CompleteOnes(store')) /\ Cardinality(CompleteOnes(store')) \in Nat
      /\ Cardinality(CompleteOnes(store')) <= Cardinality(CompleteOnes(store))
      /\ Cardinality(CompleteOnes(store)) \in Nat
      /\ Cardinality(CompleteOnes(store)) <= Limit(TRUE, Late) /\ MaxComplete \in Nat
  BY <1>1, <1>4, FewerComplete, BoundAssumption DEF Bounded
<1>7. Cardinality(CompleteOnes(store')) <= Limit(FALSE, Late')
  BY <1>6 DEF Limit
<1>8. booting' = FALSE
  BY <1>1 DEF BootTimer
<1>9. Bounded'
  BY <1>6, <1>7, <1>8 DEF Bounded
<1> QED  BY <1>5, <1>9

LEMMA ShutdownBounded ==
  ASSUME StoreInv, NEW o \in Observer, Shutdown(o) PROVE Bounded' /\ Present'
<1> USE DEF StoreInv
<1>1. /\ store' = [i \in Id |-> IF power # "off" /\ copies[<<o, i>>] > 0 /\ store[i] # None
                                THEN [store[i] EXCEPT !.passed = FALSE] ELSE store[i]]
      /\ copies' = [x \in Observer \X Id |-> IF x[1] = o THEN 0 ELSE copies[x]]
      /\ UNCHANGED <<booting, st, pdu>>
  BY DEF Shutdown, reader
<1>2. ASSUME NEW i \in Id
      PROVE  /\ store'[i] = None <=> store[i] = None
             /\ Complete(store', i) <=> Complete(store, i)
  <2>1. CASE store'[i] = store[i]
    BY <2>1 DEF Complete
  <2>2. CASE store[i] # None /\ store'[i] = [store[i] EXCEPT !.passed = FALSE]
    <3>1. store[i] \in Entry
      BY <2>2 DEF ReceiveInv, Sound
    <3>2. store'[i] \in Entry /\ store'[i].parts = store[i].parts
      BY <2>2, <3>1 DEF Entry
    <3>3. store'[i] # None
      BY <3>2, NoneAssumption DEF Entry
    <3> QED  BY <2>2, <3>2, <3>3 DEF Complete
  <2> QED  BY <1>1, <2>1, <2>2
<1>3. \A i \in Id, p \in Observer : copies'[<<p, i>>] > 0 => copies[<<p, i>>] > 0
  BY <1>1
<1>4. pdu # None /\ pdu.complete => pdu.id \in Id
  BY DEF ReceiveInv, Typed, PduSound, Processor
<1>5. Present'
  BY <1>1, <1>2, <1>3, <1>4 DEF Present
<1>6. CompleteOnes(store') \subseteq CompleteOnes(store)
  BY <1>2 DEF CompleteOnes
<1>7. Late => Late'
  BY DEF Shutdown, reader, phone, Late, Shut
<1> QED  BY <1>1, <1>5, <1>6, <1>7, StaysBounded

\* After a refusal the TSY is held back until the reader tells it to go on.
LEMMA HeldBackNext == ASSUME Orderly, StoreInv, [Next]_vars PROVE HeldBack'
<1> SUFFICES ASSUME "no_memory" \in Fault
             PROVE  /\ monitor' = "Idle" /\ (suspended' => held') /\ (delayed' => suspended')
                    /\ st' = "Resume" => ~suspended'
  BY DEF HeldBack
<1>1. /\ monitor = "Idle" /\ (suspended => held) /\ (delayed => suspended)
      /\ st = "Resume" => ~suspended
      /\ Fault \cap {"crash", "ack_timeout", "purge", "disk_full"} = {}
      /\ ~CompleteAgain
  BY DEF StoreInv, HeldBack, Orderly, Present, CompleteAgain
<1> USE <1>1 DEF phone, protocol, reader, disk, mail
<1>2. ASSUME Receive \/ Done \/ Resume, UNCHANGED <<held, disk>> PROVE HeldBack'
  BY <1>2 DEF Receive, Done, Resume, HeldBack
<1>3. CASE Answers
  <2>1. CASE ResumeDone
    BY <2>1 DEF ResumeDone, Receive, Done, Resume
  <2>2. CASE SetReceiveModeDone \/ LogDone \/ DiscardDone \/ OOMTimer
    BY <1>2, <2>2 DEF SetReceiveModeDone, LogDone, DiscardDone, OOMTimer, HeldBack
  <2>3. CASE AckDone
    BY <2>3 DEF AckDone
  <2>4. CASE OOMNackDone
    BY <1>2, <2>4 DEF OOMNackDone, HeldBack
  <2> QED  BY <1>3, <2>1, <2>2, <2>3, <2>4 DEF Answers
<1>4. CASE Delivers \/ Refuses
  <2>1. ASSUME NEW state \in Reporting, NEW seg, NEW i, NEW s, Report(state, seg, i, s),
               UNCHANGED disk
        PROVE  HeldBack'
    BY <2>1 DEF Report, Reporting, HeldBack
  <2>2. PICK seg \in Segment : ReceivePDU(seg) \/ DiscardPDU(seg) \/ RefuseNoMemory(seg)
    BY <1>4 DEF Delivers, Refuses, RefuseDiskFull
  <2>3. \E state \in Reporting : \E i, s : Report(state, seg, i, s) /\ UNCHANGED disk
    BY <2>2 DEF ReceivePDU, DiscardPDU, RefuseNoMemory, Reporting
  <2> QED  BY <2>1, <2>3 DEF HeldBack
<1>5. CASE Starts \/ PowerDown
  BY <1>5 DEF Starts, PowerUp, PhoneInitialised, StartReader, PowerDown, CutOff
<1>6. ASSUME NEW s, NEW c, NEW d, MessageReadedSuccessfully(s, c, d) PROVE HeldBack'
  BY <1>6 DEF MessageReadedSuccessfully, ResumeSmsReception, Resume, HeldBack
<1>7. CASE Reads \/ BootTimer
  BY <1>6, <1>7 DEF Reads, Confirm, BootTimer, HeldBack
<1>8. CASE ReceiveFailed
  BY <1>2, <1>8 DEF ReceiveFailed, HeldBack
<1>9. ASSUME NEW o \in Observer, Bind(o) \/ Shutdown(o) PROVE HeldBack'
  BY <1>9 DEF Bind, Shutdown, HeldBack
<1>10. ~(DiskSpaceFreed \/ DiskNotifyFailed \/ DiskResumeDone)
  BY DEF DiskSpaceFreed, DiskNotifyFailed, DiskResumeDone, Watch!SpaceFreed,
         Watch!NotifyFailed, Watch!ResumeDone
<1>11. CASE UNCHANGED vars
  BY <1>11 DEF vars
<1> QED  BY <1>3, <1>4, <1>5, <1>7, <1>8, <1>9, <1>10, <1>11
        DEF Next, Crash, AckTimeout, HeldBack

LEMMA StoreNext == ASSUME Orderly PROVE StoreInv /\ [Next]_vars => StoreInv'
<1> SUFFICES ASSUME StoreInv, [Next]_vars PROVE Bounded' /\ Present'
  BY ReceiveNext, HeldBackNext DEF StoreInv
<1>1. CASE Answers \/ AckTimeout \/ ReceiveFailed
  BY <1>1, AnswersBounded, LogBounded DEF Answers
<1>2. CASE Delivers \/ Refuses
  BY <1>2, DeliveryBounded
<1>3. CASE Starts \/ PowerDown \/ Crash
  BY <1>3, PowerBounded
<1>4. CASE Reads \/ BootTimer
  BY <1>4, ConfirmBounded, BootTimerBounded DEF Reads
<1>5. ASSUME NEW o \in Observer, Bind(o) \/ Shutdown(o) PROVE Bounded' /\ Present'
  <2>1. CASE Bind(o)
    BY <2>1, HandingBounded DEF Bind, reader, phone, Late, Shut
  <2> QED  BY <1>5, <2>1, ShutdownBounded
<1>6. CASE DiskSpaceFreed \/ DiskNotifyFailed \/ DiskResumeDone \/ UNCHANGED vars
  <2>1. UNCHANGED <<protocol, reader, mail>>
    BY <1>6 DEF DiskSpaceFreed, DiskNotifyFailed, DiskResumeDone, vars
  <2>2. Late => Late'
    <3>1. CASE UNCHANGED vars
      BY <3>1 DEF vars, phone, reader, Late, Shut
    <3>2. CASE DiskSpaceFreed \/ DiskNotifyFailed \/ DiskResumeDone
      <4>1. "no_memory" \notin Fault
        BY <3>2 DEF StoreInv, HeldBack, DiskSpaceFreed, DiskNotifyFailed, DiskResumeDone,
                    Watch!SpaceFreed, Watch!NotifyFailed, Watch!ResumeDone
      <4> QED  BY <2>1, <4>1 DEF reader, Late, Shut
    <3> QED  BY <1>6, <3>1, <3>2
  <2> QED  BY <2>1, <2>2, HandingBounded DEF protocol, reader
<1> QED  BY <1>1, <1>2, <1>3, <1>4, <1>5, <1>6 DEF Next

\* IsFull: the limit of the store is exceeded by two messages at most, the one that
\* fills it and the one that the boot timer lets in.
THEOREM StoreIsBounded == ASSUME Orderly PROVE Spec => []StoreBound
<1>1. Init => StoreInv
  <2> SUFFICES ASSUME Init PROVE Bounded /\ Present /\ HeldBack
    BY ReceiveInit DEF StoreInv
  <2>1. /\ store = [i \in Id |-> None] /\ copies = [x \in Observer \X Id |-> 0]
        /\ st = "Idle" /\ pdu = None /\ booting = TRUE
    BY DEF Init
  <2>2. CompleteOnes(store) = {}
    BY <2>1 DEF CompleteOnes, Complete
  <2>3. Cardinality({}) <= Limit(booting, Late)
    BY <2>1, FS_EmptySet, BoundAssumption DEF Limit
  <2>4. Bounded
    BY <2>2, <2>3, FS_EmptySet DEF Bounded
  <2>5. \A i \in Id, o \in Observer : ~(copies[<<o, i>>] > 0)
    BY <2>1
  <2>6. HeldBack
    BY DEF Init, HeldBack
  <2> QED  BY <2>1, <2>4, <2>5, <2>6 DEF Present, Reporting
<1>2. StoreInv /\ [Next]_vars => StoreInv'
  BY StoreNext
<1>3. StoreInv => StoreBound
  <2> SUFFICES ASSUME StoreInv PROVE StoreBound
    OBVIOUS
  <2>1. /\ Cardinality(CompleteOnes(store)) \in Nat /\ MaxComplete \in Nat
        /\ Cardinality(CompleteOnes(store)) <= Limit(booting, Late)
    BY FS_CardinalityType, BoundAssumption DEF StoreInv, Bounded
  <2>2. Cardinality(CompleteOnes(store)) <= MaxComplete + 2
    BY <2>1 DEF Limit
  <2> QED  BY <2>2 DEF StoreBound, CompleteOnes
<1> QED  BY <1>1, <1>2, <1>3, PTL DEF Spec
=============================================================================
