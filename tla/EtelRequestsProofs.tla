-------------------------- MODULE EtelRequestsProofs --------------------------
(* Theorems about EtelRequests. *)
EXTENDS EtelRequests, TLAPS

\* Every entry carries a handle the TSY could know it by.
EntryHasHandle == \A k \in Entry : handle[k] \in Handle

TypeInv == TypeOK /\ EntryHasHandle

LEMMA InitType == Init => TypeInv
  BY HoldAssumption, SlotsAssumption DEF Init, TypeInv, TypeOK, EntryHasHandle, Entry

\* A client's request keeps the types.
LEMMA IssueType == ASSUME TypeInv, NEW k \in Key, Issue(k) PROVE TypeInv'
<1> USE DEF TypeInv, TypeOK, EntryHasHandle, Entry, lists, marks, tsyVars, MayIssue
<1>1. CASE ReadBuffered(k)  BY <1>1, SlotsAssumption DEF ReadBuffered
<1>2. CASE ReArm(k)  BY <1>2 DEF ReArm
<1>3. ASSUME NEW new \in SUBSET {k}, NEW late \in SUBSET {k}, NEW h \in Handle,
             NewReq(k, new, late, h),
             placed' \subseteq Key, flow' \in Nat, registered' \subseteq Object \X Ipc,
             tsy' \subseteq Handle
      PROVE  TypeInv'
  BY <1>3 DEF NewReq, Relist
<1>4. CASE Share(k)
  BY <1>4, <1>3 DEF Share, FindByIpcAndTelObject, First
<1>5. NotShared(k) => TsyReqHandle \in Handle
  BY DEF NotShared, TsyReqHandle, Fresh
<1>6. CASE Wait(k)  BY <1>6, <1>5, <1>3 DEF Wait
<1>7. Register(k) => registered' \subseteq Object \X Ipc
  BY ObjectAssumption DEF Register, Key
<1>8. CASE Post(k)  BY <1>8, <1>5, <1>7, <1>3 DEF Post
<1>9. CASE PostRefused(k)  BY <1>9, <1>7 DEF PostRefused
<1> QED  BY <1>1, <1>2, <1>4, <1>6, <1>8, <1>9 DEF Issue

LEMMA CancelType == ASSUME TypeInv, NEW k \in Key, Cancel(k) PROVE TypeInv'
<1> USE DEF TypeInv, TypeOK, EntryHasHandle, Entry, lists, marks, tsyVars
<1>1. CASE CancelUnplaced(k)  BY <1>1 DEF CancelUnplaced, Relist, Unmark
<1>2. CASE CancelPlaced(k)  BY <1>2 DEF CancelPlaced
<1>3. CASE CancelPlacedRefused(k)
  BY <1>3 DEF CancelPlacedRefused, Relist, Unmark
<1> QED  BY <1>1, <1>2, <1>3 DEF Cancel

LEMMA LoseInterestType ==
  ASSUME TypeInv, NEW c \in Client, LoseInterest(c), open' \subseteq Client,
         outstanding' \subseteq Key
  PROVE  TypeInv'
<1> USE DEF TypeInv, TypeOK, EntryHasHandle, Entry
<1> DEFINE gone == Flushed(c) \cup Dropped(c)
<1>1. Asked(c) \subseteq active /\ gone \subseteq Entry
  BY DEF Asked, Mine, Flushed, Dropped
<1> QED  BY <1>1, SlotsAssumption DEF LoseInterest, Relist

\* What ReqCompleted ends with.
LEMMA ConcludeType ==
  ASSUME TypeInv, NEW ended, NEW gone \in SUBSET active, NEW next \in SUBSET active,
         NEW w \in SUBSET waiting, NEW f \in Nat, Conclude(ended, gone, next, w, f),
         registered' \subseteq Object \X Ipc, hold' \in 0..MaxHold
  PROVE  TypeInv'
<1> USE DEF TypeInv, TypeOK, EntryHasHandle, Entry
<1>1. PICK refused \in SUBSET next, failed \in SUBSET w :
        ConcludeWith(refused, failed, ended, gone, next, w, f)
  BY DEF Conclude, MayRefuse
<1> DEFINE dead == gone \cup failed
           up == UNION {Activated(k) : k \in w}
<1>2. up \subseteq waiting
  BY DEF Activated
<1>3. /\ active' \subseteq Key /\ waiting' \subseteq Key
      /\ ahead' \in [Key -> SUBSET Key]
      /\ active' \cup waiting' \subseteq Entry \ dead
  BY <1>1, <1>2 DEF ConcludeWith, Relist
<1>4. /\ \A k \in active' \cup waiting' : handle'[k] \in Handle
      /\ handle' \in [Key -> Handle \cup {NoHandle}]
  BY <1>1, <1>3 DEF ConcludeWith, Unmark
<1> HIDE DEF up
<1> QED  BY <1>1, <1>3, <1>4, SlotsAssumption DEF ConcludeWith, Unmark

LEMMA ResumableType == \A f : Resumable(f) \subseteq waiting
  BY DEF Resumable, First

\* ConcludeReq is Conclude with a natural counter and at most the head of the
\* waiting list.
LEMMA ConcludeReqForm ==
  ASSUME TypeInv, NEW k \in Key, NEW gone, NEW next, ConcludeReq(k, gone, next)
  PROVE  \E f \in Nat, w \in SUBSET waiting :
           Conclude({handle[k]}, gone, next, w, f)
<1>1. CASE k \in Flow
  <2> DEFINE f == IF next = {} THEN flow - 1 ELSE flow
  <2>1. flow > 0 /\ Conclude({handle[k]}, gone, next, Resumable(f), f)
    BY <1>1 DEF ConcludeReq
  <2>2. f \in Nat
    BY <2>1 DEF TypeInv, TypeOK
  <2> QED  BY <2>1, <2>2, ResumableType
<1>2. CASE k \notin Flow
  <2>1. Conclude({handle[k]}, gone, next, {}, flow)
    BY <1>2 DEF ConcludeReq
  <2> QED  BY <2>1 DEF TypeInv, TypeOK
<1> QED  BY <1>1, <1>2

LEMMA ReqCompletedType ==
  ASSUME TypeInv, NEW h \in Handle, ReqCompleted(h) PROVE TypeInv'
<1>1. CASE Notified(h)
  <2>1. PICK k \in active :
          LET all == Sharers(k) \cup {k} IN
          /\ unread' = [j \in Key |-> IF j \in all \cap nulled /\ unread[j] < Slots
                                      THEN unread[j] + 1 ELSE unread[j]]
          /\ nulled' = nulled \cup all
          /\ outstanding' \subseteq outstanding
          /\ tsy' \subseteq tsy /\ tsyCancelled' \subseteq tsyCancelled
          /\ UNCHANGED <<open, lists, placed, cancelled, interested, handle>>
          /\ UNCHANGED <<flow, registered, hold>>
    BY <1>1 DEF Notified, FindByTsyHandleAndPlacedRequest, First
  <2>2. Sharers(k) \cup {k} \subseteq Key
    BY DEF Sharers, TypeInv, TypeOK
  <2>3. unread' \in [Key -> 0..Slots]
    BY <2>1, SlotsAssumption DEF TypeInv, TypeOK
  <2> QED  BY <2>1, <2>2, <2>3 DEF TypeInv, TypeOK, EntryHasHandle, Entry, lists
<1>2. ASSUME NEW k \in active, NEW gone \in SUBSET active, NEW next \in SUBSET active,
             ConcludeReq(k, gone, next), registered' \subseteq Object \X Ipc,
             UNCHANGED hold
      PROVE  TypeInv'
  <2>1. k \in Key /\ hold' \in 0..MaxHold
    BY <1>2 DEF TypeInv, TypeOK
  <2>2. PICK f \in Nat, w \in SUBSET waiting :
          Conclude({handle[k]}, gone, next, w, f)
    BY <1>2, <2>1, ConcludeReqForm
  <2> QED  BY <1>2, <2>1, <2>2, ConcludeType
<1>3. CASE Answered(h)
  <2>1. PICK k \in active : /\ ConcludeReq(k, Sharers(k) \cup {k}, {})
                            /\ UNCHANGED <<registered, hold>>
    BY <1>3 DEF Answered, FindByTsyHandleAndPlacedRequest, First
  <2>2. Sharers(k) \cup {k} \in SUBSET active /\ {} \in SUBSET active
    BY DEF Sharers
  <2>3. registered' \subseteq Object \X Ipc
    BY <2>1 DEF TypeInv, TypeOK
  <2> QED  BY <2>1, <2>2, <2>3, <1>2
<1>4. CASE Cancelled(h)
  <2> DEFINE next(k) == IF k \in Multi THEN FindThisReqByAnotherClient(k) ELSE {}
  <2>1. PICK k \in active : /\ ConcludeReq(k, {k}, next(k))
                            /\ registered' \subseteq registered
    BY <1>4 DEF Cancelled, FindByTsyHandleAndPlacedRequest, First
  <2>2. next(k) \in SUBSET active /\ {k} \in SUBSET active
    BY DEF FindThisReqByAnotherClient, First
  <2>3. UNCHANGED hold /\ registered' \subseteq Object \X Ipc
    BY <1>4, <2>1 DEF Cancelled, TypeInv, TypeOK
  <2> HIDE DEF next
  <2> QED  BY <2>1, <2>2, <2>3, <1>2
<1> QED  BY <1>1, <1>3, <1>4 DEF ReqCompleted

LEMMA FlowControlType ==
  ASSUME TypeInv, FlowControlSuspend \/ FlowControlResume PROVE TypeInv'
<1>1. CASE FlowControlSuspend
  BY <1>1, HoldAssumption
  DEF FlowControlSuspend, TypeInv, TypeOK, EntryHasHandle, Entry, lists, marks
<1>2. CASE FlowControlResume
  <2>1. /\ hold > 0 /\ flow > 0 /\ hold' = hold - 1 /\ UNCHANGED registered
        /\ Conclude({}, {}, {}, Resumable(flow - 1), flow - 1)
    BY <1>2 DEF FlowControlResume
  <2>2. flow - 1 \in Nat /\ hold' \in 0..MaxHold /\ registered' \subseteq Object \X Ipc
    BY <2>1, HoldAssumption DEF TypeInv, TypeOK
  <2> QED  BY <2>1, <2>2, ResumableType, ConcludeType
<1> QED  BY <1>1, <1>2

LEMMA TypeStep == TypeInv /\ [Next]_vars => TypeInv'
<1> SUFFICES ASSUME TypeInv, [Next]_vars PROVE TypeInv'
  OBVIOUS
<1>1. ASSUME NEW c \in Client, OpenSubSession(c) PROVE TypeInv'
  BY <1>1 DEF OpenSubSession, TypeInv, TypeOK, EntryHasHandle, Entry, lists, marks, tsyVars
<1>2. ASSUME NEW c \in Client, CancelSubSession(c) PROVE TypeInv'
  BY <1>2, LoseInterestType DEF CancelSubSession, TypeInv, TypeOK
<1>3. ASSUME NEW c \in Client, CloseSubSession(c) PROVE TypeInv'
  BY <1>3, LoseInterestType DEF CloseSubSession, TypeInv, TypeOK
<1>4. CASE UNCHANGED vars
  BY <1>4 DEF vars, lists, marks, tsyVars, TypeInv, TypeOK, EntryHasHandle, Entry
<1> QED  BY <1>1, <1>2, <1>3, <1>4, IssueType, CancelType, ReqCompletedType,
            FlowControlType DEF Next

\* Every variable keeps its type: in particular the flow control counter of
\* FlowControlDec never goes below zero and a buffer never holds more than its slots.
THEOREM TypeCorrect == Spec => []TypeOK
<1>1. TypeInv => TypeOK
  BY DEF TypeInv
<1> QED  BY <1>1, InitType, TypeStep, PTL DEF Spec

-----------------------------------------------------------------------------
\* An entry whose client is interested is in a list, and its sub-session open.
InterestInv ==
  /\ interested \subseteq Entry
  /\ \A k \in interested : k[1] \in open

\* What a step does to the requests of closed sub-sessions: nothing.
Silent ==
  \A k \in Key : k[1] \notin open \cup open'
                => (k \in outstanding' <=> k \in outstanding)

LEMMA InterestIssue ==
  ASSUME InterestInv, NEW k \in Key, Issue(k) PROVE InterestInv' /\ Silent
<1> USE DEF InterestInv, Silent, Entry, MayIssue
<1>1. CASE ReadBuffered(k)  BY <1>1 DEF ReadBuffered, lists
<1>2. CASE ReArm(k)  BY <1>2 DEF ReArm, lists
<1>3. ASSUME k[1] \in open, k \notin Entry, NEW new, NEW late, NEW h,
             new \cup late = {k}, NewReq(k, new, late, h)
      PROVE  InterestInv' /\ Silent
  BY <1>3 DEF NewReq, Relist
<1>4. CASE Share(k)  BY <1>4, <1>3 DEF Share
<1>5. CASE Wait(k)  BY <1>5, <1>3 DEF Wait, NotShared
<1>6. CASE Post(k)  BY <1>6, <1>3 DEF Post, NotShared
<1>7. CASE PostRefused(k)  BY <1>7 DEF PostRefused, lists, marks
<1> QED  BY <1>1, <1>2, <1>4, <1>5, <1>6, <1>7 DEF Issue

LEMMA InterestCancel ==
  ASSUME InterestInv, NEW k \in Key, Cancel(k) PROVE InterestInv' /\ Silent
<1> USE DEF InterestInv, Silent, Entry
<1>1. CASE CancelUnplaced(k)  BY <1>1 DEF CancelUnplaced, Relist, Unmark
<1>2. CASE CancelPlaced(k)  BY <1>2 DEF CancelPlaced, lists
<1>3. CASE CancelPlacedRefused(k)
  BY <1>3 DEF CancelPlacedRefused, Relist, Unmark
<1> QED  BY <1>1, <1>2, <1>3 DEF Cancel

LEMMA InterestSubSession ==
  ASSUME InterestInv, NEW c \in Client,
         OpenSubSession(c) \/ CancelSubSession(c) \/ CloseSubSession(c)
  PROVE  InterestInv' /\ Silent
<1> USE DEF InterestInv, Silent, Entry
<1>1. CASE OpenSubSession(c)  BY <1>1 DEF OpenSubSession, lists, marks
<1>2. ASSUME LoseInterest(c)
      PROVE  /\ interested' \subseteq Entry'
             /\ \A k \in interested' : k \in interested /\ k[1] # c
  BY <1>2 DEF LoseInterest, Relist, Mine, Flushed, Dropped
<1>3. CASE CancelSubSession(c)
  BY <1>2, <1>3 DEF CancelSubSession, Flushed
<1>4. CASE CloseSubSession(c)
  BY <1>2, <1>4 DEF CloseSubSession
<1> QED  BY <1>1, <1>3, <1>4

LEMMA InterestConclude ==
  ASSUME InterestInv, NEW ended, NEW gone, NEW next, NEW w, NEW f,
         Conclude(ended, gone, next, w, f)
  PROVE  InterestInv' /\ Silent
<1>1. PICK dead, up :
        /\ Relist(dead, up, {}, {})
        /\ Unmark(dead)
        /\ outstanding' = outstanding \ ((dead \cap interested) \ nulled)
        /\ UNCHANGED open
  BY DEF Conclude, ConcludeWith
<1> QED  BY <1>1 DEF InterestInv, Silent, Entry, Relist, Unmark

LEMMA InterestReqCompleted ==
  ASSUME InterestInv, NEW h \in Handle, ReqCompleted(h)
  PROVE  InterestInv' /\ Silent
<1>1. CASE Notified(h)
  <2>1. PICK all : /\ outstanding' = outstanding \ ((all \cap interested) \ nulled)
                   /\ UNCHANGED <<open, lists, interested>>
    BY <1>1 DEF Notified
  <2> QED  BY <2>1 DEF InterestInv, Silent, Entry, lists
<1>2. ASSUME NEW k, NEW gone, NEW next, ConcludeReq(k, gone, next)
      PROVE  InterestInv' /\ Silent
  BY <1>2, InterestConclude DEF ConcludeReq
<1>3. CASE Answered(h)  BY <1>2, <1>3 DEF Answered
<1>4. CASE Cancelled(h)  BY <1>2, <1>4 DEF Cancelled
<1> QED  BY <1>1, <1>3, <1>4 DEF ReqCompleted

LEMMA InterestStep == InterestInv /\ [Next]_vars => InterestInv' /\ Silent
<1> SUFFICES ASSUME InterestInv, [Next]_vars PROVE InterestInv' /\ Silent
  OBVIOUS
<1>1. CASE FlowControlSuspend
  BY <1>1 DEF FlowControlSuspend, InterestInv, Silent, Entry, lists, marks
<1>2. CASE FlowControlResume
  BY <1>2, InterestConclude DEF FlowControlResume
<1>3. CASE UNCHANGED vars
  BY <1>3 DEF vars, InterestInv, Silent, Entry, lists, marks
<1> QED  BY <1>1, <1>2, <1>3, InterestIssue, InterestCancel, InterestSubSession,
            InterestReqCompleted DEF Next

\* A request whose sub-session has been closed is never answered, whatever the
\* TSY completes, refuses or fails to cancel later: CReqEntry::CompleteAndDeque
\* asks iClientInterested, which FlushReqs has cleared.
THEOREM NeverAnswersClosed == Spec => NoAnswerAfterClose
<1>1. Init => InterestInv
  BY DEF Init, InterestInv, Entry
<1>2. InterestInv /\ [Next]_vars =>
        [\A k \in Key : k[1] \notin open \cup open'
                       => (k \in outstanding' <=> k \in outstanding)]_vars
  BY InterestStep DEF Silent
<1> QED  BY <1>1, <1>2, InterestStep, PTL DEF Spec, NoAnswerAfterClose

-----------------------------------------------------------------------------
\* The two lists as data structures.  Stating that every subset has a first entry
\* makes the order usable without induction over the lists.
Ordered(L) ==
  /\ \A k \in L : ahead[k] \subseteq L
  /\ \A j, k \in L : j = k \/ j \in ahead[k] \/ k \in ahead[j]
  /\ \A S \in SUBSET L : S # {} => First(S) # {}

ListInv ==
  /\ active \cap waiting = {}
  /\ waiting \subseteq Flow
  /\ placed \subseteq active
  /\ Ordered(active) /\ Ordered(waiting)

LEMMA FirstUnique ==
  ASSUME NEW L, Ordered(L), NEW S \in SUBSET L
  PROVE  /\ First(S) \subseteq S
         /\ \A j, k \in First(S) : j = k
         /\ S # {} => First(S) # {}
  BY DEF Ordered, First

LEMMA Earliest ==
  ASSUME NEW L, Ordered(L), NEW S, S \cap L # {}
  PROVE  \E j \in S \cap L : ahead[j] \cap (S \cap L) = {}
<1>1. S \cap L \in SUBSET L
  OBVIOUS
<1>2. First(S \cap L) # {}
  BY <1>1 DEF Ordered
<1> QED  BY <1>2 DEF First

\* Adding an entry at the end of the active list, or of the waiting list.
LEMMA OrderedAdd ==
  ASSUME TypeOK, ListInv, NEW k \in Key \ Entry, NEW new, NEW late,
         \/ new = {k} /\ late = {}
         \/ new = {} /\ late = {k},
         Relist({}, {}, new, late)
  PROVE  Ordered(active)' /\ Ordered(waiting)'
<1>1. /\ active' = active \cup new /\ waiting' = waiting \cup late
      /\ \A j \in active : ahead'[j] = ahead[j]
      /\ \A j \in waiting : ahead'[j] = ahead[j]
      /\ new = {k} => ahead'[k] = active
      /\ late = {k} => ahead'[k] = waiting
  BY DEF Relist, TypeOK, Entry
<1>2. k \notin active /\ k \notin waiting
  BY DEF Entry
<1>3. ASSUME NEW L, NEW M, Ordered(L), k \notin L, \A j \in L : ahead'[j] = ahead[j],
             M = L \/ (M = L \cup {k} /\ ahead'[k] = L)
      PROVE  /\ \A j \in M : ahead'[j] \subseteq M
             /\ \A i, j \in M : i = j \/ i \in ahead'[j] \/ j \in ahead'[i]
             /\ \A S \in SUBSET M : S # {} => {j \in S : ahead'[j] \cap S = {}} # {}
  <2>1. /\ \A j \in M : ahead'[j] \subseteq M
        /\ \A i, j \in M : i = j \/ i \in ahead'[j] \/ j \in ahead'[i]
    BY <1>3 DEF Ordered
  <2>2. ASSUME NEW S \in SUBSET M, S # {} PROVE \E j \in S : ahead'[j] \cap S = {}
    <3>1. CASE S \cap L = {}
      BY <3>1, <2>2, <1>3
    <3>2. CASE S \cap L # {}
      <4>1. PICK j \in S \cap L : ahead[j] \cap (S \cap L) = {}
        BY <3>2, <1>3, Earliest
      <4> QED  BY <4>1, <1>3 DEF Ordered
    <3> QED  BY <3>1, <3>2
  <2> QED  BY <2>1, <2>2
<1>4. /\ active' = active \/ (active' = active \cup {k} /\ ahead'[k] = active)
      /\ waiting' = waiting \/ (waiting' = waiting \cup {k} /\ ahead'[k] = waiting)
  BY <1>1
<1>5. /\ \A j \in active' : ahead'[j] \subseteq active'
      /\ \A i, j \in active' : i = j \/ i \in ahead'[j] \/ j \in ahead'[i]
      /\ \A S \in SUBSET active' : S # {} => {j \in S : ahead'[j] \cap S = {}} # {}
  <2>1. Ordered(active)
    BY DEF ListInv
  <2>2. /\ k \notin active /\ \A j \in active : ahead'[j] = ahead[j]
        /\ active' = active \/ (active' = active \cup {k} /\ ahead'[k] = active)
    BY <1>1, <1>2, <1>4
  <2> QED  BY ONLY <2>1, <2>2, <1>3
<1>6. /\ \A j \in waiting' : ahead'[j] \subseteq waiting'
      /\ \A i, j \in waiting' : i = j \/ i \in ahead'[j] \/ j \in ahead'[i]
      /\ \A S \in SUBSET waiting' : S # {} => {j \in S : ahead'[j] \cap S = {}} # {}
  <2>1. Ordered(waiting)
    BY DEF ListInv
  <2>2. /\ k \notin waiting /\ \A j \in waiting : ahead'[j] = ahead[j]
        /\ waiting' = waiting \/ (waiting' = waiting \cup {k} /\ ahead'[k] = waiting)
    BY <1>1, <1>2, <1>4
  <2> QED  BY ONLY <2>1, <2>2, <1>3
<1> QED  BY <1>5, <1>6 DEF Ordered, First

\* Removing entries and moving some from the waiting to the active list.
LEMMA OrderedMove ==
  ASSUME TypeOK, ListInv, NEW gone, NEW up \in SUBSET waiting,
         Relist(gone, up, {}, {})
  PROVE  Ordered(active)' /\ Ordered(waiting)'
<1>1. /\ active' = (active \cup up) \ gone
      /\ waiting' = waiting \ (gone \cup up)
      /\ \A j \in active' \cap active : ahead'[j] = ahead[j] \ (gone \cup up)
      /\ \A j \in active' \cap up : ahead'[j] = (active \cup (ahead[j] \cap up)) \ gone
      /\ \A j \in waiting' : ahead'[j] = ahead[j] \ (gone \cup up)
  BY DEF Relist, TypeOK, ListInv
<1>2. active \cap waiting = {} /\ Ordered(active) /\ Ordered(waiting)
  BY DEF ListInv
<1>3. /\ \A j \in active' : ahead'[j] \subseteq active'
      /\ \A j \in waiting' : ahead'[j] \subseteq waiting'
  BY <1>1, <1>2 DEF Ordered
<1>4. /\ \A i, j \in active' : i = j \/ i \in ahead'[j] \/ j \in ahead'[i]
      /\ \A i, j \in waiting' : i = j \/ i \in ahead'[j] \/ j \in ahead'[i]
  BY <1>1, <1>2 DEF Ordered
<1>5. ASSUME NEW S \in SUBSET active', S # {} PROVE \E j \in S : ahead'[j] \cap S = {}
  <2>1. CASE S \cap active # {}
    <3>1. PICK j \in S \cap active : ahead[j] \cap (S \cap active) = {}
      BY <2>1, <1>2, Earliest
    <3> QED  BY <3>1, <1>1, <1>2 DEF Ordered
  <2>2. CASE S \cap active = {}
    <3>1. S \in SUBSET waiting
      BY <2>2, <1>1
    <3>2. PICK j \in S : ahead[j] \cap S = {}
      BY <3>1, <1>5, <1>2 DEF Ordered, First
    <3> QED  BY <3>2, <2>2, <1>1
  <2> QED  BY <2>1, <2>2
<1>6. ASSUME NEW S \in SUBSET waiting', S # {} PROVE \E j \in S : ahead'[j] \cap S = {}
  <2>1. PICK j \in S : ahead[j] \cap S = {}
    BY <1>6, <1>1, <1>2 DEF Ordered, First
  <2> QED  BY <2>1, <1>1
<1> QED  BY <1>3, <1>4, <1>5, <1>6 DEF Ordered, First

\* The lists stay well formed.
LEMMA ListIssue ==
  ASSUME TypeInv, ListInv, NEW k \in Key, Issue(k) PROVE ListInv'
<1>1. ASSUME UNCHANGED <<lists, placed>> PROVE ListInv'
  BY <1>1 DEF ListInv, Ordered, First, lists
<1>2. ASSUME NEW new, NEW late, NEW h, k \notin Entry, NewReq(k, new, late, h),
             \/ new = {k} /\ late = {} /\ placed' \subseteq placed \cup {k}
             \/ new = {} /\ late = {k} /\ k \in Flow /\ placed' = placed
      PROVE  ListInv'
  <2>1. Relist({}, {}, new, late) /\ TypeOK /\ k \in Key \ Entry
    BY <1>2 DEF NewReq, TypeInv
  <2>2. Ordered(active)' /\ Ordered(waiting)'
    BY <2>1, <1>2, OrderedAdd
  <2>3. active' = active \cup new /\ waiting' = waiting \cup late
    BY <2>1 DEF Relist
  <2> QED  BY <2>2, <2>3, <1>2 DEF ListInv, Entry
<1>3. CASE Share(k)
  BY <1>2, <1>3 DEF Share
<1>4. CASE Wait(k)
  BY <1>2, <1>4 DEF Wait, NotShared
<1>5. CASE Post(k)
  BY <1>2, <1>5 DEF Post, NotShared
<1> QED  BY <1>1, <1>3, <1>4, <1>5 DEF Issue, ReadBuffered, ReArm, PostRefused, marks

LEMMA ListCancel ==
  ASSUME TypeInv, ListInv, NEW k \in Key, Cancel(k) PROVE ListInv'
<1>1. CASE CancelUnplaced(k)
  BY <1>1, OrderedMove DEF CancelUnplaced, Relist, ListInv, TypeInv
<1>2. CASE CancelPlaced(k)
  BY <1>2 DEF CancelPlaced, ListInv, Ordered, First, lists
<1>3. CASE CancelPlacedRefused(k)
  BY <1>3, OrderedMove DEF CancelPlacedRefused, Relist, ListInv, TypeInv
<1> QED  BY <1>1, <1>2, <1>3 DEF Cancel

LEMMA ListLoseInterest ==
  ASSUME TypeInv, ListInv, NEW c, LoseInterest(c) PROVE ListInv'
<1> DEFINE gone == Flushed(c) \cup Dropped(c)
<1>1. Relist(gone, {}, {}, {}) /\ placed' = placed /\ gone \cap placed = {}
  BY DEF LoseInterest, Flushed, Dropped, ListInv
<1>2. Ordered(active)' /\ Ordered(waiting)'
  BY <1>1, OrderedMove DEF TypeInv
<1> QED  BY <1>1, <1>2 DEF Relist, ListInv

LEMMA ListConclude ==
  ASSUME TypeInv, ListInv, NEW gone \in SUBSET active, NEW next \in SUBSET (active \ gone),
         NEW w \in SUBSET waiting, NEW refused, NEW failed \in SUBSET w, NEW ended, NEW f,
         ConcludeWith(refused, failed, ended, gone, next, w, f)
  PROVE  ListInv'
<1> DEFINE dead == gone \cup failed
           up == UNION {Activated(k) : k \in w}
<1>1. w \subseteq up /\ up \in SUBSET waiting
  BY DEF Activated
<1>2. /\ Relist(dead, up, {}, {})
      /\ placed' = (placed \ dead) \cup next \cup (w \ failed)
  BY DEF ConcludeWith
<1> HIDE DEF up
<1>3. Ordered(active)' /\ Ordered(waiting)'
  BY <1>1, <1>2, OrderedMove DEF TypeInv
<1> QED  BY <1>1, <1>2, <1>3 DEF Relist, ListInv

\* The two ways a placed request k ends: with its sharers, or alone and followed by
\* one of them.
Ends(k, gone, next) ==
  /\ k \in active \cap placed
  /\ ConcludeReq(k, gone, next) /\ UNCHANGED hold
  /\ \/ gone = Sharers(k) \cup {k} /\ next = {}
     \/ gone = {k} /\ next = IF k \in Multi THEN FindThisReqByAnotherClient(k) ELSE {}

LEMMA ReqCompletedForm ==
  ASSUME NEW h, ReqCompleted(h), ~Notified(h)
  PROVE  \E k \in active \cap placed : \E gone, next : handle[k] = h /\ Ends(k, gone, next)
<1>1. CASE Answered(h)
  BY <1>1 DEF Answered, FindByTsyHandleAndPlacedRequest, First, Ends
<1>2. CASE Cancelled(h)
  BY <1>2 DEF Cancelled, FindByTsyHandleAndPlacedRequest, First, Ends
<1> QED  BY <1>1, <1>2 DEF ReqCompleted

LEMMA SameKind ==
  ASSUME NEW j \in Key, NEW k \in Key, j[2] = k[2]
  PROVE  /\ j \in Flow <=> k \in Flow
         /\ j \in Multi <=> k \in Multi
         /\ j \in Notify <=> k \in Notify
  BY DEF Key, Flow, Multi, Notify

LEMMA EndsForm ==
  ASSUME TypeInv, ListInv, NEW k, NEW gone, NEW next, Ends(k, gone, next)
  PROVE  /\ k \in gone /\ gone \in SUBSET active /\ next \in SUBSET (active \ gone)
         /\ \A j \in gone \cup next : Same(j, k)
         /\ \A i, j \in next : i = j
<1>1. k \in active
  BY DEF Ends
<1>2. CASE gone = Sharers(k) \cup {k} /\ next = {}
  BY <1>1, <1>2 DEF Sharers, Same
<1>3. CASE gone = {k} /\ next = IF k \in Multi THEN FindThisReqByAnotherClient(k) ELSE {}
  <2> DEFINE S == {j \in active : j[1] # k[1] /\ Same(j, k)}
  <2>1. next = {} \/ next = First(S)
    BY <1>3 DEF FindThisReqByAnotherClient
  <2>2. S \in SUBSET active /\ Ordered(active)
    BY DEF ListInv
  <2>3. First(S) \subseteq S /\ \A i, j \in First(S) : i = j
    BY <2>2, FirstUnique
  <2> QED  BY <1>1, <1>3, <2>1, <2>3 DEF Same
<1> QED  BY <1>2, <1>3 DEF Ends

\* What ReqCompleted's end passes to Conclude: the counter f and the head w of the
\* waiting list, of which the TSY turns down refused and failed.
EndsWith(k, gone, next, f, w, refused, failed) ==
  /\ f \in Nat /\ w \in SUBSET waiting
  /\ refused \in SUBSET next /\ failed \in SUBSET w
  /\ ConcludeWith(refused, failed, {handle[k]}, gone, next, w, f)
  /\ "resumed" \notin Refuses => failed = {}
  /\ "reposted" \notin Refuses => refused = {}
  /\ \A i, j \in w : i = j
  /\ k \in Flow => /\ flow > 0
                   /\ f = IF next = {} THEN flow - 1 ELSE flow
                   /\ w = Resumable(f)
  /\ k \notin Flow => f = flow /\ w = {}

LEMMA EndsConclude ==
  ASSUME TypeInv, ListInv, NEW k, NEW gone, NEW next, Ends(k, gone, next)
  PROVE  \E f, w, refused, failed : EndsWith(k, gone, next, f, w, refused, failed)
<1> DEFINE f == IF k \notin Flow THEN flow ELSE IF next = {} THEN flow - 1 ELSE flow
           w == IF k \in Flow THEN Resumable(f) ELSE {}
<1>1. Conclude({handle[k]}, gone, next, w, f) /\ (k \in Flow => flow > 0)
  BY DEF Ends, ConcludeReq
<1>2. f \in Nat
  BY <1>1 DEF TypeInv, TypeOK
<1>3. w \in SUBSET waiting /\ \A i, j \in w : i = j
  <2>1. Ordered(waiting) /\ waiting \in SUBSET waiting
    BY DEF ListInv
  <2>2. First(waiting) \subseteq waiting /\ \A i, j \in First(waiting) : i = j
    BY <2>1, FirstUnique
  <2> QED  BY <2>2 DEF Resumable
<1>4. PICK refused \in MayRefuse("reposted", next), failed \in MayRefuse("resumed", w) :
        ConcludeWith(refused, failed, {handle[k]}, gone, next, w, f)
  BY <1>1 DEF Conclude
<1>5. /\ refused \in SUBSET next /\ failed \in SUBSET w
      /\ "resumed" \notin Refuses => failed = {}
      /\ "reposted" \notin Refuses => refused = {}
  BY <1>4 DEF MayRefuse
<1>6. EndsWith(k, gone, next, f, w, refused, failed)
  BY <1>1, <1>2, <1>3, <1>4, <1>5 DEF EndsWith
<1> QED  BY <1>6

LEMMA ListStep == TypeInv /\ ListInv /\ [Next]_vars => ListInv'
<1> SUFFICES ASSUME TypeInv, ListInv, [Next]_vars PROVE ListInv'
  OBVIOUS
<1>1. ASSUME UNCHANGED <<lists, placed>> PROVE ListInv'
  BY <1>1 DEF ListInv, Ordered, First, lists
<1>2. ASSUME NEW h \in Handle, ReqCompleted(h) PROVE ListInv'
  <2>1. CASE Notified(h)
    BY <1>1, <2>1 DEF Notified
  <2>2. CASE ~Notified(h)
    <3>1. PICK k, gone, next : Ends(k, gone, next)
      BY <1>2, <2>2, ReqCompletedForm
    <3>2. PICK f, w, refused, failed : EndsWith(k, gone, next, f, w, refused, failed)
      BY <3>1, EndsConclude
    <3>3. gone \in SUBSET active /\ next \in SUBSET (active \ gone)
      BY <3>1, EndsForm
    <3> QED  BY <3>2, <3>3, ListConclude DEF EndsWith
  <2> QED  BY <2>1, <2>2
<1>3. CASE FlowControlResume
  <2>1. PICK w \in SUBSET waiting, failed \in SUBSET waiting, refused \in {{}} :
          /\ failed \in SUBSET w
          /\ ConcludeWith(refused, failed, {}, {}, {}, w, flow - 1)
    BY <1>3, ResumableType DEF FlowControlResume, Conclude, MayRefuse
  <2> QED  BY <2>1, ListConclude
<1>4. ASSUME NEW c \in Client,
             OpenSubSession(c) \/ CancelSubSession(c) \/ CloseSubSession(c)
      PROVE  ListInv'
  BY <1>1, <1>4, ListLoseInterest DEF OpenSubSession, CancelSubSession, CloseSubSession, marks
<1> QED  BY <1>1, <1>2, <1>3, <1>4, ListIssue, ListCancel
         DEF Next, FlowControlSuspend, vars, marks

-----------------------------------------------------------------------------
LEMMA ConcludeFlow ==
  ASSUME TypeInv, ListInv, NEW gone \in SUBSET active, NEW next \in SUBSET (active \ gone),
         NEW w \in SUBSET waiting, NEW refused, NEW failed \in SUBSET w, NEW ended,
         NEW f \in Nat, ConcludeWith(refused, failed, ended, gone, next, w, f),
         NEW held \in Nat, hold' = held, \A i, j \in w : i = j,
         NEW base, base = (placed \ gone) \cup next, \A i, j \in base \cap Flow : i = j,
         base \cap Flow = {} => f = held, base \cap Flow # {} => f = held + 1,
         f = 0 \/ w = {}
  PROVE  FlowCountExact'
<1>1. placed' = base \cup (w \ failed) /\ w \subseteq Flow
  BY DEF ConcludeWith, ListInv
<1>2. flow' = IF w \ failed = {} THEN f ELSE f + 1
  BY DEF ConcludeWith
<1>3. CASE w \ failed = {}
  BY <1>1, <1>2, <1>3 DEF FlowCountExact
<1>4. CASE w \ failed # {}
  <2>1. f = 0
    BY <1>4
  <2>2. held = 0 /\ base \cap Flow = {}
    BY <2>1
  <2>3. placed' \cap Flow = w \ failed
    BY <1>1, <2>2
  <2> QED  BY <2>1, <2>2, <2>3, <1>2, <1>4 DEF FlowCountExact
<1> QED  BY <1>3, <1>4

LEMMA ReqCompletedFlow ==
  ASSUME TypeInv, ListInv, FlowCountExact, NEW k, NEW gone, NEW next, Ends(k, gone, next)
  PROVE  FlowCountExact'
<1>1. PICK f, w, refused, failed : EndsWith(k, gone, next, f, w, refused, failed)
  BY EndsConclude
<1>2. /\ k \in gone /\ gone \in SUBSET active /\ next \in SUBSET (active \ gone)
      /\ \A j \in gone \cup next : Same(j, k)
      /\ \A i, j \in next : i = j
  BY EndsForm
<1>3. k \in active \cap placed /\ active \subseteq Key /\ hold' = hold /\ hold \in Nat
  BY HoldAssumption DEF Ends, TypeInv, TypeOK
<1>4. \A j \in gone \cup next : j \in Flow <=> k \in Flow
  BY <1>2, <1>3, SameKind DEF Same
<1> DEFINE base == (placed \ gone) \cup next
<1>5. /\ ConcludeWith(refused, failed, {handle[k]}, gone, next, w, f)
      /\ w \in SUBSET waiting /\ failed \in SUBSET w /\ f \in Nat
      /\ \A i, j \in w : i = j
  BY <1>1 DEF EndsWith
<1>6. ASSUME \A i, j \in base \cap Flow : i = j,
             base \cap Flow = {} => f = hold, base \cap Flow # {} => f = hold + 1,
             f = 0 \/ w = {}
      PROVE  FlowCountExact'
  <2> DEFINE b == base
  <2>1. b = (placed \ gone) \cup next
    OBVIOUS
  <2> HIDE DEF b
  <2> QED  BY <2>1, <1>2, <1>3, <1>5, <1>6, ConcludeFlow
<1>7. CASE k \in Flow
  <2>1. base \cap Flow = next
    BY <1>2, <1>3, <1>4, <1>7 DEF FlowCountExact
  <2>2. flow = hold + 1
    BY <1>3, <1>7 DEF FlowCountExact
  <2>3. /\ base \cap Flow = {} => f = hold
        /\ base \cap Flow # {} => f = hold + 1
        /\ f = 0 \/ w = {}
    BY <2>1, <2>2, <1>1, <1>3, <1>7 DEF EndsWith, Resumable
  <2>4. \A i, j \in base \cap Flow : i = j
    BY <2>1, <1>2
  <2> QED  BY <2>3, <2>4, <1>6
<1>8. CASE k \notin Flow
  <2>1. base \cap Flow = placed \cap Flow
    BY <1>2, <1>4, <1>8
  <2>2. /\ base \cap Flow = {} => f = hold
        /\ base \cap Flow # {} => f = hold + 1
        /\ w = {}
    BY <2>1, <1>1, <1>3, <1>8 DEF EndsWith, FlowCountExact
  <2>3. \A i, j \in base \cap Flow : i = j
    BY <2>1 DEF FlowCountExact
  <2> QED  BY <2>2, <2>3, <1>6
<1> QED  BY <1>7, <1>8

LEMMA IssueFlow ==
  ASSUME TypeInv, ListInv, FlowCountExact, NEW k \in Key, Issue(k) PROVE FlowCountExact'
<1>1. ASSUME UNCHANGED <<placed, flow, hold>> PROVE FlowCountExact'
  BY <1>1 DEF FlowCountExact
<1>2. CASE Post(k)
  <2>1. placed' = placed \cup {k} /\ hold' = hold
    BY <1>2 DEF Post, NewReq
  <2>2. CASE k \in Flow
    <3>1. flow = 0 /\ flow' = 1 /\ hold \in Nat
      BY <1>2, <2>2, HoldAssumption DEF Post, TypeInv, TypeOK
    <3>2. hold = 0 /\ placed \cap Flow = {}
      BY <3>1 DEF FlowCountExact
    <3> QED  BY <2>1, <2>2, <3>1, <3>2 DEF FlowCountExact
  <2>3. CASE k \notin Flow
    BY <1>2, <2>1, <2>3 DEF Post, FlowCountExact
  <2> QED  BY <2>2, <2>3
<1> QED  BY <1>1, <1>2 DEF Issue, ReadBuffered, ReArm, Share, Wait, PostRefused, NewReq,
                           marks, tsyVars

LEMMA FlowStep ==
  ~CancelRefused /\ TypeInv /\ ListInv /\ FlowCountExact /\ [Next]_vars => FlowCountExact'
<1> SUFFICES ASSUME ~CancelRefused, TypeInv, ListInv, FlowCountExact, [Next]_vars
             PROVE  FlowCountExact'
  OBVIOUS
<1>1. ASSUME UNCHANGED <<placed, flow, hold>> PROVE FlowCountExact'
  BY <1>1 DEF FlowCountExact
<1>2. ASSUME NEW k \in Key, Cancel(k) PROVE FlowCountExact'
  BY <1>1, <1>2 DEF Cancel, CancelUnplaced, CancelPlaced, CancelPlacedRefused, tsyVars
<1>3. ASSUME NEW c \in Client,
             OpenSubSession(c) \/ CancelSubSession(c) \/ CloseSubSession(c)
      PROVE  FlowCountExact'
  BY <1>1, <1>3 DEF OpenSubSession, CancelSubSession, CloseSubSession, LoseInterest,
                    marks, tsyVars
<1>4. ASSUME NEW h \in Handle, ReqCompleted(h) PROVE FlowCountExact'
  <2>1. CASE Notified(h)
    BY <1>1, <2>1 DEF Notified
  <2>2. CASE ~Notified(h)
    BY <1>4, <2>2, ReqCompletedForm, ReqCompletedFlow
  <2> QED  BY <2>1, <2>2
<1>5. CASE FlowControlSuspend
  BY <1>5, HoldAssumption
  DEF FlowControlSuspend, FlowCountExact, marks, TypeInv, TypeOK
<1>6. CASE FlowControlResume
  <2> DEFINE w == Resumable(flow - 1)
  <2>1. PICK refused, failed \in SUBSET w :
          ConcludeWith(refused, failed, {}, {}, {}, w, flow - 1)
    BY <1>6 DEF FlowControlResume, Conclude, MayRefuse
  <2>2. /\ w \in SUBSET waiting /\ \A i, j \in w : i = j
        /\ flow - 1 = 0 \/ w = {}
    <3>1. Ordered(waiting) /\ waiting \in SUBSET waiting
      BY DEF ListInv
    <3>2. First(waiting) \subseteq waiting /\ \A i, j \in First(waiting) : i = j
      BY <3>1, FirstUnique
    <3> QED  BY <3>2 DEF Resumable
  <2>3. /\ hold > 0 /\ flow > 0 /\ hold' = hold - 1
        /\ hold \in Nat /\ flow \in Nat
    BY <1>6, HoldAssumption DEF FlowControlResume, TypeInv, TypeOK
  <2>4. /\ flow - 1 \in Nat /\ hold - 1 \in Nat
        /\ placed \cap Flow = {} => flow - 1 = hold - 1
        /\ placed \cap Flow # {} => flow - 1 = (hold - 1) + 1
        /\ \A i, j \in placed \cap Flow : i = j
    BY <2>3 DEF FlowCountExact
  <2>5. placed = (placed \ {}) \cup {}
    OBVIOUS
  <2> HIDE DEF w
  <2>6. {} \in SUBSET active /\ {} \in SUBSET (active \ {})
    OBVIOUS
  <2> QED  BY <2>1, <2>2, <2>3, <2>4, <2>5, <2>6, ConcludeFlow
<1> QED  BY <1>1, <1>2, <1>3, <1>4, <1>5, <1>6, IssueFlow DEF Next, vars, marks, tsyVars

FlowInv == TypeInv /\ ListInv /\ FlowCountExact

LEMMA FlowInvariant == ASSUME ~CancelRefused PROVE Spec => []FlowInv
<1>1. Init => FlowInv
  BY InitType DEF Init, FlowInv, ListInv, Ordered, First, FlowCountExact
<1>2. FlowInv /\ [Next]_vars => FlowInv'
  BY TypeStep, ListStep, FlowStep DEF FlowInv
<1> QED  BY <1>1, <1>2, PTL DEF Spec

\* If the TSY accepts every cancellation, iFlowControlCnt is at all times the number
\* of its suspends plus one for the flow controlled request it has, of which there
\* is never more than one: every FlowControlInc meets its FlowControlDec, through
\* refusals, cancellations, re-posts to another client and closed sub-sessions.
THEOREM FlowCountCorrect == ASSUME ~CancelRefused PROVE Spec => []FlowCountExact
<1>1. FlowInv => FlowCountExact
  BY DEF FlowInv
<1> QED  BY <1>1, FlowInvariant, PTL

-----------------------------------------------------------------------------
\* f = 0 after a completion or a resume: the head of the waiting list is passed on.
LEMMA ConcludeWakes ==
  ASSUME "resumed" \notin Refuses, TypeInv, ListInv, NEW gone, NEW next, NEW ended,
         NEW f \in Nat, NEW w, NEW refused, NEW failed \in SUBSET w,
         ConcludeWith(refused, failed, ended, gone, next, w, f), failed = {},
         w = Resumable(f) \/ (f = flow /\ w = {}), waiting # {} => flow > 0
  PROVE  waiting' # {} => flow' > 0
<1>1. flow' = (IF w = {} THEN f ELSE f + 1) /\ waiting' \subseteq waiting
  BY DEF ConcludeWith, Relist
<1>2. CASE f > 0
  BY <1>1, <1>2
<1>3. CASE f = 0 /\ w = Resumable(f)
  <2>1. w = First(waiting)
    BY <1>3 DEF Resumable
  <2>2. waiting # {} => w # {}
    BY <2>1, FirstUnique DEF ListInv
  <2> QED  BY <1>1, <1>3, <2>2
<1>4. CASE f = flow /\ f = 0 /\ w = {}
  BY <1>1, <1>4
<1> QED  BY <1>2, <1>3, <1>4

LEMMA WaitingStep ==
  ASSUME "resumed" \notin Refuses
  PROVE  TypeInv /\ ListInv /\ WaitingMeansSuspended /\ [Next]_vars
         => WaitingMeansSuspended'
<1> SUFFICES ASSUME TypeInv, ListInv, WaitingMeansSuspended, [Next]_vars
             PROVE  WaitingMeansSuspended'
  OBVIOUS
<1>1. ASSUME waiting' \subseteq waiting, flow' = flow PROVE WaitingMeansSuspended'
  BY <1>1 DEF WaitingMeansSuspended
<1>2. ASSUME NEW k \in Key, Issue(k) PROVE WaitingMeansSuspended'
  <2>1. CASE ReadBuffered(k) \/ ReArm(k) \/ PostRefused(k)
    BY <2>1, <1>1 DEF ReadBuffered, ReArm, PostRefused, lists
  <2>2. CASE Share(k)
    BY <2>2 DEF Share, NewReq, Relist, FindByIpcAndTelObject, First, WaitingMeansSuspended
  <2>3. CASE Wait(k)
    BY <2>3 DEF Wait, WaitingMeansSuspended
  <2>4. CASE Post(k)
    BY <2>4 DEF Post, NewReq, Relist, WaitingMeansSuspended
  <2> QED  BY <1>2, <2>1, <2>2, <2>3, <2>4 DEF Issue
<1>3. ASSUME NEW k \in Key, Cancel(k) PROVE WaitingMeansSuspended'
  BY <1>1, <1>3 DEF Cancel, CancelUnplaced, CancelPlaced, CancelPlacedRefused, Relist, lists
<1>4. ASSUME NEW c \in Client,
             OpenSubSession(c) \/ CancelSubSession(c) \/ CloseSubSession(c)
      PROVE  WaitingMeansSuspended'
  BY <1>1, <1>4 DEF OpenSubSession, CancelSubSession, CloseSubSession, LoseInterest,
                    Relist, lists
<1>5. ASSUME NEW h \in Handle, ReqCompleted(h) PROVE WaitingMeansSuspended'
  <2>1. CASE Notified(h)
    BY <2>1, <1>1 DEF Notified, lists
  <2>2. CASE ~Notified(h)
    <3>1. PICK k, gone, next : Ends(k, gone, next)
      BY <1>5, <2>2, ReqCompletedForm
    <3>2. PICK f, w, refused, failed : EndsWith(k, gone, next, f, w, refused, failed)
      BY <3>1, EndsConclude
    <3> DEFINE ended == {handle[k]}
    <3>3. /\ f \in Nat /\ failed = {} /\ failed \in SUBSET w
          /\ ConcludeWith(refused, failed, ended, gone, next, w, f)
          /\ w = Resumable(f) \/ (f = flow /\ w = {})
      BY <3>2 DEF EndsWith
    <3> HIDE DEF ended
    <3>4. waiting # {} => flow > 0
      BY DEF WaitingMeansSuspended
    <3>5. waiting' # {} => flow' > 0
      BY <3>3, <3>4, ConcludeWakes
    <3> QED  BY <3>5 DEF WaitingMeansSuspended
  <2> QED  BY <2>1, <2>2
<1>6. CASE FlowControlSuspend
  BY <1>6 DEF FlowControlSuspend, WaitingMeansSuspended, TypeInv, TypeOK
<1>7. CASE FlowControlResume
  <2>1. PICK refused, failed :
          /\ failed = {} /\ failed \in SUBSET Resumable(flow - 1)
          /\ ConcludeWith(refused, failed, {}, {}, {}, Resumable(flow - 1), flow - 1)
    BY <1>7 DEF FlowControlResume, Conclude, MayRefuse
  <2>2. flow - 1 \in Nat
    BY <1>7 DEF FlowControlResume, TypeInv, TypeOK
  <2> QED  BY <2>1, <2>2, ConcludeWakes DEF WaitingMeansSuspended
<1> QED  BY <1>1, <1>2, <1>3, <1>4, <1>5, <1>6, <1>7 DEF Next, vars, lists

\* If the TSY accepts the requests that waited for it, no wake-up is lost: a request
\* waits only while the flow is suspended, by a request or by the TSY itself.
THEOREM NoLostWakeUp ==
  ASSUME "resumed" \notin Refuses PROVE Spec => []WaitingMeansSuspended
<1> DEFINE I == TypeInv /\ ListInv /\ WaitingMeansSuspended
<1>1. Init => I
  BY InitType DEF Init, ListInv, Ordered, First, WaitingMeansSuspended
<1>2. I /\ [Next]_vars => I'
  BY TypeStep, ListStep, WaitingStep
<1>3. I => WaitingMeansSuspended
  OBVIOUS
<1> QED  BY <1>1, <1>2, <1>3, PTL DEF Spec

\* What a step passes to the TSY besides a client's request is the head of the waiting
\* list, or an entry that was active already.
LEMMA ConcludeOrder ==
  ASSUME NEW gone, NEW next \in SUBSET active, NEW ended, NEW f, NEW w, NEW refused,
         NEW failed, ConcludeWith(refused, failed, ended, gone, next, w, f),
         w \in {{}, Resumable(f)}
  PROVE  \A k \in placed' \ placed : k \in active \/ k \in First(waiting)
<1>1. placed' \subseteq placed \cup next \cup w /\ w \subseteq First(waiting)
  BY DEF ConcludeWith, Resumable
<1> QED  BY <1>1

LEMMA OrderStep ==
  TypeInv /\ ListInv /\ WaitingMeansSuspended /\ [Next]_vars =>
    \A k \in (placed' \ placed) \cap Flow :
      waiting = {} \/ k \in First(waiting) \/ k \in active
<1> SUFFICES ASSUME TypeInv, ListInv, WaitingMeansSuspended, [Next]_vars,
                    NEW k \in (placed' \ placed) \cap Flow
             PROVE  waiting = {} \/ k \in First(waiting) \/ k \in active
  OBVIOUS
<1>1. ASSUME NEW j \in Key, Issue(j) PROVE waiting = {}
  <2>1. Post(j) /\ j \in Flow
    BY <1>1 DEF Issue, ReadBuffered, ReArm, Share, Wait, Post, PostRefused, marks
  <2> QED  BY <2>1 DEF Post, WaitingMeansSuspended
<1>2. ASSUME NEW h \in Handle, ReqCompleted(h) PROVE k \in active \/ k \in First(waiting)
  <2>1. ~Notified(h)
    BY DEF Notified
  <2>2. PICK j, gone, next : Ends(j, gone, next)
    BY <1>2, <2>1, ReqCompletedForm
  <2>3. PICK f, w, refused, failed : EndsWith(j, gone, next, f, w, refused, failed)
    BY <2>2, EndsConclude
  <2> DEFINE ended == {handle[j]}
  <2>4. /\ ConcludeWith(refused, failed, ended, gone, next, w, f)
        /\ w \in {{}, Resumable(f)} /\ next \in SUBSET active
    BY <2>2, <2>3, EndsForm DEF EndsWith
  <2> HIDE DEF ended
  <2> QED  BY <2>4, ConcludeOrder
<1>3. CASE FlowControlResume
  <2> DEFINE w == Resumable(flow - 1)
             f == flow - 1
             none == {}
  <2>1. PICK refused, failed : ConcludeWith(refused, failed, none, none, none, w, f)
    BY <1>3 DEF FlowControlResume, Conclude
  <2>2. w \in {{}, Resumable(f)} /\ none \in SUBSET active
    OBVIOUS
  <2> HIDE DEF w, f, none
  <2> QED  BY <2>1, <2>2, ConcludeOrder
<1> QED  BY <1>1, <1>2, <1>3
         DEF Next, vars, marks, Cancel, CancelUnplaced, CancelPlaced, CancelPlacedRefused,
             OpenSubSession, CancelSubSession, CloseSubSession, LoseInterest,
             FlowControlSuspend

\* If the TSY accepts the requests that waited for it, flow controlled requests reach
\* it in the order they came.
THEOREM FirstComeFirstServed ==
  ASSUME "resumed" \notin Refuses PROVE Spec => NoOvertaking
<1> DEFINE I == TypeInv /\ ListInv /\ WaitingMeansSuspended
<1>1. Init => I
  BY InitType DEF Init, ListInv, Ordered, First, WaitingMeansSuspended
<1>2. I /\ [Next]_vars => I'
  BY TypeStep, ListStep, WaitingStep
<1>3. I /\ [Next]_vars =>
        [\A k \in (placed' \ placed) \cap Flow :
           waiting = {} \/ k \in First(waiting) \/ k \in active]_vars
  BY OrderStep
<1> QED  BY <1>1, <1>2, <1>3, PTL DEF Spec, NoOvertaking

-----------------------------------------------------------------------------
\* What the clients wait for, entry by entry.
AccountInv ==
  /\ EveryRequestAccountedFor
  /\ nulled \subseteq active \cap Notify

LEMMA AccountIssue ==
  ASSUME TypeInv, ListInv, AccountInv, NEW k \in Key, Issue(k) PROVE AccountInv'
<1> USE DEF AccountInv, EveryRequestAccountedFor, Entry
<1>1. CASE ReadBuffered(k)  BY <1>1 DEF ReadBuffered, lists
<1>2. CASE ReArm(k)  BY <1>2 DEF ReArm, lists
<1>3. ASSUME k \notin Entry, NEW new, NEW late, NEW h,
             new \cup late = {k}, NewReq(k, new, late, h)
      PROVE  AccountInv'
  BY <1>3 DEF NewReq, Relist
<1>4. CASE Share(k)  BY <1>4, <1>3 DEF Share
<1>5. CASE Wait(k)  BY <1>5, <1>3 DEF Wait, NotShared
<1>6. CASE Post(k)  BY <1>6, <1>3 DEF Post, NotShared
<1>7. CASE PostRefused(k)  BY <1>7 DEF PostRefused, lists, marks
<1> QED  BY <1>1, <1>2, <1>4, <1>5, <1>6, <1>7 DEF Issue

LEMMA AccountCancel ==
  ASSUME TypeInv, ListInv, AccountInv, NEW k \in Key, Cancel(k) PROVE AccountInv'
<1> USE DEF AccountInv, EveryRequestAccountedFor, Entry, ListInv
<1>1. CASE CancelUnplaced(k)  BY <1>1 DEF CancelUnplaced, Relist, Unmark
<1>2. CASE CancelPlaced(k)  BY <1>2 DEF CancelPlaced, lists
<1>3. CASE CancelPlacedRefused(k)  BY <1>3 DEF CancelPlacedRefused, Relist, Unmark
<1> QED  BY <1>1, <1>2, <1>3 DEF Cancel

LEMMA AccountSubSession ==
  ASSUME ~CancelsSubSession, TypeInv, ListInv, AccountInv, NEW c \in Client,
         OpenSubSession(c) \/ CancelSubSession(c) \/ CloseSubSession(c)
  PROVE  AccountInv'
<1> USE DEF AccountInv, EveryRequestAccountedFor, Entry
<1>1. CASE OpenSubSession(c)  BY <1>1 DEF OpenSubSession, lists, marks
<1>2. CASE CloseSubSession(c)
  <2> DEFINE gone == Flushed(c) \cup Dropped(c)
  <2>1. /\ open' = open \ {c} /\ outstanding' = outstanding
        /\ active' = active \ gone /\ waiting' = waiting \ gone
        /\ interested' = interested \ (Mine(c) \cup gone)
        /\ nulled' = nulled \ gone
    BY <1>2 DEF CloseSubSession, LoseInterest, Relist
  <2>2. \A k \in gone \cup Mine(c) : k[1] = c
    BY DEF Flushed, Dropped, Mine
  <2> QED  BY <2>1, <2>2
<1> QED  BY <1>1, <1>2 DEF CancelSubSession

LEMMA AccountConclude ==
  ASSUME TypeInv, ListInv, AccountInv, NEW ended, NEW gone, NEW next, NEW w \in SUBSET waiting,
         NEW f, Conclude(ended, gone, next, w, f)
  PROVE  AccountInv'
<1>1. PICK dead, up :
        /\ up \subseteq waiting /\ Relist(dead, up, {}, {}) /\ Unmark(dead)
        /\ outstanding' = outstanding \ ((dead \cap interested) \ nulled)
        /\ nulled' = nulled \ dead
        /\ UNCHANGED open
  BY DEF Conclude, ConcludeWith, Activated
<1>2. /\ active' = (active \ dead) \cup (up \ dead) /\ Entry' = Entry \ dead
      /\ interested' = interested \ dead
  BY <1>1 DEF Relist, Unmark, Entry
<1> QED  BY <1>1, <1>2 DEF AccountInv, EveryRequestAccountedFor

LEMMA AccountReqCompleted ==
  ASSUME TypeInv, ListInv, AccountInv, NEW h \in Handle, ReqCompleted(h)
  PROVE  AccountInv'
<1>1. CASE Notified(h)
  <2>1. PICK k \in active \cap Notify :
          /\ outstanding' = outstanding \ (((Sharers(k) \cup {k}) \cap interested) \ nulled)
          /\ nulled' = nulled \cup (Sharers(k) \cup {k})
          /\ UNCHANGED <<open, lists, interested>>
    BY <1>1 DEF Notified, FindByTsyHandleAndPlacedRequest, First
  <2>2. Sharers(k) \cup {k} \subseteq active \cap Notify
    BY <2>1, SameKind DEF Sharers, Same, TypeInv, TypeOK
  <2>3. nulled' \subseteq active \cap Notify
    BY <2>1, <2>2 DEF AccountInv
  <2> QED  BY <2>1, <2>2, <2>3 DEF AccountInv, EveryRequestAccountedFor, Entry, lists
<1>2. ASSUME NEW k \in Key, NEW gone, NEW next, ConcludeReq(k, gone, next)
      PROVE  AccountInv'
  BY <1>2, ConcludeReqForm, AccountConclude
<1>3. CASE Answered(h)
  BY <1>2, <1>3 DEF Answered, FindByTsyHandleAndPlacedRequest, First, TypeInv, TypeOK
<1>4. CASE Cancelled(h)
  BY <1>2, <1>4 DEF Cancelled, FindByTsyHandleAndPlacedRequest, First, TypeInv, TypeOK
<1> QED  BY <1>1, <1>3, <1>4 DEF ReqCompleted

LEMMA AccountStep ==
  ASSUME ~CancelsSubSession
  PROVE  TypeInv /\ ListInv /\ AccountInv /\ [Next]_vars => AccountInv'
<1> SUFFICES ASSUME TypeInv, ListInv, AccountInv, [Next]_vars PROVE AccountInv'
  OBVIOUS
<1>1. ASSUME UNCHANGED <<open, lists, nulled, interested, outstanding>> PROVE AccountInv'
  BY <1>1 DEF AccountInv, EveryRequestAccountedFor, Entry, lists
<1>2. CASE FlowControlResume
  <2>1. Resumable(flow - 1) \in SUBSET waiting
    BY ResumableType
  <2> QED  BY <2>1, <1>2, AccountConclude DEF FlowControlResume
<1> QED  BY <1>1, <1>2, AccountIssue, AccountCancel, AccountSubSession, AccountReqCompleted
         DEF Next, FlowControlSuspend, vars, marks

\* If clients do not call CancelSubSession, no request of an open sub-session is ever
\* lost, answered twice or left without an entry, however its requests are shared,
\* queued, refused, cancelled, re-posted and completed.
THEOREM RequestsAccountedFor ==
  ASSUME ~CancelsSubSession PROVE Spec => []EveryRequestAccountedFor
<1> DEFINE I == TypeInv /\ ListInv /\ AccountInv
<1>1. Init => I
  BY InitType
  DEF Init, ListInv, Ordered, First, AccountInv, EveryRequestAccountedFor, Entry
<1>2. I /\ [Next]_vars => I'
  BY TypeStep, ListStep, AccountStep
<1>3. I => EveryRequestAccountedFor
  BY DEF AccountInv
<1> QED  BY <1>1, <1>2, <1>3, PTL DEF Spec
=============================================================================
