------------------------- MODULE EtelCarrierProofs --------------------------
(***************************************************************************)
(* Proofs about EtelRequests: which request of the TSY carries which       *)
(* entries of the server's lists, and that EtelRequests implements         *)
(* TsyContract.                                                            *)
(***************************************************************************)
EXTENDS EtelRequestsProofs

\* Entries that share one request of the TSY.
Kin(j, k) == j \in Multi /\ Same(j, k)

\* One handle for one entry or for one set of kin; kin are in the same list; the
\* TSY has one of them; what the TSY has is placed, and the other way round.
CarrierInv ==
  /\ \A j, k \in Entry : handle[j] = handle[k] => j = k \/ Kin(j, k)
  /\ \A j, k \in Entry : Kin(j, k) => /\ handle[j] = handle[k]
                                      /\ j \in active <=> k \in active
  /\ \A j, k \in placed : handle[j] = handle[k] => j = k
  /\ \A k \in active \ placed : \E p \in placed : Kin(p, k)
  /\ \A h \in tsy : \E p \in placed : handle[p] = h
  /\ "reposted" \notin Refuses => \A p \in placed : handle[p] \in tsy

LEMMA KinEquivalence ==
  /\ \A j, k \in Key : Kin(j, k) => Kin(k, j)
  /\ \A i, j, k \in Key : Kin(i, j) /\ Kin(j, k) => Kin(i, k)
  BY SameKind DEF Kin, Same

\* A new entry that shares the handle of its kin p, or has a fresh one.
LEMMA CarrierAdd ==
  ASSUME TypeInv, ListInv, CarrierInv, NEW k \in Key \ Entry, NEW new, NEW late, NEW h,
         \/ new = {k} /\ late = {}
         \/ new = {} /\ late = {k},
         NewReq(k, new, late, h),
         placed' \in {placed, placed \cup new},
         tsy' = tsy \cup {handle'[j] : j \in placed' \ placed},
         \/ /\ placed' = placed
            /\ \E p \in Entry : Kin(p, k) /\ handle[p] = h /\ (p \in active <=> k \in new)
         \/ /\ new \subseteq placed' /\ h \in Fresh
            /\ \A j \in Entry : ~Kin(j, k)
  PROVE  CarrierInv'
<1>1. /\ active' = active \cup new /\ waiting' = waiting \cup late
      /\ handle' = [handle EXCEPT ![k] = h]
  BY DEF NewReq, Relist
<1>2. /\ k \notin active /\ k \notin waiting /\ k \notin placed
      /\ placed \subseteq active /\ Entry \subseteq Key
      /\ active \cap waiting = {}
      /\ Entry' = Entry \cup {k}
      /\ handle'[k] = h
      /\ \A j \in Entry : handle'[j] = handle[j]
  BY <1>1 DEF Entry, ListInv, TypeInv, TypeOK
<1>3. CASE /\ placed' = placed
           /\ \E p \in Entry : Kin(p, k) /\ handle[p] = h /\ (p \in active <=> k \in new)
  <2>1. PICK p \in Entry : Kin(p, k) /\ handle[p] = h /\ (p \in active <=> k \in new)
    BY <1>3
  <2>2. /\ Kin(k, p) /\ Kin(k, k)
        /\ \A j \in Entry : (Kin(j, k) <=> Kin(j, p)) /\ (Kin(k, j) <=> Kin(p, j))
    BY <2>1, <1>2, KinEquivalence
  <2>3. tsy' = tsy
    BY <1>3
  <2>4. \A i, j \in Entry' : handle'[i] = handle'[j] => i = j \/ Kin(i, j)
    BY <2>1, <2>2, <1>2, KinEquivalence DEF CarrierInv
  <2>5. \A i, j \in Entry' : Kin(i, j) => /\ handle'[i] = handle'[j]
                                          /\ i \in active' <=> j \in active'
    BY <2>1, <2>2, <1>1, <1>2 DEF CarrierInv
  <2>6. \A i \in active' \ placed' : \E q \in placed' : Kin(q, i)
    BY <2>1, <2>2, <1>1, <1>2, <1>3, KinEquivalence DEF CarrierInv, Entry
  <2> QED  BY <2>3, <2>4, <2>5, <2>6, <1>2, <1>3 DEF CarrierInv, Entry, ListInv
<1>4. CASE /\ new \subseteq placed' /\ h \in Fresh
           /\ \A j \in Entry : ~Kin(j, k)
  <2>1. /\ h \notin tsy /\ \A j \in Entry : handle[j] # h
        /\ \A j \in Entry : ~Kin(j, k) /\ ~Kin(k, j)
    BY <1>2, <1>4, KinEquivalence DEF Fresh
  <2>2. \A i, j \in Entry' : handle'[i] = handle'[j] => i = j \/ Kin(i, j)
    BY <2>1, <1>2 DEF CarrierInv
  <2>3. \A i, j \in Entry' : Kin(i, j) => /\ handle'[i] = handle'[j]
                                          /\ i \in active' <=> j \in active'
    BY <2>1, <1>1, <1>2 DEF CarrierInv
  <2>4. \A i, j \in placed' : handle'[i] = handle'[j] => i = j
    BY <2>1, <1>1, <1>2 DEF CarrierInv, Entry
  <2>5. \A i \in active' \ placed' : \E q \in placed' : Kin(q, i)
    BY <1>1, <1>4 DEF CarrierInv
  <2>6. \A g \in tsy' : \E q \in placed' : handle'[q] = g
    BY <1>2 DEF CarrierInv, Entry
  <2>7. "reposted" \notin Refuses => \A q \in placed' : handle'[q] \in tsy'
    BY <1>2 DEF CarrierInv, Entry
  <2> QED  BY <2>2, <2>3, <2>4, <2>5, <2>6, <2>7 DEF CarrierInv
<1> QED  BY <1>3, <1>4

LEMMA CarrierIssue ==
  ASSUME TypeInv, ListInv, CarrierInv, NEW k \in Key, Issue(k) PROVE CarrierInv'
<1>1. ASSUME UNCHANGED <<lists, placed, handle, tsy>> PROVE CarrierInv'
  BY <1>1 DEF CarrierInv, Entry, lists
<1>2. CASE Share(k)
  <2>1. k \in Key \ Entry /\ k \in Multi /\ placed' = placed
        /\ tsy' = tsy \cup {handle'[j] : j \in placed' \ placed}
    BY <1>2 DEF Share
  <2>2. \A p \in Key : Same(p, k) => Kin(p, k)
    BY <2>1, SameKind DEF Kin, Same
  <2>3. CASE \E p \in FindByIpcAndTelObject(k, active) : NewReq(k, {k}, {}, handle[p])
    <3>1. PICK p \in FindByIpcAndTelObject(k, active) : NewReq(k, {k}, {}, handle[p])
      BY <2>3
    <3>2. p \in active /\ Kin(p, k) /\ p \in Entry
      BY <3>1, <2>2 DEF FindByIpcAndTelObject, First, Entry, TypeInv, TypeOK
    <3> QED  BY <2>1, <3>1, <3>2, CarrierAdd
  <2>4. CASE \E p \in FindByIpcAndTelObject(k, waiting) : NewReq(k, {}, {k}, handle[p])
    <3>1. PICK p \in FindByIpcAndTelObject(k, waiting) : NewReq(k, {}, {k}, handle[p])
      BY <2>4
    <3>2. p \in waiting /\ Kin(p, k) /\ p \in Entry /\ p \notin active
      BY <3>1, <2>2 DEF FindByIpcAndTelObject, First, Entry, TypeInv, TypeOK, ListInv
    <3> QED  BY <2>1, <3>1, <3>2, CarrierAdd
  <2> QED  BY <1>2, <2>3, <2>4 DEF Share
<1>3. ASSUME NotShared(k)
      PROVE  TsyReqHandle \in Fresh /\ k \in Key \ Entry /\ \A j \in Entry : ~Kin(j, k)
  <2>1. TsyReqHandle \in Fresh /\ k \in Key \ Entry
    BY <1>3 DEF NotShared, TsyReqHandle
  <2>2. ASSUME NEW j \in Entry, Kin(j, k) PROVE FALSE
    <3>1. k \in Multi
      BY <2>2, SameKind DEF Kin, Same, Entry, TypeInv, TypeOK
    <3>2. /\ FindByIpcAndTelObject(k, active) = {}
          /\ FindByIpcAndTelObject(k, waiting) = {}
      BY <3>1, <1>3 DEF NotShared
    <3> DEFINE A == {i \in active : Same(i, k)}
               W == {i \in waiting : Same(i, k)}
    <3>3. A \in SUBSET active /\ W \in SUBSET waiting /\ Ordered(active) /\ Ordered(waiting)
      BY DEF ListInv
    <3>4. First(A) = {} /\ First(W) = {}
      BY <3>2 DEF FindByIpcAndTelObject
    <3>5. j \in A \/ j \in W
      BY <2>2 DEF Entry, Kin
    <3> HIDE DEF A, W
    <3>6. A = {} /\ W = {}
      BY <3>3, <3>4, FirstUnique
    <3> QED  BY <3>5, <3>6
  <2> QED  BY <2>1, <2>2
<1>4. CASE Wait(k)
  <2>1. /\ NotShared(k) /\ NewReq(k, {}, {k}, TsyReqHandle) /\ placed' = placed
        /\ tsy' = tsy \cup {handle'[j] : j \in placed' \ placed}
    BY <1>4 DEF Wait
  <2> QED  BY <2>1, <1>3, CarrierAdd
<1>5. CASE Post(k)
  <2>1. /\ NotShared(k) /\ NewReq(k, {k}, {}, TsyReqHandle)
        /\ placed' = placed \cup {k} /\ tsy' = tsy \cup {TsyReqHandle}
    BY <1>5 DEF Post
  <2>2. k \notin placed /\ handle'[k] = TsyReqHandle
    BY <2>1, <1>3 DEF NewReq, ListInv, Entry, TypeInv, TypeOK
  <2>3. tsy' = tsy \cup {handle'[j] : j \in placed' \ placed}
    BY <2>1, <2>2
  <2> QED  BY <2>1, <2>3, <1>3, CarrierAdd
<1> QED  BY <1>1, <1>2, <1>4, <1>5 DEF Issue, ReadBuffered, ReArm, PostRefused, marks, tsyVars

\* Entries that the TSY has not got are destroyed.
LEMMA CarrierDrop ==
  ASSUME ListInv, CarrierInv, NEW gone, Relist(gone, {}, {}, {}), gone \cap placed = {},
         UNCHANGED <<placed, tsy>>, \A k \in Entry \ gone : handle'[k] = handle[k]
  PROVE  CarrierInv'
<1>1. /\ active' = active \ gone /\ waiting' = waiting \ gone /\ Entry' = Entry \ gone
      /\ placed \subseteq Entry \ gone
  BY DEF Relist, Entry, ListInv
<1>2. /\ \A j, k \in Entry' : handle'[j] = handle'[k] => j = k \/ Kin(j, k)
      /\ \A j, k \in Entry' : Kin(j, k) => /\ handle'[j] = handle'[k]
                                           /\ j \in active' <=> k \in active'
  BY <1>1 DEF CarrierInv
<1>3. /\ \A j, k \in placed' : handle'[j] = handle'[k] => j = k
      /\ \A k \in active' \ placed' : \E p \in placed' : Kin(p, k)
  BY <1>1 DEF CarrierInv
<1>4. /\ \A h \in tsy' : \E p \in placed' : handle'[p] = h
      /\ "reposted" \notin Refuses => \A p \in placed' : handle'[p] \in tsy'
  BY <1>1 DEF CarrierInv
<1> QED  BY <1>2, <1>3, <1>4 DEF CarrierInv

LEMMA CarrierCancel ==
  ASSUME ~CancelRefused, TypeInv, ListInv, CarrierInv, NEW k \in Key, Cancel(k)
  PROVE  CarrierInv'
<1>1. CASE CancelUnplaced(k)
  <2>1. /\ Relist({k}, {}, {}, {}) /\ {k} \cap placed = {}
        /\ UNCHANGED <<placed, tsy>>
        /\ \A j \in Entry \ {k} : handle'[j] = handle[j]
    BY <1>1 DEF CancelUnplaced, Unmark, tsyVars, ListInv, TypeInv, TypeOK, Entry
  <2> QED  BY <2>1, CarrierDrop
<1>2. CASE CancelPlaced(k)
  BY <1>2 DEF CancelPlaced, CarrierInv, Entry, lists
<1> QED  BY <1>1, <1>2 DEF Cancel, CancelPlacedRefused

LEMMA CarrierLoseInterest ==
  ASSUME TypeInv, ListInv, CarrierInv, NEW c, LoseInterest(c) PROVE CarrierInv'
<1> DEFINE gone == Flushed(c) \cup Dropped(c)
<1>1. /\ Relist(gone, {}, {}, {}) /\ gone \cap placed = {}
      /\ UNCHANGED <<placed, tsy>>
      /\ \A k \in Entry \ gone : handle'[k] = handle[k]
  BY DEF LoseInterest, Flushed, Dropped, ListInv, TypeInv, TypeOK, Entry
<1> QED  BY <1>1, CarrierDrop

\* The entries of gone are completed; next and w are passed to the TSY.
LEMMA CarrierConclude ==
  ASSUME TypeInv, ListInv, CarrierInv, NEW gone \in SUBSET active,
         NEW next \in SUBSET (active \ gone), NEW w \in SUBSET waiting,
         NEW refused \in SUBSET next, NEW ended, NEW f,
         ConcludeWith(refused, {}, ended, gone, next, w, f),
         \A i, j \in w : i = j, \A i, j \in next : i = j,
         ended = {handle[p] : p \in gone \cap placed},
         \A n \in next : \E p \in gone \cap placed : Kin(p, n),
         \A k \in active \ gone : (\E p \in gone \cap placed : Kin(p, k))
                                  => \E n \in next : n = k \/ Kin(n, k),
         "reposted" \notin Refuses => refused = {}
  PROVE  CarrierInv'
<1> DEFINE up == UNION {Activated(k) : k \in w}
<1>1. /\ active' = (active \ gone) \cup up /\ waiting' = waiting \ up
      /\ placed' = (placed \ gone) \cup next \cup w
      /\ tsy' = (tsy \ ended) \cup {handle[k] : k \in (next \ refused) \cup w}
  <2>1. up \subseteq waiting
    BY DEF Activated
  <2>2. /\ Relist(gone, up, {}, {}) /\ placed' = (placed \ gone) \cup next \cup w
        /\ tsy' = (tsy \ ended) \cup {handle[k] : k \in (next \ refused) \cup w}
    BY DEF ConcludeWith
  <2> HIDE DEF up
  <2> QED  BY <2>1, <2>2 DEF Relist, ListInv
<1>2. /\ active \cap waiting = {} /\ placed \subseteq active
      /\ active \subseteq Key /\ waiting \subseteq Key
  BY DEF ListInv, TypeInv, TypeOK
<1>3. /\ w \subseteq up /\ up \subseteq waiting
      /\ \A k \in up : k \in w \/ \E v \in w : v \in Multi /\ handle[k] = handle[v]
      /\ \A v \in w : \A k \in waiting : v \in Multi /\ handle[k] = handle[v] => k \in up
  BY DEF Activated
<1>4. \A k \in Entry \ gone : handle'[k] = handle[k]
  BY <1>2 DEF ConcludeWith, Unmark, Entry
<1> HIDE DEF up
<1>5. Entry' = Entry \ gone /\ placed' \subseteq Entry \ gone
  BY <1>1, <1>2, <1>3 DEF Entry
<1>6. \A j, k \in waiting : Kin(j, k) /\ j \in up => k \in up
  BY <1>3, <1>2 DEF CarrierInv, Entry, Kin
<1>7. \A j, k \in Entry' : handle'[j] = handle'[k] => j = k \/ Kin(j, k)
  BY <1>4, <1>5 DEF CarrierInv
<1>8. \A j, k \in Entry' : Kin(j, k) => /\ handle'[j] = handle'[k]
                                        /\ j \in active' <=> k \in active'
  <2>1. \A j, k \in Entry : Kin(j, k) => Kin(k, j)
    BY <1>2, KinEquivalence DEF Entry
  <2> QED  BY <2>1, <1>1, <1>2, <1>3, <1>4, <1>5, <1>6 DEF CarrierInv, Entry
<1>9. \A j, k \in placed' : handle[j] = handle[k] => j = k
  <2>1. \A j \in w, k \in active : handle[j] # handle[k]
    BY <1>2 DEF CarrierInv, Entry
  <2>2. \A n \in next, k \in placed \ gone : handle[n] # handle[k]
    BY <1>2 DEF CarrierInv, Entry
  <2> QED  BY <2>1, <2>2, <1>1, <1>2 DEF CarrierInv
<1>10. \A k \in active' \ placed' : \E p \in placed' : Kin(p, k)
  <2>1. ASSUME NEW k \in up, k \notin placed' PROVE \E p \in placed' : Kin(p, k)
    BY <2>1, <1>1, <1>2, <1>3, KinEquivalence DEF CarrierInv, Entry
  <2>2. ASSUME NEW k \in active \ gone, k \notin placed'
        PROVE  \E p \in placed' : Kin(p, k)
    BY <2>2, <1>1 DEF CarrierInv
  <2> QED  BY <2>1, <2>2, <1>1
<1>11. \A h \in tsy' : \E p \in placed' : handle[p] = h
  BY <1>1, <1>2 DEF CarrierInv
<1>12. "reposted" \notin Refuses => \A p \in placed' : handle[p] \in tsy'
  BY <1>1, <1>2 DEF CarrierInv
<1>13. \A k \in placed' : handle'[k] = handle[k]
  BY <1>4, <1>5
<1> QED  BY <1>7, <1>8, <1>9, <1>10, <1>11, <1>12, <1>13 DEF CarrierInv

\* Of the entries that end one was the TSY's, and the one posted in its place is kin.
LEMMA EndsOne ==
  ASSUME TypeInv, ListInv, CarrierInv, NEW k, NEW gone, NEW next, Ends(k, gone, next)
  PROVE  /\ gone \cap placed = {k}
         /\ \A n \in next : Kin(k, n)
<1>1. /\ k \in gone /\ gone \in SUBSET active /\ next \in SUBSET (active \ gone)
      /\ \A j \in gone \cup next : Same(j, k)
  BY EndsForm
<1>2. k \in active /\ k \in placed /\ active \subseteq Key /\ placed \subseteq active
  BY DEF Ends, TypeInv, TypeOK, ListInv
<1>3. gone = {k} \/ (k \in Multi /\ next = {} /\ gone = Sharers(k) \cup {k})
  <2>1. k \notin Multi => Sharers(k) = {}
    BY DEF Sharers
  <2> QED  BY <2>1 DEF Ends
<1>4. ASSUME NEW j \in gone \cap placed, j # k PROVE FALSE
  <2>1. k \in Multi /\ Kin(j, k)
    BY <1>1, <1>2, <1>3, <1>4, SameKind DEF Kin, Same
  <2>2. handle[j] = handle[k]
    BY <2>1, <1>1, <1>2 DEF CarrierInv, Entry
  <2> QED  BY <2>2, <1>2, <1>4 DEF CarrierInv
<1>5. \A n \in next : Kin(k, n)
  <2>1. next # {} => k \in Multi
    BY DEF Ends
  <2> QED  BY <2>1, <1>1 DEF Kin, Same
<1> QED  BY <1>1, <1>2, <1>4, <1>5

LEMMA CarrierReqCompleted ==
  ASSUME "resumed" \notin Refuses, TypeInv, ListInv, CarrierInv,
         NEW k, NEW gone, NEW next, Ends(k, gone, next)
  PROVE  CarrierInv'
<1>1. PICK f, w, refused, failed : EndsWith(k, gone, next, f, w, refused, failed)
  BY EndsConclude
<1> DEFINE ended == {handle[k]}
<1>2. /\ w \in SUBSET waiting /\ refused \in SUBSET next
      /\ ConcludeWith(refused, {}, ended, gone, next, w, f)
      /\ \A i, j \in w : i = j
      /\ "reposted" \notin Refuses => refused = {}
  BY <1>1 DEF EndsWith
<1>3. /\ k \in gone /\ gone \in SUBSET active /\ next \in SUBSET (active \ gone)
      /\ \A j \in gone \cup next : Same(j, k)
      /\ \A i, j \in next : i = j
  BY EndsForm
<1>4. k \in active /\ k \in placed /\ active \subseteq Key /\ placed \subseteq active
  BY DEF Ends, TypeInv, TypeOK, ListInv
<1>6. gone \cap placed = {k} /\ \A n \in next : Kin(k, n)
  BY EndsOne
<1>7. ended = {handle[p] : p \in gone \cap placed}
  BY <1>6
<1>9. ASSUME NEW j \in active \ gone, Kin(k, j) PROVE \E n \in next : n = j \/ Kin(n, j)
  <2>1. Kin(j, k) /\ j # k /\ k \in Multi
    BY <1>9, <1>3, <1>4, KinEquivalence DEF Kin
  <2>2. j \notin Sharers(k) => FALSE
    BY <2>1, <1>9 DEF Sharers, Kin
  <2>3. gone = {k} /\ next = FindThisReqByAnotherClient(k)
    BY <2>1, <2>2, <1>9 DEF Ends
  <2> DEFINE S == {i \in active : i[1] # k[1] /\ Same(i, k)}
  <2>4. S \in SUBSET active /\ Ordered(active)
    BY DEF ListInv
  <2>5. j \in S
    BY <2>1, <1>4, <1>9 DEF Kin, Same, Key
  <2>6. next = First(S)
    BY <2>3 DEF FindThisReqByAnotherClient
  <2> HIDE DEF S
  <2>7. PICK n : n \in next
    BY <2>4, <2>5, <2>6, FirstUnique
  <2>8. n \in Key /\ Kin(n, k)
    BY <2>7, <1>3, <1>4, <1>6, KinEquivalence
  <2> QED  BY <2>7, <2>8, <1>4, <1>9, KinEquivalence
<1> HIDE DEF ended
<1>10. /\ \A n \in next : \E p \in gone \cap placed : Kin(p, n)
       /\ \A j \in active \ gone : (\E p \in gone \cap placed : Kin(p, j))
                                   => \E n \in next : n = j \/ Kin(n, j)
  BY <1>6, <1>9
<1> QED  BY <1>2, <1>3, <1>7, <1>10, CarrierConclude

LEMMA CarrierStep ==
  ASSUME ~CancelRefused, "resumed" \notin Refuses
  PROVE  TypeInv /\ ListInv /\ CarrierInv /\ [Next]_vars => CarrierInv'
<1> SUFFICES ASSUME TypeInv, ListInv, CarrierInv, [Next]_vars PROVE CarrierInv'
  OBVIOUS
<1>1. ASSUME UNCHANGED <<lists, placed, handle, tsy>> PROVE CarrierInv'
  BY <1>1 DEF CarrierInv, Entry, lists
<1>2. ASSUME NEW h \in Handle, ReqCompleted(h) PROVE CarrierInv'
  <2>1. CASE Notified(h)
    BY <2>1 DEF Notified, MayRefuse, CarrierInv, Entry, lists
  <2>2. CASE ~Notified(h)
    BY <1>2, <2>2, ReqCompletedForm, CarrierReqCompleted
  <2> QED  BY <2>1, <2>2
<1>3. CASE FlowControlResume
  <2> DEFINE w == Resumable(flow - 1)
             f == flow - 1
             none == {}
  <2>1. ConcludeWith(none, {}, none, none, none, w, f)
    BY <1>3 DEF FlowControlResume, Conclude, MayRefuse
  <2>2. w \in SUBSET waiting /\ \A i, j \in w : i = j
    <3>1. Ordered(waiting) /\ waiting \in SUBSET waiting
      BY DEF ListInv
    <3> QED  BY <3>1, FirstUnique DEF Resumable
  <2>3. /\ none \in SUBSET active /\ none \in SUBSET (active \ none)
        /\ none \in SUBSET none
        /\ none = {handle[p] : p \in none \cap placed}
        /\ \A i, j \in none : i = j
        /\ \A n \in none : \E p \in none \cap placed : Kin(p, n)
        /\ \A k \in active \ none : (\E p \in none \cap placed : Kin(p, k))
                                   => \E n \in none : n = k \/ Kin(n, k)
        /\ "reposted" \notin Refuses => none = {}
    OBVIOUS
  <2> HIDE DEF w, f, none
  <2> QED  BY <2>1, <2>2, <2>3, CarrierConclude
<1>4. ASSUME NEW c \in Client,
             OpenSubSession(c) \/ CancelSubSession(c) \/ CloseSubSession(c)
      PROVE  CarrierInv'
  BY <1>1, <1>4, CarrierLoseInterest
  DEF OpenSubSession, CancelSubSession, CloseSubSession, marks, tsyVars
<1> QED  BY <1>1, <1>2, <1>3, <1>4, CarrierIssue, CarrierCancel
         DEF Next, FlowControlSuspend, vars, marks, tsyVars

LEMMA CarrierInvariant ==
  ASSUME ~CancelRefused, "resumed" \notin Refuses
  PROVE  Spec => [](TypeInv /\ ListInv /\ CarrierInv)
<1> DEFINE I == TypeInv /\ ListInv /\ CarrierInv
<1>1. Init => I
  BY InitType DEF Init, ListInv, CarrierInv, Ordered, First, Entry
<1>2. I /\ [Next]_vars => I'
  BY TypeStep, ListStep, CarrierStep
<1> QED  BY <1>1, <1>2, PTL DEF Spec

-----------------------------------------------------------------------------
\* If the TSY accepts cancellations and the requests that waited for it, every
\* completion it can make finds exactly one request, so ReqCompleted never runs
\* into its fault, whichever clients share, cancel, close and come back.
THEOREM UpcallsFindRequests ==
  ASSUME ~CancelRefused, "resumed" \notin Refuses PROVE Spec => []UpcallFindsRequest
<1>1. TypeInv /\ ListInv /\ CarrierInv => UpcallFindsRequest
  BY DEF CarrierInv, UpcallFindsRequest, ListInv
<1> QED  BY <1>1, CarrierInvariant, PTL

\* The TSY never has two requests with multiple completion for one IPC and object:
\* it has nothing the server has not placed, and of one kind one entry is placed.
THEOREM OneMultipleRequest ==
  ASSUME ~CancelRefused, "resumed" \notin Refuses PROVE Spec => []OneMultiplePerObject
<1>1. TypeInv /\ ListInv /\ CarrierInv => OneMultiplePerObject
  BY DEF CarrierInv, OneMultiplePerObject, Kin, ListInv, Entry
<1> QED  BY <1>1, CarrierInvariant, PTL

\* If the TSY accepts re-posted requests too, iPlacedRequest never outlives the
\* request, and no entry that ReqAnalyserL has let share one waits for nothing: its
\* carrier, through cancellation, re-posting and closing, is with the TSY.
THEOREM EntriesCarried ==
  ASSUME ~CancelRefused, "resumed" \notin Refuses, "reposted" \notin Refuses
  PROVE  Spec => []ActiveIsWithTsy
<1>1. ASSUME TypeInv, ListInv, CarrierInv PROVE ActiveIsWithTsy
  <2>1. ASSUME NEW k \in active \ placed
        PROVE  \E p \in Sharers(k) \cap active \cap placed :
                 handle[p] = handle[k] /\ handle[k] \in tsy
    <3>1. PICK p \in placed : Kin(p, k)
      BY <2>1, <1>1 DEF CarrierInv
    <3>2. p \in active /\ p # k /\ Kin(k, p) /\ p \in Key /\ k \in Key
      BY <3>1, <2>1, <1>1, KinEquivalence DEF ListInv, TypeInv, TypeOK
    <3>3. p \in Sharers(k)
      BY <3>1, <3>2 DEF Sharers, Kin
    <3>4. handle[p] = handle[k] /\ handle[p] \in tsy
      BY <3>1, <3>2, <2>1, <1>1 DEF CarrierInv, Entry
    <3> QED  BY <3>2, <3>3, <3>4
  <2>2. ASSUME NEW k \in placed PROVE k \in active /\ handle[k] \in tsy
    BY <2>2, <1>1 DEF CarrierInv, ListInv
  <2> QED  BY <2>1, <2>2 DEF ActiveIsWithTsy
<1> QED  BY <1>1, CarrierInvariant, PTL

-----------------------------------------------------------------------------
\* Only what the TSY has is marked as cancelled, and it was told.
CancelInv ==
  /\ cancelled \subseteq placed
  /\ CancelReachesTsy

LEMMA CancelStep ==
  ASSUME ~CancelRefused, "resumed" \notin Refuses, ~LateCompletion
  PROVE  TypeInv /\ ListInv /\ CarrierInv /\ CancelInv /\ [Next]_vars => CancelInv'
<1> SUFFICES ASSUME TypeInv, ListInv, CarrierInv, CancelInv, [Next]_vars PROVE CancelInv'
  OBVIOUS
<1>1. /\ placed \subseteq active /\ active \cap waiting = {}
      /\ placed \subseteq Key /\ waiting \subseteq Key
  BY DEF ListInv, TypeInv, TypeOK
<1>2. ASSUME UNCHANGED <<active, placed, cancelled, handle, tsyCancelled>> PROVE CancelInv'
  BY <1>2 DEF CancelInv, CancelReachesTsy
<1>3. ASSUME NEW k \in Key, Issue(k) PROVE CancelInv'
  <2>1. /\ cancelled' = cancelled /\ tsyCancelled' = tsyCancelled
        /\ placed \subseteq placed'
        /\ \A j \in placed : handle'[j] = handle[j]
    BY <1>1, <1>3 DEF Issue, ReadBuffered, ReArm, Share, Wait, NotShared, Post, PostRefused,
                      NewReq, marks, tsyVars, Entry, TypeInv, TypeOK
  <2> QED  BY <2>1, <1>1 DEF CancelInv, CancelReachesTsy
<1>4. ASSUME NEW k \in Key, Cancel(k) PROVE CancelInv'
  <2>1. CASE CancelUnplaced(k)
    BY <2>1, <1>1 DEF CancelUnplaced, Unmark, tsyVars, CancelInv, CancelReachesTsy
  <2>2. CASE CancelPlaced(k)
    <3>1. k \in placed
      BY <2>2 DEF CancelPlaced, CarrierInv, Kin, Same, Multi, Key
    <3> QED  BY <2>2, <3>1 DEF CancelPlaced, lists, CancelInv, CancelReachesTsy
  <2> QED  BY <1>4, <2>1, <2>2 DEF Cancel, CancelPlacedRefused
<1>5. ASSUME NEW c, LoseInterest(c) PROVE CancelInv'
  <2>1. \A k \in placed : handle'[k] = handle[k]
    BY <1>1, <1>5 DEF LoseInterest, Flushed, Dropped
  <2> QED  BY <2>1, <1>1, <1>5 DEF LoseInterest, Asked, CancelInv, CancelReachesTsy
<1>6. ASSUME NEW gone, NEW next, NEW w, NEW refused, NEW ended, NEW f,
             ConcludeWith(refused, {}, ended, gone, next, w, f),
             ended = {handle[p] : p \in gone \cap placed}
      PROVE  CancelInv'
  <2>1. /\ cancelled' = cancelled \ gone /\ placed \ gone \subseteq placed'
        /\ tsyCancelled' = tsyCancelled \ ended
        /\ \A k \in placed \ gone : handle'[k] = handle[k]
    BY <1>1, <1>6 DEF ConcludeWith, Unmark
  <2>2. \A k \in placed \ gone : handle[k] \notin ended
    BY <1>6 DEF CarrierInv
  <2> QED  BY <2>1, <2>2, <1>1 DEF CancelInv, CancelReachesTsy
<1>7. ASSUME NEW h \in Handle, ReqCompleted(h) PROVE CancelInv'
  <2>1. CASE Notified(h)
    BY <2>1 DEF Notified, lists, CancelInv, CancelReachesTsy
  <2>2. CASE ~Notified(h)
    <3>1. PICK k, gone, next : Ends(k, gone, next)
      BY <1>7, <2>2, ReqCompletedForm
    <3>2. PICK f, w, refused, failed : EndsWith(k, gone, next, f, w, refused, failed)
      BY <3>1, EndsConclude
    <3> DEFINE ended == {handle[k]}
    <3>3. ended = {handle[p] : p \in gone \cap placed}
      BY <3>1, EndsOne
    <3>4. ConcludeWith(refused, {}, ended, gone, next, w, f)
      BY <3>2 DEF EndsWith
    <3> HIDE DEF ended
    <3> QED  BY <3>3, <3>4, <1>6
  <2> QED  BY <2>1, <2>2
<1>8. CASE FlowControlResume
  <2> DEFINE none == {}
             f == flow - 1
             w == Resumable(f)
  <2>1. ConcludeWith(none, {}, none, none, none, w, f)
    BY <1>8 DEF FlowControlResume, Conclude, MayRefuse
  <2>2. none = {handle[p] : p \in none \cap placed}
    OBVIOUS
  <2> HIDE DEF none, f, w
  <2> QED  BY <2>1, <2>2, <1>6
<1> QED  BY <1>2, <1>3, <1>4, <1>5, <1>7, <1>8
         DEF Next, OpenSubSession, CancelSubSession, CloseSubSession, FlowControlSuspend,
             vars, marks, lists, tsyVars

\* If besides the TSY completes no request normally that it was asked to cancel, what
\* the server believes it has cancelled the TSY was told of, and has not forgotten.
THEOREM CancelsReachTsy ==
  ASSUME ~CancelRefused, "resumed" \notin Refuses, ~LateCompletion
  PROVE  Spec => []CancelReachesTsy
<1> DEFINE I == TypeInv /\ ListInv /\ CarrierInv /\ CancelInv
<1>1. Init => I
  BY InitType
  DEF Init, ListInv, CarrierInv, Ordered, First, Entry, CancelInv, CancelReachesTsy
<1>2. I /\ [Next]_vars => I'
  BY TypeStep, ListStep, CarrierStep, CancelStep
<1>3. I => CancelReachesTsy
  BY DEF CancelInv
<1> QED  BY <1>1, <1>2, <1>3, PTL DEF Spec

-----------------------------------------------------------------------------
LEMMA RegisteredStep ==
  ASSUME RePost \subseteq MultipleCompletion
  PROVE  TypeInv /\ ListInv /\ RegisteredWhileWanted /\ [Next]_vars
         => RegisteredWhileWanted'
<1> SUFFICES ASSUME TypeInv, ListInv, RegisteredWhileWanted, [Next]_vars
             PROVE  RegisteredWhileWanted'
  OBVIOUS
<1>1. /\ active \subseteq Key /\ waiting \cap Notify = {}
  BY IpcAssumption DEF ListInv, TypeInv, TypeOK, Flow, Notify
<1>2. ASSUME active' \cap Notify \subseteq active, registered \subseteq registered'
      PROVE  RegisteredWhileWanted'
  BY <1>2 DEF RegisteredWhileWanted
<1>3. ASSUME NEW k \in Key, Issue(k) PROVE RegisteredWhileWanted'
  <2>1. CASE Share(k)
    <3>1. CASE \E p \in FindByIpcAndTelObject(k, active) : NewReq(k, {k}, {}, handle[p])
      <4>1. PICK p \in active : Same(p, k)
        BY <3>1 DEF FindByIpcAndTelObject, First
      <4>2. active' = active \cup {k} /\ registered' = registered
        BY <2>1, <3>1 DEF Share, NewReq, Relist
      <4>3. k \in Notify => p \in Notify
        BY <4>1, <1>1, SameKind DEF Same
      <4> QED  BY <4>1, <4>2, <4>3 DEF RegisteredWhileWanted, Same
    <3>2. CASE \E p \in FindByIpcAndTelObject(k, waiting) : NewReq(k, {}, {k}, handle[p])
      BY <1>2, <2>1, <3>2 DEF Share, NewReq, Relist
    <3> QED  BY <2>1, <3>1, <3>2 DEF Share
  <2>2. CASE Post(k)
    BY <2>2 DEF Post, Register, NewReq, Relist, RegisteredWhileWanted
  <2>3. CASE ~Share(k) /\ ~Post(k)
    BY <1>2, <1>3, <2>3 DEF Issue, ReadBuffered, ReArm, Wait, NewReq, Relist, PostRefused,
                            Register, lists
  <2> QED  BY <2>1, <2>2, <2>3
<1>4. ASSUME NEW ended, NEW gone, NEW next, NEW w \in SUBSET waiting, NEW f,
             Conclude(ended, gone, next, w, f)
      PROVE  active' \cap Notify \subseteq active \ gone
  <2>1. PICK dead, up : gone \subseteq dead /\ up \subseteq waiting /\ Relist(dead, up, {}, {})
    BY <1>4 DEF Conclude, ConcludeWith, Activated
  <2> QED  BY <2>1, <1>1 DEF Relist
<1>5. ASSUME NEW h \in Handle, ReqCompleted(h) PROVE RegisteredWhileWanted'
  <2>1. ASSUME NEW k \in active, NEW gone, NEW next, ConcludeReq(k, gone, next)
        PROVE  active' \cap Notify \subseteq active \ gone
    BY <2>1, <1>1, <1>4, ConcludeReqForm
  <2>2. CASE Notified(h)
    BY <1>2, <2>2 DEF Notified, lists
  <2>3. CASE Answered(h)
    BY <1>2, <2>1, <2>3 DEF Answered, FindByTsyHandleAndPlacedRequest, First
  <2>4. CASE Cancelled(h)
    <3> DEFINE next(k) == IF k \in Multi THEN FindThisReqByAnotherClient(k) ELSE {}
    <3>1. PICK k \in active :
            /\ ConcludeReq(k, {k}, next(k))
            /\ registered' = IF k \in Notify /\ next(k) = {}
                             THEN registered \ {<<ObjectOf[k[1]], k[2]>>}
                             ELSE registered
      BY <2>4 DEF Cancelled, FindByTsyHandleAndPlacedRequest, First
    <3>2. active' \cap Notify \subseteq active \ {k}
      BY <3>1, <2>1
    <3>3. CASE k \in Notify /\ next(k) = {}
      <4> DEFINE S == {j \in active : j[1] # k[1] /\ Same(j, k)}
      <4>1. S \in SUBSET active /\ Ordered(active) /\ k \in Multi
        BY <3>3, <1>1 DEF ListInv, Notify, Multi
      <4>2. S = {}
        BY <4>1, <3>3, FirstUnique DEF FindThisReqByAnotherClient
      <4>3. \A j \in active \ {k} : ~Same(j, k)
        BY <4>2, <1>1 DEF Same, Key
      <4> QED  BY <3>1, <3>2, <3>3, <4>3 DEF RegisteredWhileWanted, Same
    <3>4. CASE ~(k \in Notify /\ next(k) = {})
      BY <3>1, <3>2, <3>4, <1>2
    <3> QED  BY <3>3, <3>4
  <2> QED  BY <1>5, <2>2, <2>3, <2>4 DEF ReqCompleted
<1>6. CASE FlowControlResume
  <2> DEFINE none == {}
             f == flow - 1
             w == Resumable(f)
  <2>1. Conclude(none, none, none, w, f) /\ registered' = registered
    BY <1>6 DEF FlowControlResume
  <2>2. w \in SUBSET waiting
    BY ResumableType
  <2> HIDE DEF none, f, w
  <2> QED  BY <2>1, <2>2, <1>2, <1>4
<1>7. ASSUME NEW c \in Client,
             OpenSubSession(c) \/ CancelSubSession(c) \/ CloseSubSession(c)
      PROVE  RegisteredWhileWanted'
  BY <1>2, <1>7 DEF OpenSubSession, CancelSubSession, CloseSubSession, LoseInterest, Relist,
                    lists
<1>8. ASSUME NEW k \in Key, Cancel(k) PROVE RegisteredWhileWanted'
  BY <1>2, <1>8 DEF Cancel, CancelUnplaced, CancelPlaced, CancelPlacedRefused, Relist, lists
<1> QED  BY <1>2, <1>3, <1>5, <1>6, <1>7, <1>8 DEF Next, FlowControlSuspend, vars, lists

\* If every notification that is re-posted may have several clients, the TSY watches
\* for a notification as long as some client is entered for it.
THEOREM RegisteredAsWanted ==
  ASSUME RePost \subseteq MultipleCompletion PROVE Spec => []RegisteredWhileWanted
<1> DEFINE I == TypeInv /\ ListInv /\ RegisteredWhileWanted
<1>1. Init => I
  BY InitType DEF Init, ListInv, Ordered, First, RegisteredWhileWanted
<1>2. I /\ [Next]_vars => I'
  BY TypeStep, ListStep, RegisteredStep
<1> QED  BY <1>1, <1>2, PTL DEF Spec
-----------------------------------------------------------------------------
(* EtelRequests implements TsyContract: whatever clients do, the TSY sees  *)
(* the requests of the phone begin, end and succeed one another as the     *)
(* contract allows.                                                        *)

\* The request of the contract that a placed entry stands for.
Tag(k) == <<ObjectOf[k[1]], k[2], handle[k]>>
Tags(S) == {Tag(k) : k \in S}

ContractInv == TypeInv /\ ListInv /\ FlowCountExact /\ CarrierInv

\* What the contract sees of the state.
LEMMA Seen ==
  Contract!vars = <<Tags(placed), tsyCancelled, hold>>
  BY DEF Contract!vars, Tags, Tag

LEMMA TagRequest == ContractInv => \A k \in Entry : Tag(k) \in Contract!Request
<1> SUFFICES ASSUME ContractInv, NEW k \in Entry PROVE Tag(k) \in Contract!Request
  OBVIOUS
<1>1. k \in Key /\ handle[k] \in Handle
  BY DEF ContractInv, TypeInv, TypeOK, EntryHasHandle, Entry
<1> QED  BY <1>1, ObjectAssumption DEF Contract!Request, Tag, Key

LEMMA TagHandles == \A S : Contract!Handles(Tags(S)) = {handle[k] : k \in S}
<1> TAKE S
<1>1. ASSUME NEW h \in Contract!Handles(Tags(S)) PROVE h \in {handle[k] : k \in S}
  BY <1>1 DEF Contract!Handles, Tags, Tag
<1>2. ASSUME NEW k \in S PROVE handle[k] \in Contract!Handles(Tags(S))
  <2>1. Tag(k) \in Tags(S) /\ Tag(k)[3] = handle[k]
    BY DEF Tags, Tag
  <2> QED  BY <2>1 DEF Contract!Handles
<1> QED  BY <1>1, <1>2

\* A request that waits, or is new, may go down when no request of the TSY is in
\* its way.
LEMMA Admitted ==
  ASSUME ContractInv, NEW S \in SUBSET placed, NEW k \in Entry,
         \A j \in S : handle[j] # handle[k],
         k \in Flow => S \cap Flow = {},
         \A j \in S : ~Kin(j, k)
  PROVE  Contract!Admits(Tags(S), Tag(k))
<1>1. S \subseteq Key /\ k \in Key /\ k[2] \in Ipc /\ \A j \in S : j[2] \in Ipc
  BY DEF ContractInv, TypeInv, TypeOK, ListInv, Entry, Key
<1>2. Tag(k)[3] \notin Contract!Handles(Tags(S))
  BY DEF Contract!Handles, Tags, Tag
<1>3. Tag(k)[2] \in FlowControlObeyed => Contract!FlowControlled(Tags(S)) = {}
  BY <1>1 DEF Contract!FlowControlled, Tags, Tag, Flow, Key
<1>4. Tag(k)[2] \in MultipleCompletion
        => \A s \in Tags(S) : <<s[1], s[2]>> # <<Tag(k)[1], Tag(k)[2]>>
  BY <1>1 DEF Tags, Tag, Kin, Same, Multi, Key
<1> QED  BY <1>2, <1>3, <1>4 DEF Contract!Admits

\* A client's request.
LEMMA ContractIssue ==
  ASSUME ContractInv, ContractInv', NEW k \in Key, Issue(k)
  PROVE  [Contract!Next]_(Contract!vars)
<1>1. placed \subseteq Entry
  BY DEF ContractInv, ListInv, Entry
<1>2. CASE Post(k)
  <2>1. /\ k \in Key \ Entry /\ TsyReqHandle \in Fresh
        /\ handle' = [handle EXCEPT ![k] = TsyReqHandle]
        /\ placed' = placed \cup {k}
        /\ UNCHANGED <<tsyCancelled, hold>>
    BY <1>2 DEF Post, NewReq, NotShared, TsyReqHandle
  <2>10. PICK r : r = Tag(k)'
    OBVIOUS
  <2>2. /\ \A j \in placed : handle'[j] = handle[j] /\ Tag(j)' = Tag(j)
        /\ handle'[k] = TsyReqHandle /\ k \notin placed
        /\ \A j \in placed : handle'[j] # handle'[k]
    BY <2>1, <1>1 DEF Fresh, Tag, ContractInv, TypeInv, TypeOK
  <2>3. Tags(placed)' = Tags(placed) \cup {r}
    BY <2>1, <2>2, <2>10 DEF Tags
  <2>4. r \in Contract!Request
    <3>1. (k \in Entry)'
      BY <2>1 DEF ContractInv, ListInv, Entry
    <3>2. handle'[k] \in Handle
      BY <3>1 DEF ContractInv, TypeInv, EntryHasHandle
    <3> QED  BY <3>2, <2>10, ObjectAssumption DEF Contract!Request, Tag, Key
  <2>5. k \in Flow => hold = 0 /\ placed \cap Flow = {}
    BY <1>2, HoldAssumption DEF Post, ContractInv, FlowCountExact, TypeInv, TypeOK
  <2>6. \A j \in placed : ~Kin(j, k)
    <3>1. ASSUME NEW j \in placed, Kin(j, k) PROVE FALSE
      <4>1. j # k /\ j \in placed' /\ k \in placed'
        BY <2>1, <2>2
      <4>2. \A i, q \in Entry' : Kin(i, q) => handle'[i] = handle'[q]
        BY DEF ContractInv, CarrierInv
      <4>3. placed' \subseteq Entry'
        BY DEF ContractInv, ListInv, Entry
      <4> QED  BY <4>1, <4>2, <4>3, <2>2, <3>1
    <3> QED  BY <3>1
  <2>7. k \in Flow <=> r[2] \in FlowControlObeyed
    BY <2>10 DEF Tag, Flow, Key
  <2>8. Contract!Admits(Tags(placed), r)
    <3>1. placed \subseteq Key /\ k[2] \in Ipc /\ \A j \in placed : j[2] \in Ipc
      BY <1>1 DEF ContractInv, TypeInv, TypeOK, Entry, Key
    <3>2. r[3] \notin Contract!Handles(Tags(placed))
      BY <2>2, <2>10, TagHandles DEF Tag
    <3>3. r[2] \in FlowControlObeyed => Contract!FlowControlled(Tags(placed)) = {}
      BY <3>1, <2>5, <2>7 DEF Contract!FlowControlled, Tags, Tag, Flow, Key
    <3>4. r[2] \in MultipleCompletion
            => \A s \in Tags(placed) : <<s[1], s[2]>> # <<r[1], r[2]>>
      BY <3>1, <2>6, <2>10 DEF Tags, Tag, Kin, Same, Multi, Key
    <3> QED  BY <3>2, <3>3, <3>4 DEF Contract!Admits
  <2>9. Contract!Begin(r)
    BY <2>1, <2>3, <2>5, <2>7, <2>8 DEF Contract!Begin, Tags, Tag
  <2> QED  BY <2>4, <2>9 DEF Contract!Next
<1>3. CASE ~Post(k)
  <2>1. /\ UNCHANGED <<placed, tsyCancelled, hold>>
        /\ \A j \in placed : handle'[j] = handle[j]
    BY <1>1, <1>3 DEF Issue, ReadBuffered, ReArm, Share, Wait, NotShared, PostRefused, NewReq,
                      marks, tsyVars, ContractInv, TypeInv, TypeOK
  <2>2. Tags(placed)' = Tags(placed)
    BY <2>1 DEF Tags, Tag
  <2> QED  BY <2>1, <2>2, Seen DEF Contract!vars, Tags, Tag
<1> QED  BY <1>2, <1>3

\* Steps that place nothing; H is what the TSY is newly asked to cancel.
LEMMA ContractAsk ==
  ASSUME ContractInv, NEW H \in SUBSET {handle[k] : k \in placed},
         UNCHANGED <<placed, hold>>, tsyCancelled' = tsyCancelled \cup H,
         \A k \in placed : handle'[k] = handle[k]
  PROVE  Contract!Next
<1>1. Tags(placed)' = Tags(placed)
  BY DEF Tags, Tag
<1>2. H \in SUBSET Handle /\ H \subseteq Contract!Handles(Tags(placed))
  BY TagHandles DEF ContractInv, TypeInv, EntryHasHandle, ListInv, Entry
<1>3. Contract!Cancel(H)
  BY <1>1, <1>2 DEF Contract!Cancel, Tags, Tag
<1> QED  BY <1>2, <1>3 DEF Contract!Next

LEMMA ContractCancel ==
  ASSUME ~CancelRefused, ContractInv, NEW k \in Key, Cancel(k) PROVE Contract!Next
<1>1. placed \subseteq active /\ active \cap waiting = {}
  BY DEF ContractInv, ListInv
<1>2. CASE CancelUnplaced(k)
  <2>1. /\ UNCHANGED <<placed, hold>> /\ tsyCancelled' = tsyCancelled \cup {}
        /\ \A j \in placed : handle'[j] = handle[j]
    BY <1>1, <1>2 DEF CancelUnplaced, Unmark, tsyVars, ContractInv, TypeInv, TypeOK
  <2> QED  BY <2>1, ContractAsk
<1>3. CASE CancelPlaced(k)
  <2>1. k \in placed
    BY <1>3 DEF CancelPlaced, ContractInv, CarrierInv, Kin, Same, Multi, Key
  <2>2. /\ UNCHANGED <<placed, hold>> /\ tsyCancelled' = tsyCancelled \cup {handle[k]}
        /\ \A j \in placed : handle'[j] = handle[j]
    BY <1>3 DEF CancelPlaced
  <2>3. {handle[k]} \in SUBSET {handle[j] : j \in placed}
    BY <2>1
  <2> QED  BY <2>2, <2>3, ContractAsk
<1> QED  BY <1>2, <1>3 DEF Cancel, CancelPlacedRefused

LEMMA ContractLoseInterest ==
  ASSUME ContractInv, NEW c, LoseInterest(c) PROVE Contract!Next
<1> DEFINE H == {handle[k] : k \in Asked(c)}
<1>1. /\ UNCHANGED <<placed, hold>> /\ tsyCancelled' = tsyCancelled \cup H
      /\ \A k \in placed : handle'[k] = handle[k]
  BY DEF LoseInterest, Flushed, Dropped, ContractInv, ListInv, TypeInv, TypeOK
<1>2. H \in SUBSET {handle[k] : k \in placed}
  BY DEF Asked
<1> QED  BY <1>1, <1>2, ContractAsk

\* k ends, alone or to be followed by one request s.
LEMMA ContractEnd ==
  ASSUME ContractInv, NEW k \in placed, NEW next,
         placed' = (placed \ {k}) \cup next, hold' = hold,
         tsyCancelled' = tsyCancelled \ {handle[k]},
         \A j \in placed' : handle'[j] = handle[j],
         \/ next = {}
         \/ \E s \in Entry :
              /\ next = {s}
              /\ Contract!Admits(Tags(placed \ {k}), Tag(s))
              /\ \/ Kin(s, k)
                 \/ s \in Flow /\ k \in Flow /\ hold = 0
  PROVE  Contract!Next
<1>1. k \in Entry /\ placed \subseteq Entry /\ Entry \subseteq Key
  BY DEF ContractInv, ListInv, TypeInv, TypeOK, Entry
<1>2. PICK r : r = Tag(k)
  OBVIOUS
<1>3. Tag(k) \in Contract!Request /\ Tag(k) \in Tags(placed)
  BY <1>1, TagRequest DEF Tags
<1>4. Tags(placed \ {k}) = Tags(placed) \ {Tag(k)}
  BY DEF Tags, Tag, ContractInv, CarrierInv
<1>5. Tags(placed)' = Tags(placed \ {k}) \cup Tags(next)
  BY DEF Tags, Tag
<1>6. CASE next = {}
  <2>1. Tags(placed)' = Tags(placed) \ {Tag(k)}
    BY <1>4, <1>5, <1>6 DEF Tags
  <2>2. Tag(k)[3] = handle[k]
    BY DEF Tag
  <2>3. Contract!End(r)
    BY <1>3, <1>2, <2>1, <2>2 DEF Contract!End, Tags, Tag
  <2> QED  BY <1>3, <1>2, <2>3 DEF Contract!Next
<1>7. ASSUME NEW s \in Entry, next = {s}, Contract!Admits(Tags(placed \ {k}), Tag(s)),
             Kin(s, k) \/ (s \in Flow /\ k \in Flow /\ hold = 0)
      PROVE  Contract!Next
  <2>1. Tags(placed)' = (Tags(placed) \ {Tag(k)}) \cup {Tag(s)}
    BY <1>4, <1>5, <1>7 DEF Tags
  <2>2. Tag(s) \in Contract!Request
    BY TagRequest
  <2>3. \/ <<Tag(s)[1], Tag(s)[2]>> = <<Tag(k)[1], Tag(k)[2]>>
           /\ Tag(k)[2] \in MultipleCompletion
        \/ {Tag(k)[2], Tag(s)[2]} \subseteq FlowControlObeyed /\ hold = 0
    BY <1>7, <1>1 DEF Kin, Same, Tag, Multi, Flow, Key
  <2>4. Contract!Admits(Tags(placed) \ {Tag(k)}, Tag(s))
    BY <1>4, <1>7
  <2>5. Tag(k)[3] = handle[k]
    BY DEF Tag
  <2>6. Contract!End(r)
    BY <1>3, <1>2, <2>1, <2>2, <2>3, <2>4, <2>5 DEF Contract!End, Tags, Tag
  <2> QED  BY <1>3, <1>2, <2>6 DEF Contract!Next
<1> QED  BY <1>6, <1>7

\* A request that waited has no kin with the TSY.
LEMMA Uncarried ==
  ASSUME ContractInv, NEW v \in waiting
  PROVE  v \in Entry /\ v \in Flow /\ \A j \in placed : handle[j] # handle[v] /\ ~Kin(j, v)
  BY DEF ContractInv, ListInv, CarrierInv, Entry

LEMMA ContractCompleted ==
  ASSUME "resumed" \notin Refuses, ContractInv, NEW k, NEW gone, NEW next,
         Ends(k, gone, next)
  PROVE  Contract!Next
<1>1. PICK f, w, refused, failed : EndsWith(k, gone, next, f, w, refused, failed)
  BY EndsConclude DEF ContractInv
<1>2. ConcludeWith(refused, {}, {handle[k]}, gone, next, w, f) /\ w \in SUBSET waiting
  BY <1>1 DEF EndsWith
<1>3. /\ k \in gone /\ gone \in SUBSET active /\ next \in SUBSET (active \ gone)
      /\ \A i, j \in next : i = j
      /\ gone \cap placed = {k} /\ \A n \in next : Kin(k, n)
  BY EndsForm, EndsOne DEF ContractInv
<1>4. /\ k \in active /\ k \in placed /\ placed \subseteq active /\ active \subseteq Key
      /\ active \cap waiting = {} /\ waiting \subseteq Key
  BY DEF Ends, ContractInv, ListInv, TypeInv, TypeOK
<1>5. /\ placed' = (placed \ {k}) \cup (next \cup w)
      /\ tsyCancelled' = tsyCancelled \ {handle[k]} /\ hold' = hold
  BY <1>2, <1>3 DEF ConcludeWith, Ends
<1>6. \A j \in placed' : handle'[j] = handle[j]
  BY <1>2, <1>3, <1>4, <1>5 DEF ConcludeWith, Unmark
<1>7. CASE next = {} /\ w = {}
  BY <1>4, <1>5, <1>6, <1>7, ContractEnd
<1> DEFINE S == placed \ {k}
<1>8. CASE next # {}
  <2>1. w = {}
    <3>1. CASE k \in Flow
      <4>1. f = flow /\ w = Resumable(f) /\ flow = hold + 1 /\ hold \in Nat
        BY <1>1, <1>4, <1>8, <3>1, HoldAssumption
        DEF EndsWith, ContractInv, FlowCountExact, TypeInv, TypeOK
      <4> QED  BY <4>1 DEF Resumable
    <3>2. CASE k \notin Flow
      BY <1>1, <3>2 DEF EndsWith
    <3> QED  BY <3>1, <3>2
  <2>2. PICK n \in next : next = {n}
    BY <1>3, <1>8
  <2>3. n \in Entry /\ Kin(k, n) /\ Kin(n, k) /\ handle[n] = handle[k]
        /\ (n \in Flow <=> k \in Flow)
    BY <2>2, <1>3, <1>4, KinEquivalence, SameKind DEF Entry, ContractInv, CarrierInv, Kin, Same
  <2>4. \A j \in S : handle[j] # handle[n] /\ ~Kin(j, n)
    BY <2>3, <1>4 DEF ContractInv, CarrierInv, Entry
  <2>5. n \in Flow => S \cap Flow = {}
    BY <2>3, <1>4 DEF ContractInv, FlowCountExact
  <2>6. Contract!Admits(Tags(S), Tag(n))
    BY <2>3, <2>4, <2>5, Admitted
  <2>7. placed' = (placed \ {k}) \cup next
    BY <2>1, <1>5
  <2> QED  BY <2>2, <2>3, <2>6, <2>7, <1>4, <1>5, <1>6, ContractEnd
<1>9. CASE next = {} /\ w # {}
  <2>1. PICK v \in w : w = {v}
    BY <1>1, <1>9 DEF EndsWith
  <2>2. k \in Flow /\ hold = 0
    <3>1. k \in Flow /\ f = flow - 1 /\ f = 0
      BY <1>1, <1>9 DEF EndsWith, Resumable
    <3>2. flow = hold + 1 /\ hold \in Nat /\ flow \in Nat
      BY <3>1, <1>4, HoldAssumption DEF ContractInv, FlowCountExact, TypeInv, TypeOK
    <3> QED  BY <3>1, <3>2
  <2>3. v \in Entry /\ v \in Flow /\ \A j \in S : handle[j] # handle[v] /\ ~Kin(j, v)
    BY <2>1, <1>2, Uncarried
  <2>4. S \cap Flow = {}
    BY <2>2, <1>4 DEF ContractInv, FlowCountExact
  <2>5. Contract!Admits(Tags(S), Tag(v))
    BY <2>3, <2>4, Admitted
  <2>6. placed' = (placed \ {k}) \cup w
    BY <1>9, <1>5
  <2> QED  BY <2>1, <2>2, <2>3, <2>5, <2>6, <1>4, <1>5, <1>6, ContractEnd
<1> QED  BY <1>7, <1>8, <1>9

LEMMA ContractResume ==
  ASSUME "resumed" \notin Refuses, ContractInv, FlowControlResume PROVE Contract!Next
<1> DEFINE w == Resumable(flow - 1)
<1>1. PICK refused : ConcludeWith(refused, {}, {}, {}, {}, w, flow - 1)
  BY DEF FlowControlResume, Conclude, MayRefuse
<1>2. /\ placed' = placed \cup w /\ tsyCancelled' = tsyCancelled
      /\ \A j \in placed' : j \in Key => handle'[j] = handle[j]
  BY <1>1 DEF ConcludeWith, Unmark
<1>3. /\ hold > 0 /\ hold' = hold - 1 /\ hold \in Nat /\ flow \in Nat
      /\ placed \subseteq Key /\ waiting \subseteq Key
  BY HoldAssumption DEF FlowControlResume, ContractInv, TypeInv, TypeOK
<1>4. w \in SUBSET waiting /\ \A i, j \in w : i = j
  <2>1. Ordered(waiting) /\ waiting \in SUBSET waiting
    BY DEF ContractInv, ListInv
  <2> QED  BY <2>1, FirstUnique DEF Resumable
<1>5. Tags(placed)' = Tags(placed) \cup Tags(w)
  BY <1>2, <1>3, <1>4 DEF Tags, Tag
<1>6. CASE w = {}
  <2>1. Tags(placed)' = Tags(placed)
    BY <1>5, <1>6 DEF Tags
  <2>2. Contract!Resume
    BY <2>1, <1>2, <1>3 DEF Contract!Resume, Tags, Tag
  <2> QED  BY <2>2 DEF Contract!Next
<1>7. CASE w # {}
  <2>1. PICK v \in w : w = {v}
    BY <1>4, <1>7
  <2>2. flow - 1 = 0
    BY <1>7 DEF Resumable
  <2>3. hold = 1 /\ placed \cap Flow = {}
    BY <2>2, <1>3 DEF ContractInv, FlowCountExact
  <2>4. v \in Entry /\ v \in Flow /\ \A j \in placed : handle[j] # handle[v] /\ ~Kin(j, v)
    BY <2>1, <1>4, Uncarried
  <2>5. placed \in SUBSET placed
    OBVIOUS
  <2>6. Contract!Admits(Tags(placed), Tag(v)) /\ Tag(v) \in Contract!Request
    BY <2>3, <2>4, <2>5, Admitted, TagRequest
  <2>7. PICK r : r = Tag(v)
    OBVIOUS
  <2>8. Tags(placed)' = Tags(placed) \cup {r} /\ r[2] \in FlowControlObeyed
    BY <2>1, <2>4, <2>7, <1>5 DEF Tags, Tag, Flow
  <2>9. Contract!Resume
    BY <2>3, <2>6, <2>7, <2>8, <1>2, <1>3 DEF Contract!Resume, Tags, Tag
  <2> QED  BY <2>9 DEF Contract!Next
<1> QED  BY <1>6, <1>7

LEMMA ContractStep ==
  ASSUME ~CancelRefused, "resumed" \notin Refuses
  PROVE  ContractInv /\ ContractInv' /\ [Next]_vars => [Contract!Next]_(Contract!vars)
<1> SUFFICES ASSUME ContractInv, ContractInv', [Next]_vars
             PROVE  [Contract!Next]_(Contract!vars)
  OBVIOUS
<1>1. ASSUME UNCHANGED <<placed, handle, tsyCancelled, hold>>
      PROVE  UNCHANGED Contract!vars
  BY <1>1 DEF Contract!vars
<1>2. ASSUME NEW h \in Handle, ReqCompleted(h) PROVE [Contract!Next]_(Contract!vars)
  <2>1. CASE Notified(h)
    <3>1. PICK k \in active \cap placed : handle[k] = h /\ k \in Notify
      BY <2>1 DEF Notified, FindByTsyHandleAndPlacedRequest, First
    <3>2. PICK r : r = Tag(k)
      OBVIOUS
    <3>3. UNCHANGED <<placed, handle, hold>> /\ tsyCancelled' = tsyCancelled \ {h}
      BY <2>1 DEF Notified
    <3>4. /\ r \in Contract!Request /\ r \in Tags(placed)
          /\ r[2] \in RePost /\ r[3] = h
      BY <3>1, <3>2, TagRequest DEF Tags, Tag, Notify, Entry
    <3>5. Contract!Report(r)
      BY <3>3, <3>4 DEF Contract!Report, Tags, Tag
    <3> QED  BY <3>4, <3>5 DEF Contract!Next
  <2>2. CASE ~Notified(h)
    BY <1>2, <2>2, ReqCompletedForm, ContractCompleted
  <2> QED  BY <2>1, <2>2
<1>3. ASSUME NEW c \in Client,
             OpenSubSession(c) \/ CancelSubSession(c) \/ CloseSubSession(c)
      PROVE  [Contract!Next]_(Contract!vars)
  BY <1>1, <1>3, ContractLoseInterest
  DEF OpenSubSession, CancelSubSession, CloseSubSession, marks, tsyVars
<1>4. CASE FlowControlSuspend
  <2>1. Contract!Suspend
    BY <1>4 DEF FlowControlSuspend, Contract!Suspend, marks
  <2> QED  BY <2>1 DEF Contract!Next
<1> QED  BY <1>1, <1>2, <1>3, <1>4, ContractIssue, ContractCancel, ContractResume
         DEF Next, vars, marks, tsyVars

\* If the TSY accepts cancellations and the requests that waited for it, the server
\* keeps the contract of TsyContract with it, for any number of clients, objects,
\* requests and handles.
THEOREM ServerKeepsContract ==
  ASSUME ~CancelRefused, "resumed" \notin Refuses PROVE Spec => KeepsContract
<1>1. Init => Contract!Init
  BY DEF Init, Contract!Init
<1>2. Init => ContractInv
  BY InitType DEF Init, ContractInv, ListInv, CarrierInv, FlowCountExact, Ordered, First, Entry
<1>3. ContractInv /\ [Next]_vars => ContractInv'
  BY TypeStep, ListStep, FlowStep, CarrierStep DEF ContractInv
<1> QED  BY <1>1, <1>2, <1>3, ContractStep, PTL DEF Spec, KeepsContract, Contract!Spec
=============================================================================
