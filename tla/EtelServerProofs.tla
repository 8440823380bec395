-------------------------- MODULE EtelServerProofs --------------------------
(***************************************************************************)
(* Proofs about EtelServer, for every set of sessions, objects and owner   *)
(* chains: the session count and the access counts are exact, and the      *)
(* server stops only when it is not used.                                  *)
(***************************************************************************)
EXTENDS EtelServer, FiniteSetTheorems, WellFoundedInduction, TLAPS

-----------------------------------------------------------------------------
\* Sets that differ in one element, and least elements.

LEMMA OneElement ==
  ASSUME NEW S, NEW T, NEW x, IsFiniteSet(S), S \ {x} = T \ {x}
  PROVE  /\ IsFiniteSet(T)
         /\ Cardinality(S) \in Nat /\ Cardinality(T) \in Nat
         /\ Cardinality(T) = Cardinality(S) - One(x \in S) + One(x \in T)
<1>1. IsFiniteSet(S \ {x}) /\ Cardinality(S \ {x}) = Cardinality(S) - One(x \in S)
  BY FS_RemoveElement, FS_CardinalityType DEF One
<1>2. CASE x \in T
  <2>1. T = (S \ {x}) \cup {x}
    BY <1>2
  <2>2. IsFiniteSet(T) /\ Cardinality(T) = Cardinality(S \ {x}) + 1
    BY <1>1, <2>1, FS_AddElement
  <2> QED  BY <1>1, <1>2, <2>2, FS_CardinalityType DEF One
<1>3. CASE x \notin T
  <2>1. T = S \ {x}
    BY <1>3
  <2> QED  BY <1>1, <1>3, <2>1, FS_CardinalityType DEF One
<1> QED  BY <1>2, <1>3

LEMMA LeastNatural ==
  ASSUME NEW S \in SUBSET Nat, S # {}
  PROVE  \E m \in S : \A n \in S : m <= n
<1> DEFINE R == {p \in Nat \X Nat : p[1] < p[2]}
<1>1. IsWellFoundedOn(R, Nat)
  <2>1. R = OpToRel(LAMBDA x, y : x < y, Nat)
    BY DEF OpToRel
  <2> QED  BY <2>1, NatLessThanWellFounded
<1> HIDE DEF R
<1>2. \E m \in S : \A n \in S : ~(<<n, m>> \in R)
  BY <1>1, WFMin
<1>3. \A m, n \in Nat : m < n => <<m, n>> \in R
  BY DEF R
<1> PICK m \in S : \A n \in S : ~(<<n, m>> \in R)
  BY <1>2
<1>4. ASSUME NEW n \in S PROVE m <= n
  <2>1. m \in Nat /\ n \in Nat
    OBVIOUS
  <2>2. ~(n < m)
    BY <1>3, <2>1
  <2> QED  BY <2>1, <2>2
<1> QED  BY <1>4

LEMMA SetInduction ==
  ASSUME NEW S \in SUBSET Nat, 0 \in S, \A n \in S : n + 1 \in S
  PROVE  \A n \in Nat : n \in S
<1> SUFFICES ASSUME Nat \ S # {} PROVE FALSE
  OBVIOUS
<1>1. Nat \ S \in SUBSET Nat
  OBVIOUS
<1> PICK m \in Nat \ S : \A k \in Nat \ S : m <= k
  BY <1>1, LeastNatural
<1>2. m # 0 /\ m \in Nat
  OBVIOUS
<1>3. m - 1 \in Nat /\ ~(m <= m - 1) /\ (m - 1) + 1 = m
  BY <1>2
<1>4. m - 1 \in S
  BY <1>3
<1>5. m \in S
  BY <1>3, <1>4
<1> QED  BY <1>5

-----------------------------------------------------------------------------
\* The dummy sessions the server can have: one that is not open counts and waits
\* for nothing, and neither does one that is about to go.
Good == {d \in Dummy : /\ ~d.open => d.count = 0 /\ ~d.wanted /\ ~d.queued
                       /\ d.queued => d.count = 0 /\ ~d.wanted}

LEMMA CheckGood ==
  ASSUME NEW d \in Good
  PROVE  LET e == CheckAndDestroyDummySubSession(d) IN
         /\ e \in Good /\ e.open = d.open
         /\ e.queued = (d.queued \/ Due(d)) /\ (Due(d) => d.open)
<1> DEFINE e == CheckAndDestroyDummySubSession(d)
<1>1. /\ d.count \in Nat
      /\ d.wanted \in BOOLEAN /\ d.open \in BOOLEAN /\ d.queued \in BOOLEAN
      /\ d = [count |-> d.count, wanted |-> d.wanted, open |-> d.open, queued |-> d.queued]
      /\ ~d.open => d.count = 0 /\ ~d.wanted /\ ~d.queued
      /\ d.queued => d.count = 0 /\ ~d.wanted
  BY DEF Good, Dummy
<1>2. e = [count |-> IF d.count > 0 THEN d.count - 1 ELSE 0, wanted |-> d.wanted /\ d.count > 0,
           open |-> d.open, queued |-> d.queued \/ Due(d)]
  BY DEF CheckAndDestroyDummySubSession
<1>3. /\ e.count = IF d.count > 0 THEN d.count - 1 ELSE 0
      /\ e.wanted = (d.wanted /\ d.count > 0)
      /\ e.open = d.open /\ e.queued = (d.queued \/ Due(d))
  BY <1>2
<1>4. /\ e.count \in Nat
      /\ e.wanted \in BOOLEAN /\ e.open \in BOOLEAN /\ e.queued \in BOOLEAN
  BY <1>1, <1>3 DEF Due
<1>5. e \in Dummy
  BY <1>2, <1>3, <1>4 DEF Dummy
<1> HIDE DEF e
<1>6. ~e.open => e.count = 0 /\ ~e.wanted /\ ~e.queued
  BY <1>1, <1>3 DEF Due
<1>7. e.queued => e.count = 0 /\ ~e.wanted
  BY <1>1, <1>3 DEF Due
<1>8. Due(d) => d.open
  BY <1>1 DEF Due
<1> QED  BY <1>3, <1>5, <1>6, <1>7, <1>8 DEF Good, e

\* CheckTimes, by induction: the recursive function exists on every interval.
LEMMA CheckTimesGood ==
  ASSUME NEW d \in Good, NEW n \in Nat
  PROVE  LET e == CheckTimes(d, n) IN
         e \in Good /\ e.open = d.open /\ (d.queued => e.queued)
<1> DEFINE Turn(f, i) == IF i = 0 THEN d ELSE CheckAndDestroyDummySubSession(f[i - 1])
           Fits(e) == e \in Good /\ e.open = d.open /\ (d.queued => e.queued)
           Run == {k \in Nat : \E f : f = [i \in 0..k |-> Turn(f, i)]}
<1>1. 0 \in Run
  <2>1. [i \in 0..0 |-> d] = [i \in 0..0 |-> Turn([j \in 0..0 |-> d], i)]
    OBVIOUS
  <2> QED  BY <2>1
<1>2. ASSUME NEW k \in Run PROVE k + 1 \in Run
  <2> PICK f : f = [i \in 0..k |-> Turn(f, i)]
    BY <1>2
  <2> DEFINE g == [i \in 0..k + 1 |-> IF i <= k THEN f[i]
                                      ELSE CheckAndDestroyDummySubSession(f[k])]
  <2>0. k \in Nat
    OBVIOUS
  <2>1. ASSUME NEW i \in 0..k + 1 PROVE g[i] = Turn(g, i)
    <3>1. CASE i = 0
      BY <2>0, <3>1
    <3>2. CASE i \in 1..k
      <4>1. i - 1 \in 0..k + 1 /\ i - 1 <= k /\ i \in 0..k /\ i <= k
        BY <2>0, <3>2
      <4>2. g[i] = f[i] /\ g[i - 1] = f[i - 1]
        BY <4>1
      <4>3. f[i] = Turn(f, i)
        BY <4>1
      <4> QED  BY <3>2, <4>2, <4>3
    <3>3. CASE i = k + 1
      <4>1. k \in 0..k + 1 /\ k <= k /\ ~(k + 1 <= k) /\ i # 0 /\ i - 1 = k
        BY <2>0, <3>3
      <4>2. g[k] = f[k] /\ g[i] = CheckAndDestroyDummySubSession(f[k])
        BY <3>3, <4>1
      <4> QED  BY <4>1, <4>2
    <3> QED  BY <2>0, <3>1, <3>2, <3>3
  <2>2. g = [i \in 0..k + 1 |-> Turn(g, i)]
    BY <2>1
  <2> HIDE DEF g
  <2>3. \E h : h = [i \in 0..k + 1 |-> Turn(h, i)]
    BY <2>2
  <2> QED  BY <2>0, <2>3
<1>3. n \in Run
  <2>1. Run \in SUBSET Nat
    OBVIOUS
  <2> HIDE DEF Run
  <2> QED  BY <1>1, <1>2, <2>1, SetInduction
<1> DEFINE f == CHOOSE f : f = [i \in 0..n |-> Turn(f, i)]
<1>4. f = [i \in 0..n |-> Turn(f, i)]
  BY <1>3
<1>5. CheckTimes(d, n) = f[n]
  BY DEF CheckTimes
<1> HIDE DEF f, Run
<1>6. /\ f[0] = d
      /\ \A i \in 0..n : i # 0 => f[i] = CheckAndDestroyDummySubSession(f[i - 1])
  BY <1>4
<1> DEFINE Reached == {k \in Nat : k <= n => Fits(f[k])}
<1>7. 0 \in Reached
  BY <1>6
<1>8. ASSUME NEW k \in Reached PROVE k + 1 \in Reached
  <2> SUFFICES ASSUME k + 1 <= n PROVE Fits(f[k + 1])
    OBVIOUS
  <2>1. k \in Nat /\ k <= n /\ k + 1 \in 0..n /\ k + 1 # 0 /\ (k + 1) - 1 = k
    OBVIOUS
  <2>2. Fits(f[k])
    BY <2>1
  <2>3. f[k + 1] = CheckAndDestroyDummySubSession(f[k])
    BY <1>6, <2>1
  <2> HIDE DEF f
  <2>4. /\ f[k + 1] \in Good /\ f[k + 1].open = f[k].open
        /\ f[k + 1].queued = (f[k].queued \/ Due(f[k]))
    BY <2>2, <2>3, CheckGood
  <2> QED  BY <2>2, <2>4
<1>9. n \in Reached
  <2>1. Reached \in SUBSET Nat
    OBVIOUS
  <2> HIDE DEF Reached
  <2> QED  BY <1>7, <1>8, <2>1, SetInduction
<1> QED  BY <1>5, <1>9

-----------------------------------------------------------------------------
\* The inductive invariant.

Connected == {s \in Session : phase[s] \in {"connected", "open", "closed"}}
Counted == {o \in Object : dummy[o].open /\ ~dummy[o].queued}
Users(o) == {s \in Session : phase[s] = "open" /\ o \in Above[ObjectOf[s]]}
Holders(d, o) == {p \in Object : d[p].open /\ o \in Above[p]}
Opened(d) == {p \in Object : d[p].open}

Typed ==
  /\ phase \in [Session -> Phase]
  /\ active \subseteq Key /\ placed \subseteq active /\ interested \subseteq active
  /\ IsFiniteSet(active)
  /\ dummy \in [Object -> Good]
  /\ owner \in [CallObject -> Session \cup {NoSession}]
  /\ relinquishing \in [CallObject -> Nat]
  /\ graceful \in BOOLEAN /\ stopQueued \in BOOLEAN /\ running \in BOOLEAN

Exact ==
  /\ IsFiniteSet(Connected) /\ IsFiniteSet(Opened(dummy))
  /\ sessionCount = Cardinality(Connected) + Cardinality(Counted)
  /\ refs \in [Object -> Nat]
  /\ \A o \in Object :
       refs[o] = Cardinality(Users(o)) + Cardinality(Holders(dummy, o))

Stopping ==
  /\ stopQueued => sessionCount = 0
  /\ ~running => Connected = {}

ServerInv == Typed /\ Exact /\ Stopping

LEMMA Sizes ==
  ASSUME Exact
  PROVE  /\ IsFiniteSet(Counted) /\ Cardinality(Counted) \in Nat
         /\ Cardinality(Connected) \in Nat /\ sessionCount \in Nat
         /\ \A o \in Object : /\ IsFiniteSet(Users(o)) /\ Cardinality(Users(o)) \in Nat
                               /\ IsFiniteSet(Holders(dummy, o))
                               /\ Cardinality(Holders(dummy, o)) \in Nat
<1>1. IsFiniteSet(Connected) /\ IsFiniteSet(Opened(dummy))
  BY DEF Exact
<1>2. IsFiniteSet(Counted)
  <2>1. Counted \in SUBSET Opened(dummy)
    BY DEF Counted, Opened
  <2> QED  BY <1>1, <2>1, FS_Subset
<1>3. ASSUME NEW o \in Object PROVE IsFiniteSet(Users(o)) /\ IsFiniteSet(Holders(dummy, o))
  <2>1. Users(o) \in SUBSET Connected /\ Holders(dummy, o) \in SUBSET Opened(dummy)
    BY DEF Users, Connected, Holders, Opened
  <2> QED  BY <1>1, <2>1, FS_Subset
<1> QED  BY <1>1, <1>2, <1>3, FS_CardinalityType DEF Exact

\* A session changes its phase.
LEMMA PhaseStep ==
  ASSUME Typed, Exact, NEW s \in Session, NEW x \in Phase,
         phase' = [phase EXCEPT ![s] = x]
  PROVE  /\ phase' \in [Session -> Phase]
         /\ IsFiniteSet(Connected') /\ Cardinality(Connected') \in Nat
         /\ Cardinality(Connected') = Cardinality(Connected)
              - One(phase[s] \in {"connected", "open", "closed"})
              + One(x \in {"connected", "open", "closed"})
         /\ \A o \in Object :
              /\ Cardinality(Users(o)') \in Nat
              /\ Cardinality(Users(o)') = Cardinality(Users(o))
                   + IF o \in Above[ObjectOf[s]]
                     THEN One(x = "open") - One(phase[s] = "open") ELSE 0
<1>1. phase' \in [Session -> Phase] /\ phase'[s] = x
      /\ \A t \in Session \ {s} : phase'[t] = phase[t]
  BY DEF Typed
<1>2. /\ s \in Connected <=> phase[s] \in {"connected", "open", "closed"}
      /\ s \in Connected' <=> x \in {"connected", "open", "closed"}
      /\ Connected \ {s} = Connected' \ {s}
  BY <1>1 DEF Connected
<1>3. /\ IsFiniteSet(Connected') /\ Cardinality(Connected') \in Nat
      /\ Cardinality(Connected') = Cardinality(Connected) - One(s \in Connected)
                                                         + One(s \in Connected')
  BY <1>2, OneElement DEF Exact
<1>4. ASSUME NEW o \in Object
      PROVE  /\ Cardinality(Users(o)') \in Nat
             /\ Cardinality(Users(o)') = Cardinality(Users(o))
                  + IF o \in Above[ObjectOf[s]]
                    THEN One(x = "open") - One(phase[s] = "open") ELSE 0
  <2>1. /\ s \in Users(o) <=> phase[s] = "open" /\ o \in Above[ObjectOf[s]]
        /\ s \in Users(o)' <=> x = "open" /\ o \in Above[ObjectOf[s]]
        /\ Users(o) \ {s} = Users(o)' \ {s}
    BY <1>1 DEF Users
  <2>2. /\ Cardinality(Users(o)') \in Nat /\ Cardinality(Users(o)) \in Nat
        /\ Cardinality(Users(o)') = Cardinality(Users(o)) - One(s \in Users(o))
                                                         + One(s \in Users(o)')
    BY <2>1, Sizes, OneElement
  <2> QED  BY <2>1, <2>2 DEF One
<1> QED  BY <1>1, <1>2, <1>3, <1>4 DEF One

\* An object gets another dummy session.
LEMMA DummyStep ==
  ASSUME Typed, Exact, NEW o \in Object, NEW e \in Good, NEW d \in [Object -> Good],
         d[o] = e, \A p \in Object \ {o} : d[p] = dummy[p]
  PROVE  /\ IsFiniteSet(Opened(d))
         /\ LET C == {p \in Object : d[p].open /\ ~d[p].queued} IN
            Cardinality(C) = Cardinality(Counted) - One(dummy[o].open /\ ~dummy[o].queued)
                                                  + One(e.open /\ ~e.queued)
         /\ \A p \in Object :
              /\ Cardinality(Holders(d, p)) \in Nat
              /\ d[p].open => Cardinality(Holders(d, p)) > 0
              /\ Cardinality(Holders(d, p)) = Cardinality(Holders(dummy, p))
                   + IF p \in Above[o] THEN One(e.open) - One(dummy[o].open) ELSE 0
<1>1. d[o] = e /\ \A p \in Object \ {o} : d[p] = dummy[p]
  OBVIOUS
<1>2. IsFiniteSet(Opened(d))
  <2>1. Opened(dummy) \ {o} = Opened(d) \ {o}
    BY <1>1 DEF Opened
  <2> QED  BY <2>1, OneElement DEF Exact
<1> DEFINE C == {p \in Object : d[p].open /\ ~d[p].queued}
<1>3. Cardinality(C) = Cardinality(Counted) - One(dummy[o].open /\ ~dummy[o].queued)
                                            + One(e.open /\ ~e.queued)
  <2>1. /\ o \in Counted <=> dummy[o].open /\ ~dummy[o].queued
        /\ o \in C <=> e.open /\ ~e.queued
        /\ Counted \ {o} = C \ {o}
    BY <1>1 DEF Counted
  <2> HIDE DEF C
  <2>2. Cardinality(C) = Cardinality(Counted) - One(o \in Counted) + One(o \in C)
    BY <2>1, Sizes, OneElement
  <2> QED  BY <2>1, <2>2 DEF One
<1>4. ASSUME NEW p \in Object
      PROVE  /\ Cardinality(Holders(d, p)) \in Nat
             /\ d[p].open => Cardinality(Holders(d, p)) > 0
             /\ Cardinality(Holders(d, p)) = Cardinality(Holders(dummy, p))
                  + IF p \in Above[o] THEN One(e.open) - One(dummy[o].open) ELSE 0
  <2>1. /\ o \in Holders(dummy, p) <=> dummy[o].open /\ p \in Above[o]
        /\ o \in Holders(d, p) <=> e.open /\ p \in Above[o]
        /\ Holders(dummy, p) \ {o} = Holders(d, p) \ {o}
    BY <1>1 DEF Holders
  <2>2. IsFiniteSet(Holders(dummy, p))
    BY Sizes
  <2>3. /\ Cardinality(Holders(d, p)) \in Nat /\ Cardinality(Holders(dummy, p)) \in Nat
        /\ IsFiniteSet(Holders(d, p))
        /\ Cardinality(Holders(d, p)) = Cardinality(Holders(dummy, p))
             - One(o \in Holders(dummy, p)) + One(o \in Holders(d, p))
    BY <2>1, <2>2, OneElement
  <2>4. d[p].open => Cardinality(Holders(d, p)) > 0
    <3>1. d[p].open => Holders(d, p) # {}
      BY ObjectAssumption DEF Holders
    <3>2. Cardinality(Holders(d, p)) = 0 <=> Holders(d, p) = {}
      BY <2>3, FS_EmptySet
    <3> QED  BY <2>3, <3>1, <3>2
  <2>5. Cardinality(Holders(d, p)) = Cardinality(Holders(dummy, p))
          + IF p \in Above[o] THEN One(e.open) - One(dummy[o].open) ELSE 0
    BY <2>1, <2>3 DEF One
  <2> QED  BY <2>3, <2>4, <2>5
<1> QED  BY <1>1, <1>2, <1>3, <1>4

\* Nothing that is kept loses its dummy session.
LEMMA KeepStep ==
  ASSUME NEW r, NEW d \in [Object -> Good], Keep(r, d),
         \A p \in Object : d[p].open => r[p] # 0
  PROVE  refs' = r /\ dummy' = d
<1>1. ASSUME NEW p \in Object, r[p] = 0 PROVE d[p] = NoDummy
  <2>1. ~d[p].open /\ d[p] \in Good
    BY <1>1
  <2>2. /\ d[p].count = 0 /\ d[p].wanted = FALSE
        /\ d[p].open = FALSE /\ d[p].queued = FALSE
        /\ d[p] = [count |-> d[p].count, wanted |-> d[p].wanted,
                   open |-> d[p].open, queued |-> d[p].queued]
    BY <2>1 DEF Good, Dummy
  <2> QED  BY <2>2 DEF NoDummy
<1>2. \A p \in Object : dummy'[p] = d[p]
  BY <1>1 DEF Keep
<1> QED  BY <1>2 DEF Keep

-----------------------------------------------------------------------------
\* The actions.

LEMMA GoodNoDummy == NoDummy \in Good
  BY DEF NoDummy, Good, Dummy

LEMMA FiniteActive ==
  ASSUME Typed, active' \subseteq active PROVE IsFiniteSet(active')
  BY FS_Subset DEF Typed

LEMMA ConnectStep ==
  ASSUME ServerInv, NEW s \in Session, Connect(s) PROVE ServerInv'
<1> USE DEF ServerInv
<1>1. /\ phase[s] = "new" /\ phase' = [phase EXCEPT ![s] = "connected"] /\ running
      /\ sessionCount' = sessionCount + 1 /\ stopQueued' = (stopQueued /\ sessionCount # 0)
      /\ UNCHANGED <<refs, requests, dummy, calls, graceful, running>>
  BY DEF Connect, Inc
<1>2. UNCHANGED <<active, placed, interested, owner, relinquishing>>
  BY <1>1 DEF requests, calls
<1>3. /\ phase' \in [Session -> Phase]
      /\ IsFiniteSet(Connected') /\ Cardinality(Connected') = Cardinality(Connected) + 1
      /\ \A o \in Object : Cardinality(Users(o)') = Cardinality(Users(o))
  <2>1. "connected" \in Phase
    BY DEF Phase
  <2>2. /\ phase' \in [Session -> Phase]
        /\ IsFiniteSet(Connected')
        /\ Cardinality(Connected') = Cardinality(Connected)
             - One(phase[s] \in {"connected", "open", "closed"})
             + One("connected" \in {"connected", "open", "closed"})
        /\ \A o \in Object :
              Cardinality(Users(o)') = Cardinality(Users(o))
                + IF o \in Above[ObjectOf[s]]
                  THEN One("connected" = "open") - One(phase[s] = "open") ELSE 0
    BY <1>1, <2>1, PhaseStep
  <2> QED  BY <1>1, <2>2, Sizes DEF One
<1>4. Typed'
  BY <1>1, <1>2, <1>3 DEF Typed
<1>6. Exact'
  <2>1. Counted' = Counted /\ Opened(dummy)' = Opened(dummy)
        /\ \A o \in Object : Holders(dummy, o)' = Holders(dummy, o)
    BY <1>1 DEF Counted, Opened, Holders
  <2> QED  BY <1>1, <1>3, <2>1, Sizes DEF Exact
<1>7. Stopping'
  BY <1>1, <1>4, Sizes DEF Stopping, Typed
<1> QED  BY <1>4, <1>6, <1>7

LEMMA OpenStep ==
  ASSUME ServerInv, NEW s \in Session, OpenSubSession(s) PROVE ServerInv'
<1> USE DEF ServerInv
<1> DEFINE r == RefsAdded(ObjectOf[s], 1)
<1>1. /\ phase[s] = "connected" /\ phase' = [phase EXCEPT ![s] = "open"] /\ running
      /\ Keep(r, dummy)
      /\ owner' = [o \in CallObject |-> IF refs[o] = 0 THEN NoSession ELSE owner[o]]
      /\ relinquishing' = [o \in CallObject |-> IF refs[o] = 0 THEN 0 ELSE relinquishing[o]]
      /\ UNCHANGED <<active, placed, interested, sessionCount, graceful, stopQueued, running>>
  BY DEF OpenSubSession, requests, server
<1>2. /\ phase' \in [Session -> Phase]
      /\ IsFiniteSet(Connected') /\ Cardinality(Connected') = Cardinality(Connected)
      /\ \A o \in Object :
           /\ Cardinality(Users(o)') \in Nat
           /\ Cardinality(Users(o)') = Cardinality(Users(o))
                + IF o \in Above[ObjectOf[s]] THEN 1 ELSE 0
  <2>1. "open" \in Phase
    BY DEF Phase
  <2>2. /\ phase' \in [Session -> Phase]
        /\ IsFiniteSet(Connected')
        /\ Cardinality(Connected') = Cardinality(Connected) - One(TRUE) + One(TRUE)
        /\ \A o \in Object :
              /\ Cardinality(Users(o)') \in Nat
              /\ Cardinality(Users(o)') = Cardinality(Users(o))
                   + IF o \in Above[ObjectOf[s]] THEN One(TRUE) - One(FALSE) ELSE 0
    BY <1>1, <2>1, PhaseStep
  <2> QED  BY <2>2, Sizes DEF One
<1>3. \A o \in Object : r[o] = Cardinality(Users(o)') + Cardinality(Holders(dummy, o))
  BY <1>2, Sizes DEF Exact, RefsAdded
<1>4. refs' = r /\ dummy' = dummy
  <2>1. ASSUME NEW o \in Object, dummy[o].open PROVE r[o] # 0
    <3>1. dummy \in [Object -> Good] /\ dummy[o] \in Good
      BY DEF Typed
    <3>2. Cardinality(Holders(dummy, o)) > 0
      BY <2>1, <3>1, DummyStep
    <3> QED  BY <1>2, <1>3, <3>2, Sizes
  <2> QED  BY <1>1, <2>1, KeepStep DEF Typed
<1> HIDE DEF r
<1>5. Typed'
  BY <1>1, <1>2, <1>4 DEF Typed
<1>7. Exact'
  <2>1. Counted' = Counted /\ Opened(dummy)' = Opened(dummy)
        /\ \A o \in Object : Holders(dummy, o)' = Holders(dummy, o)
    BY <1>4 DEF Counted, Opened, Holders
  <2>2. refs' \in [Object -> Nat]
    <3>1. \A o \in Object : r[o] \in Nat
      BY <1>2, <1>3, Sizes
    <3> QED  BY <1>4, <3>1 DEF r, RefsAdded
  <2> QED  BY <1>1, <1>2, <1>3, <1>4, <2>1, <2>2, Sizes DEF Exact
<1>8. Stopping'
  BY <1>1 DEF Stopping
<1> QED  BY <1>5, <1>7, <1>8

\* CloseSubSessionPreProcessing, in a session that stays or goes.
LEMMA CloseStep ==
  ASSUME ServerInv, NoLateOwner, NEW s \in Session, NEW ending \in BOOLEAN,
         running, phase[s] = "open", Close(s, ending),
         phase' = [phase EXCEPT ![s] = IF ending THEN "gone" ELSE "closed"]
  PROVE  ServerInv'
<1> USE DEF ServerInv
<1> DEFINE o == ObjectOf[s]
           mine == {k \in active \cap interested : k[1] = s}
           dropped == mine \ placed
           owned == o \in CallObject /\ owner[o] = s
           created == CreateDummySession(dummy[o], Cardinality(mine), owned)
           left == CheckTimes(created, Cardinality(dropped))
           opened == Opens(dummy[o], Cardinality(mine), owned)
           r == RefsAdded(o, One(opened) - 1)
           d == [dummy EXCEPT ![o] = left]
<1>1. /\ Keep(r, d)
      /\ Count(One(opened), One(left.queued /\ ~created.queued) + One(ending))
      /\ active' = active \ dropped /\ interested' = interested \ mine
      /\ relinquishing' = IF owned THEN [relinquishing EXCEPT ![o] = @ + 1] ELSE relinquishing
      /\ UNCHANGED <<placed, owner, graceful, running>>
  BY DEF Close
<1>2. /\ o \in Object /\ dummy[o] \in Good /\ mine \subseteq active
      /\ IsFiniteSet(mine) /\ Cardinality(mine) \in Nat
      /\ IsFiniteSet(dropped) /\ Cardinality(dropped) \in Nat
  <2>1. mine \in SUBSET active /\ dropped \in SUBSET active /\ IsFiniteSet(active)
    BY DEF Typed
  <2>2. IsFiniteSet(mine) /\ IsFiniteSet(dropped)
    BY <2>1, FS_Subset
  <2> HIDE DEF mine, dropped
  <2> QED  BY <2>1, <2>2, FS_CardinalityType, ObjectAssumption DEF Typed
<1>3. owned => ~dummy[o].queued
  <2>1. owned => relinquishing'[o] = relinquishing[o] + 1 /\ relinquishing[o] \in Nat
    BY <1>1 DEF Typed
  <2>2. owned /\ dummy[o].queued => relinquishing'[o] <= relinquishing[o]
    BY DEF NoLateOwner
  <2> HIDE DEF owned, o
  <2> QED  BY <2>1, <2>2
<1> DEFINE n == Cardinality(mine)
<1>4. n \in Nat /\ owned \in BOOLEAN
  BY <1>2
<1> HIDE DEF owned, n
<1>5. /\ opened <=> ~dummy[o].open /\ (n > 0 \/ owned)
      /\ created = [count |-> IF dummy[o].open THEN dummy[o].count ELSE dummy[o].count + n,
                    wanted |-> owned, open |-> dummy[o].open \/ opened,
                    queued |-> dummy[o].queued]
  BY DEF n, Opens, CreateDummySession
<1> HIDE DEF opened, created
<1>6. /\ created \in Good /\ created.open = (dummy[o].open \/ opened)
      /\ created.queued = dummy[o].queued
  <2>1. /\ dummy[o].count \in Nat
        /\ dummy[o].open \in BOOLEAN /\ dummy[o].queued \in BOOLEAN
        /\ ~dummy[o].open => dummy[o].count = 0 /\ ~dummy[o].queued
        /\ dummy[o].queued => dummy[o].count = 0
    BY <1>2 DEF Good, Dummy
  <2>2. /\ created.count = IF dummy[o].open THEN dummy[o].count ELSE dummy[o].count + n
        /\ created.wanted = owned /\ created.open = (dummy[o].open \/ opened)
        /\ created.queued = dummy[o].queued
    BY <1>5
  <2>3. created \in Dummy
    <3>1. created.count \in Nat /\ created.open \in BOOLEAN
      BY <1>4, <1>5, <2>1, <2>2
    <3> QED  BY <1>4, <1>5, <2>1, <2>2, <3>1 DEF Dummy
  <2>4. ASSUME ~created.open
        PROVE  created.count = 0 /\ ~created.wanted /\ ~created.queued
    <3>1. ~dummy[o].open /\ ~opened
      BY <2>2, <2>4
    <3>2. ~(n > 0) /\ ~owned
      BY <1>5, <3>1
    <3>3. n = 0
      BY <1>4, <3>2
    <3> QED  BY <2>1, <2>2, <3>1, <3>2, <3>3
  <2>5. created.queued => created.count = 0 /\ ~created.wanted
    <3>1. owned => dummy[o].queued = FALSE
      BY <1>3, <2>1
    <3> QED  BY <2>1, <2>2, <3>1
  <2> QED  BY <2>2, <2>3, <2>4, <2>5 DEF Good
<1>7. left \in Good /\ left.open = created.open /\ (created.queued => left.queued)
  BY <1>2, <1>6, CheckTimesGood
<1> HIDE DEF left
<1>8. d \in [Object -> Good] /\ d[o] = left /\ \A p \in Object \ {o} : d[p] = dummy[p]
  BY <1>2, <1>7 DEF Typed
<1> HIDE DEF o, d, mine, dropped
<1>9. /\ IsFiniteSet(Opened(d))
      /\ Cardinality({p \in Object : d[p].open /\ ~d[p].queued})
           = Cardinality(Counted) - One(dummy[o].open /\ ~dummy[o].queued)
                                  + One(left.open /\ ~left.queued)
      /\ \A p \in Object :
           /\ Cardinality(Holders(d, p)) \in Nat
           /\ d[p].open => Cardinality(Holders(d, p)) > 0
           /\ Cardinality(Holders(d, p)) = Cardinality(Holders(dummy, p))
                + IF p \in Above[o] THEN One(left.open) - One(dummy[o].open) ELSE 0
  BY <1>2, <1>7, <1>8, DummyStep
<1> DEFINE x == IF ending THEN "gone" ELSE "closed"
<1>10. /\ phase' \in [Session -> Phase]
       /\ IsFiniteSet(Connected') /\ Cardinality(Connected') \in Nat
       /\ Cardinality(Connected') = Cardinality(Connected) - One(ending)
       /\ \A p \in Object :
            /\ Cardinality(Users(p)') \in Nat
            /\ Cardinality(Users(p)') = Cardinality(Users(p))
                 + IF p \in Above[o] THEN -1 ELSE 0
  <2>1. x \in Phase /\ phase' = [phase EXCEPT ![s] = x] /\ x # "open"
        /\ (x \in {"connected", "open", "closed"} <=> ~ending)
    BY DEF Phase
  <2> HIDE DEF x
  <2>2. /\ phase' \in [Session -> Phase]
        /\ IsFiniteSet(Connected') /\ Cardinality(Connected') \in Nat
        /\ Cardinality(Connected') = Cardinality(Connected)
             - One(phase[s] \in {"connected", "open", "closed"})
             + One(x \in {"connected", "open", "closed"})
        /\ \A p \in Object :
             /\ Cardinality(Users(p)') \in Nat
             /\ Cardinality(Users(p)') = Cardinality(Users(p))
                  + IF p \in Above[ObjectOf[s]]
                    THEN One(x = "open") - One(phase[s] = "open") ELSE 0
    BY <2>1, PhaseStep
  <2>3. Cardinality(Connected) \in Nat
    BY Sizes
  <2> QED  BY <2>1, <2>2, <2>3 DEF One, o
<1>11. opened = (left.open /\ ~dummy[o].open)
  <2>1. dummy[o].open \in BOOLEAN
    BY <1>2 DEF Good, Dummy
  <2> QED  BY <1>5, <1>6, <1>7, <2>1
<1>12. \A p \in Object : r[p] = Cardinality(Users(p)') + Cardinality(Holders(d, p))
  <2> SUFFICES ASSUME NEW p \in Object
               PROVE  r[p] = Cardinality(Users(p)') + Cardinality(Holders(d, p))
    OBVIOUS
  <2>1. /\ refs[p] = Cardinality(Users(p)) + Cardinality(Holders(dummy, p))
        /\ Cardinality(Users(p)) \in Nat /\ Cardinality(Holders(dummy, p)) \in Nat
    BY Sizes DEF Exact
  <2>2. r[p] = IF p \in Above[o] THEN refs[p] + (One(opened) - 1) ELSE refs[p]
    BY DEF RefsAdded
  <2>3. One(left.open) - One(dummy[o].open) = One(opened)
    <3>1. CASE dummy[o].open
      <4>1. left.open /\ ~opened
        BY <1>6, <1>7, <1>11, <3>1
      <4> QED  BY <3>1, <4>1 DEF One
    <3>2. CASE ~dummy[o].open
      <4>1. opened <=> left.open
        BY <1>11, <3>2
      <4> QED  BY <3>2, <4>1 DEF One
    <3> QED  BY <3>1, <3>2
  <2>4. /\ Cardinality(Users(p)') = Cardinality(Users(p)) + IF p \in Above[o] THEN -1 ELSE 0
        /\ Cardinality(Holders(d, p)) = Cardinality(Holders(dummy, p))
             + IF p \in Above[o] THEN One(left.open) - One(dummy[o].open) ELSE 0
    BY <1>9, <1>10
  <2>5. One(opened) \in Int
    BY DEF One
  <2> HIDE DEF r
  <2> QED  BY <2>1, <2>2, <2>3, <2>4, <2>5
<1>13. refs' = r /\ dummy' = d
  <2>1. ASSUME NEW p \in Object, d[p].open PROVE r[p] # 0
    BY <1>9, <1>10, <1>12, <2>1
  <2> QED  BY <1>1, <1>8, <2>1, KeepStep
<1>14. Typed'
  <2>1. relinquishing' \in [CallObject -> Nat]
    BY <1>1 DEF Typed, owned
  <2>2. IsFiniteSet(active')
    BY <1>1, FiniteActive
  <2>3. stopQueued' \in BOOLEAN
    BY <1>1 DEF Typed, Count
  <2>4. active' \subseteq Key /\ placed' \subseteq active' /\ interested' \subseteq active'
    BY <1>1 DEF Typed, dropped
  <2> QED  BY <1>1, <1>8, <1>10, <1>13, <2>1, <2>2, <2>3, <2>4 DEF Typed
<1>16. sessionCount' = Cardinality(Connected)' + Cardinality(Counted)'
  <2>1. Counted' = {p \in Object : d[p].open /\ ~d[p].queued}
    BY <1>13 DEF Counted
  <2>2. sessionCount' = sessionCount + One(opened)
                       - (One(left.queued /\ ~created.queued) + One(ending))
    BY <1>1 DEF Count
  <2>3. One(opened) - One(left.queued /\ ~created.queued)
         = One(left.open /\ ~left.queued) - One(dummy[o].open /\ ~dummy[o].queued)
    <3>1. /\ dummy[o].open \in BOOLEAN /\ dummy[o].queued \in BOOLEAN
          /\ left.open \in BOOLEAN /\ left.queued \in BOOLEAN
          /\ ~left.open => ~left.queued
          /\ ~dummy[o].open => ~dummy[o].queued
      BY <1>2, <1>7 DEF Good, Dummy
    <3>2. CASE dummy[o].open
      <4>1. left.open /\ ~opened /\ (created.queued <=> dummy[o].queued)
            /\ (dummy[o].queued => left.queued)
        BY <1>6, <1>7, <1>11, <3>2
      <4> QED  BY <3>2, <4>1 DEF One
    <3>3. CASE ~dummy[o].open
      <4>1. (opened <=> left.open) /\ ~created.queued
        BY <1>6, <1>11, <3>1, <3>3
      <4> QED  BY <3>1, <3>3, <4>1 DEF One
    <3> QED  BY <3>2, <3>3
  <2>4. sessionCount = Cardinality(Connected) + Cardinality(Counted)
        /\ Cardinality(Connected) \in Nat /\ Cardinality(Counted) \in Nat
    BY Sizes DEF Exact
  <2>5. /\ One(opened) \in Int /\ One(left.queued /\ ~created.queued) \in Int
        /\ One(ending) \in Int /\ One(left.open /\ ~left.queued) \in Int
        /\ One(dummy[o].open /\ ~dummy[o].queued) \in Int
    BY DEF One
  <2>6. /\ Cardinality(Connected)' = Cardinality(Connected) - One(ending)
        /\ Cardinality(Counted)' = Cardinality(Counted)
             - One(dummy[o].open /\ ~dummy[o].queued) + One(left.open /\ ~left.queued)
    BY <1>9, <1>10, <2>1
  <2> QED  BY <2>2, <2>3, <2>4, <2>5, <2>6
<1>17. Exact'
  <2>1. Opened(dummy)' = Opened(d)
        /\ \A p \in Object : Holders(dummy, p)' = Holders(d, p)
    BY <1>13 DEF Opened, Holders
  <2>2. refs' \in [Object -> Nat]
    <3>1. \A p \in Object : r[p] \in Nat
      BY <1>9, <1>10, <1>12
    <3> QED  BY <1>13, <3>1 DEF RefsAdded
  <2> QED  BY <1>9, <1>10, <1>12, <1>13, <1>16, <2>1, <2>2 DEF Exact
<1>18. Stopping'
  <2>1. running'
    BY <1>1
  <2>2. ASSUME stopQueued' PROVE sessionCount' = 0
    <3>1. CASE stopQueued
      <4>1. sessionCount = 0 /\ s \in Connected
        BY <3>1 DEF Stopping, Connected
      <4>2. Cardinality(Connected) = 0 /\ IsFiniteSet(Connected)
        BY <4>1, Sizes DEF Exact
      <4> QED  BY <4>1, <4>2, FS_EmptySet
    <3> QED  BY <1>1, <2>2, <3>1 DEF Count
  <2> QED  BY <2>1, <2>2 DEF Stopping
<1> QED  BY <1>14, <1>17, <1>18

\* A turn of the dummy session of object o, which may send it away.
LEMMA TurnStep ==
  ASSUME ServerInv, NEW o \in Object, running,
         dummy' = [dummy EXCEPT ![o] = CheckAndDestroyDummySubSession(@)],
         Count(0, One(Calls(dummy[o]))),
         UNCHANGED <<phase, refs, owner, graceful, running>>,
         active' \subseteq active, placed' \subseteq active', interested' \subseteq active',
         relinquishing' \in [CallObject -> Nat]
  PROVE  ServerInv'
<1> USE DEF ServerInv
<1> DEFINE e == CheckAndDestroyDummySubSession(dummy[o])
<1>1. dummy[o] \in Good /\ dummy' = [dummy EXCEPT ![o] = e]
  BY DEF Typed
<1>2. /\ e \in Good /\ e.open = dummy[o].open
      /\ e.queued = (dummy[o].queued \/ Due(dummy[o])) /\ (Due(dummy[o]) => dummy[o].open)
  BY <1>1, CheckGood
<1> HIDE DEF e
<1>3. /\ dummy' \in [Object -> Good] /\ dummy'[o] = e
      /\ \A p \in Object \ {o} : dummy'[p] = dummy[p]
  BY <1>1, <1>2 DEF Typed
<1>4. /\ Cardinality(Counted') = Cardinality(Counted)
           - One(dummy[o].open /\ ~dummy[o].queued) + One(e.open /\ ~e.queued)
      /\ IsFiniteSet(Opened(dummy)')
      /\ \A p \in Object : Holders(dummy, p)' = Holders(dummy, p)
  <2>1. Opened(dummy)' = Opened(dummy')
    BY DEF Opened
  <2>2. \A p \in Object : dummy'[p].open = dummy[p].open
    BY <1>2, <1>3
  <2>3. /\ IsFiniteSet(Opened(dummy'))
        /\ Cardinality({p \in Object : dummy'[p].open /\ ~dummy'[p].queued})
             = Cardinality(Counted) - One(dummy[o].open /\ ~dummy[o].queued)
                                    + One(e.open /\ ~e.queued)
    <3> DEFINE d == [p \in Object |-> dummy'[p]]
    <3>1. d \in [Object -> Good] /\ d[o] = e /\ d = dummy'
          /\ \A p \in Object \ {o} : d[p] = dummy[p]
      BY <1>3
    <3> HIDE DEF d
    <3>2. d \in [Object -> Good] /\ d[o] = e /\ e \in Good
          /\ \A p \in Object \ {o} : d[p] = dummy[p]
      BY <1>2, <3>1
    <3>3. /\ IsFiniteSet(Opened(d))
          /\ Cardinality({p \in Object : d[p].open /\ ~d[p].queued})
               = Cardinality(Counted) - One(dummy[o].open /\ ~dummy[o].queued)
                                      + One(e.open /\ ~e.queued)
      BY <3>2, DummyStep
    <3>4. d = dummy'
      BY <3>1
    <3> QED  BY <3>3, <3>4
  <2>4. Counted' = {p \in Object : dummy'[p].open /\ ~dummy'[p].queued}
        /\ \A p \in Object : Holders(dummy, p)' = Holders(dummy, p)
    BY <2>2 DEF Counted, Holders
  <2> QED  BY <2>1, <2>3, <2>4
<1>5. sessionCount' = sessionCount - One(Calls(dummy[o])) /\ stopQueued' \in BOOLEAN
      /\ (stopQueued' => stopQueued \/ sessionCount' = 0)
  BY Sizes DEF Count, Typed, One
<1>6. One(Calls(dummy[o])) = One(dummy[o].open /\ ~dummy[o].queued) - One(e.open /\ ~e.queued)
  <2>1. CASE Due(dummy[o])
    <3>1. e.queued /\ dummy[o].open
      BY <1>2, <2>1
    <3> QED  BY <2>1, <3>1 DEF Calls, One
  <2>2. CASE ~Due(dummy[o])
    <3>1. (e.queued <=> dummy[o].queued) /\ (e.open <=> dummy[o].open)
      BY <1>2, <2>2
    <3> QED  BY <2>2, <3>1 DEF Calls, One
  <2> QED  BY <2>1, <2>2
<1>7. Connected' = Connected /\ \A p \in Object : Users(p)' = Users(p)
  BY DEF Connected, Users
<1>8. Typed'
  BY <1>3, <1>5, FiniteActive DEF Typed
<1>10. sessionCount' = Cardinality(Connected)' + Cardinality(Counted)'
  <2>1. /\ Cardinality(Connected) \in Nat /\ Cardinality(Counted) \in Nat
        /\ sessionCount = Cardinality(Connected) + Cardinality(Counted)
    BY Sizes DEF Exact
  <2>2. One(dummy[o].open /\ ~dummy[o].queued) \in Int /\ One(e.open /\ ~e.queued) \in Int
    BY DEF One
  <2> QED  BY <1>4, <1>5, <1>6, <1>7, <2>1, <2>2
<1>11. Exact'
  BY <1>4, <1>7, <1>10 DEF Exact
<1>12. Stopping'
  <2>1. running'
    OBVIOUS
  <2>2. ASSUME stopQueued' PROVE sessionCount' = 0
    <3>1. CASE stopQueued
      <4>1. sessionCount = 0
        BY <3>1 DEF Stopping
      <4>2. Cardinality(Counted) = 0 /\ IsFiniteSet(Counted)
        BY <4>1, Sizes DEF Exact
      <4>3. Counted = {}
        BY <4>2, FS_EmptySet
      <4>4. ~Calls(dummy[o])
        BY <1>2, <4>3 DEF Calls, Counted
      <4>5. One(Calls(dummy[o])) = 0
        BY <4>4 DEF One
      <4> QED  BY <1>5, <4>1, <4>5
    <3> QED  BY <1>5, <2>2, <3>1
  <2> QED  BY <2>1, <2>2 DEF Stopping
<1> QED  BY <1>8, <1>11, <1>12

LEMMA RunLStep ==
  ASSUME ServerInv, NEW o \in Object, RunL(o) PROVE ServerInv'
<1> USE DEF ServerInv
<1> DEFINE e == [dummy[o] EXCEPT !.open = FALSE, !.queued = FALSE]
           d == [dummy EXCEPT ![o].open = FALSE, ![o].queued = FALSE]
           r == RefsAdded(o, -1)
<1>1. /\ dummy[o].queued /\ running /\ Keep(r, d)
      /\ UNCHANGED <<phase, active, placed, interested, owner, relinquishing>>
      /\ UNCHANGED <<sessionCount, graceful, stopQueued, running>>
  BY DEF RunL, requests, calls, server
<1>2. /\ dummy[o] \in Dummy /\ dummy[o].open /\ dummy[o].count = 0 /\ ~dummy[o].wanted
  BY <1>1 DEF Typed, Good
<1>3. e \in Good /\ e.open = FALSE /\ e.queued = FALSE
  <2>1. e \in Dummy /\ e.open = FALSE /\ e.queued = FALSE
        /\ e.count = dummy[o].count /\ e.wanted = dummy[o].wanted
    BY <1>2 DEF Dummy
  <2> HIDE DEF e
  <2> QED  BY <1>2, <2>1 DEF Good
<1>4. d \in [Object -> Good] /\ d[o] = e /\ \A p \in Object \ {o} : d[p] = dummy[p]
  BY <1>3 DEF Typed
<1> HIDE DEF d, e
<1>5. /\ IsFiniteSet(Opened(d))
      /\ Cardinality({p \in Object : d[p].open /\ ~d[p].queued})
           = Cardinality(Counted) - One(dummy[o].open /\ ~dummy[o].queued)
                                  + One(e.open /\ ~e.queued)
      /\ \A p \in Object :
           /\ Cardinality(Holders(d, p)) \in Nat
           /\ d[p].open => Cardinality(Holders(d, p)) > 0
           /\ Cardinality(Holders(d, p)) = Cardinality(Holders(dummy, p))
                + IF p \in Above[o] THEN One(e.open) - One(dummy[o].open) ELSE 0
  <2>1. Typed /\ Exact
    OBVIOUS
  <2>2. /\ e \in Good /\ d \in [Object -> Good] /\ d[o] = e
        /\ \A p \in Object \ {o} : d[p] = dummy[p]
    BY <1>3, <1>4
  <2> HIDE DEF ServerInv
  <2> QED  BY ONLY <2>1, <2>2, o \in Object, DummyStep
<1>6. Connected' = Connected /\ \A p \in Object : Users(p)' = Users(p)
  BY <1>1 DEF Connected, Users
<1>7. \A p \in Object : r[p] = Cardinality(Users(p)) + Cardinality(Holders(d, p))
  <2> SUFFICES ASSUME NEW p \in Object
               PROVE  r[p] = Cardinality(Users(p)) + Cardinality(Holders(d, p))
    OBVIOUS
  <2>1. /\ refs[p] = Cardinality(Users(p)) + Cardinality(Holders(dummy, p))
        /\ Cardinality(Users(p)) \in Nat /\ Cardinality(Holders(dummy, p)) \in Nat
    BY Sizes DEF Exact
  <2>2. r[p] = IF p \in Above[o] THEN refs[p] - 1 ELSE refs[p]
    BY <2>1 DEF RefsAdded
  <2>3. One(e.open) - One(dummy[o].open) = -1
    BY <1>2, <1>3 DEF One
  <2>4. Cardinality(Holders(d, p)) = Cardinality(Holders(dummy, p))
          + IF p \in Above[o] THEN One(e.open) - One(dummy[o].open) ELSE 0
    BY <1>5
  <2> HIDE DEF r
  <2> QED  BY <2>1, <2>2, <2>3, <2>4
<1>8. refs' = r /\ dummy' = d
  <2>1. ASSUME NEW p \in Object, d[p].open PROVE r[p] # 0
    BY <1>5, <1>7, <2>1, Sizes
  <2> QED  BY <1>1, <1>4, <2>1, KeepStep
<1>9. Typed'
  BY <1>1, <1>4, <1>8 DEF Typed
<1>11. Exact'
  <2>1. /\ Opened(dummy)' = Opened(d)
        /\ \A p \in Object : Holders(dummy, p)' = Holders(d, p)
        /\ Counted' = {p \in Object : d[p].open /\ ~d[p].queued}
    BY <1>8 DEF Opened, Holders, Counted
  <2>2. refs' \in [Object -> Nat]
    <3>1. \A p \in Object : r[p] \in Nat
      BY <1>5, <1>7, Sizes
    <3> QED  BY <1>8, <3>1 DEF RefsAdded
  <2>3. Cardinality(Counted') = Cardinality(Counted)
    BY <1>1, <1>3, <1>5, <2>1, Sizes DEF One
  <2> QED  BY <1>1, <1>5, <1>6, <1>7, <1>8, <2>1, <2>2, <2>3 DEF Exact
<1>12. Stopping'
  BY <1>1 DEF Stopping
<1> QED  BY <1>9, <1>11, <1>12

-----------------------------------------------------------------------------
LEMMA ServerInvInit == Init => ServerInv
<1> SUFFICES ASSUME Init PROVE ServerInv
  OBVIOUS
<1>1. Typed
  BY GoodNoDummy, FS_EmptySet DEF Init, Typed, Phase
<1>3. Connected = {} /\ Counted = {} /\ Opened(dummy) = {}
      /\ \A o \in Object : Users(o) = {} /\ Holders(dummy, o) = {}
  BY DEF Init, Connected, Counted, Opened, Users, Holders, NoDummy
<1>4. Exact
  BY <1>3, FS_EmptySet DEF Init, Exact
<1>5. Stopping
  BY DEF Init, Stopping
<1> QED  BY <1>1, <1>4, <1>5 DEF ServerInv

LEMMA ServerInvStep ==
  ServerInv /\ [Next /\ NoLateOwner]_vars => ServerInv'
<1> SUFFICES ASSUME ServerInv, [Next /\ NoLateOwner]_vars PROVE ServerInv'
  OBVIOUS
<1> DEFINE same == UNCHANGED <<phase, refs, dummy, sessionCount>>
\* A step that moves none of the counts.
<1>1. ASSUME same, running' = running \/ (running /\ stopQueued),
             Typed', stopQueued' => stopQueued \/ sessionCount = 0
      PROVE  ServerInv'
  <2>1. Connected' = Connected /\ Counted' = Counted /\ Opened(dummy)' = Opened(dummy)
        /\ \A o \in Object : Users(o)' = Users(o) /\ Holders(dummy, o)' = Holders(dummy, o)
    BY <1>1 DEF Connected, Counted, Opened, Users, Holders
  <2>2. Exact'
    BY <1>1, <2>1 DEF ServerInv, Exact
  <2>3. Stopping'
    <3>1. stopQueued => Connected = {}
      <4>1. stopQueued => Cardinality(Connected) = 0 /\ IsFiniteSet(Connected)
        BY Sizes DEF ServerInv, Stopping, Exact
      <4> QED  BY <4>1, FS_EmptySet
    <3> QED  BY <1>1, <2>1, <3>1 DEF ServerInv, Stopping
  <2> QED  BY <1>1, <2>2, <2>3 DEF ServerInv
<1>2. ASSUME NEW s \in Session, Connect(s) \/ OpenSubSession(s) PROVE ServerInv'
  BY <1>2, ConnectStep, OpenStep
<1>3. ASSUME NEW s \in Session, CloseSubSession(s), NoLateOwner PROVE ServerInv'
  BY <1>3, CloseStep DEF CloseSubSession
<1>4. ASSUME NEW s \in Session, CloseSession(s), NoLateOwner PROVE ServerInv'
  <2>1. CASE phase[s] = "open"
    BY <1>4, <2>1, CloseStep DEF CloseSession
  <2>2. CASE phase[s] \in {"connected", "closed"}
    <3>1. /\ running /\ phase' = [phase EXCEPT ![s] = "gone"] /\ Count(0, 1)
          /\ UNCHANGED <<refs, active, placed, interested, dummy>>
          /\ UNCHANGED <<owner, relinquishing, graceful, running>>
      BY <1>4, <2>2 DEF CloseSession, requests, calls
    <3>2. /\ phase' \in [Session -> Phase]
          /\ IsFiniteSet(Connected') /\ Cardinality(Connected') = Cardinality(Connected) - 1
          /\ \A o \in Object : Cardinality(Users(o)') = Cardinality(Users(o))
      <4>1. "gone" \in Phase
        BY DEF Phase
      <4>2. /\ phase' \in [Session -> Phase]
            /\ IsFiniteSet(Connected')
            /\ Cardinality(Connected') = Cardinality(Connected)
                 - One(phase[s] \in {"connected", "open", "closed"})
                 + One("gone" \in {"connected", "open", "closed"})
            /\ \A o \in Object :
                  Cardinality(Users(o)') = Cardinality(Users(o))
                    + IF o \in Above[ObjectOf[s]]
                      THEN One("gone" = "open") - One(phase[s] = "open") ELSE 0
        BY <3>1, <4>1, PhaseStep DEF ServerInv
      <4> QED  BY <2>2, <4>2, Sizes DEF One, ServerInv
    <3>3. Typed'
      BY <3>1, <3>2 DEF ServerInv, Typed, Count
    <3>5. Exact'
      <4>1. Counted' = Counted /\ Opened(dummy)' = Opened(dummy)
            /\ \A o \in Object : Holders(dummy, o)' = Holders(dummy, o)
        BY <3>1 DEF Counted, Opened, Holders
      <4> QED  BY <3>1, <3>2, <4>1, Sizes DEF ServerInv, Exact, Count
    <3>6. Stopping'
      <4>1. sessionCount' = sessionCount - 1
            /\ (stopQueued' => stopQueued \/ sessionCount' = 0)
        <5>1. sessionCount \in Nat
          BY Sizes DEF ServerInv
        <5>2. sessionCount' = sessionCount + 0 - 1
              /\ (stopQueued' <=> stopQueued \/ (1 > 0 /\ sessionCount' = 0 /\ graceful))
          <6>1. sessionCount' = sessionCount + 0 - 1
            BY <3>1 DEF Count
          <6>2. stopQueued' = (stopQueued \/ (1 > 0 /\ sessionCount' = 0 /\ graceful))
            BY <3>1 DEF Count
          <6> QED  BY <6>1, <6>2
        <5>3. sessionCount' = sessionCount - 1
          BY <5>1, <5>2
        <5> QED  BY <5>2, <5>3
      <4>2. ~stopQueued
        <5>1. s \in Connected
          BY <2>2 DEF Connected
        <5>2. Cardinality(Connected) # 0
          BY <5>1, FS_EmptySet DEF ServerInv, Exact
        <5> QED  BY <5>2, Sizes DEF ServerInv, Stopping, Exact
      <4> QED  BY <3>1, <4>1, <4>2 DEF Stopping
    <3> QED  BY <3>3, <3>5, <3>6 DEF ServerInv
  <2> QED  BY <1>4, <2>1, <2>2 DEF CloseSession
<1>5. ASSUME NEW k \in Key, Post(k) PROVE ServerInv'
  <2>1. /\ running /\ same /\ UNCHANGED <<owner, relinquishing, graceful, stopQueued, running>>
        /\ active' = active \cup {k} /\ interested' = interested \cup {k}
        /\ placed' \in {placed, placed \cup {k}}
    BY <1>5 DEF Post, calls, server
  <2>2. IsFiniteSet(active')
    BY <2>1, FS_AddElement DEF ServerInv, Typed
  <2>3. Typed'
    BY <2>1, <2>2 DEF ServerInv, Typed
  <2> QED  BY <1>1, <2>1, <2>3
<1>6. ASSUME NEW k \in Key, Notified(k) \/ Answered(k) \/ Cancelled(k) PROVE ServerInv'
  <2>1. \E gone, next : ReqCompleted(k, gone, next) /\ next \subseteq active \ gone
    <3>1. \A j \in Sharers(k) : j \in active \ {k}
      BY DEF Sharers
    <3> QED  BY <1>6, <3>1 DEF Notified, Answered, Cancelled
  <2> PICK gone, next : ReqCompleted(k, gone, next) /\ next \subseteq active \ gone
    BY <2>1
  <2> DEFINE o == ObjectOf[k[1]]
  <2>2. /\ running
        /\ active' = active \ gone /\ placed' = (placed \ gone) \cup next
        /\ interested' = interested \ gone
        /\ dummy' = [dummy EXCEPT ![o] = CheckAndDestroyDummySubSession(@)]
        /\ Count(0, One(Calls(dummy[o])))
        /\ UNCHANGED <<phase, refs, owner, relinquishing, graceful, running>>
    BY DEF ReqCompleted, calls
  <2>3. o \in Object
    BY ObjectAssumption DEF Key
  <2>4. /\ active' \subseteq active /\ placed' \subseteq active' /\ interested' \subseteq active'
        /\ relinquishing' \in [CallObject -> Nat]
    BY <2>2 DEF ServerInv, Typed
  <2> HIDE DEF o
  <2> QED  BY <2>2, <2>3, <2>4, TurnStep
<1>7. ASSUME NEW k \in Key, SetOwnership(k) PROVE ServerInv'
  <2>1. /\ running /\ same /\ ObjectOf[k[1]] \in CallObject
        /\ owner' = [owner EXCEPT ![ObjectOf[k[1]]] = k[1]]
        /\ UNCHANGED <<active, placed, interested, relinquishing, graceful, stopQueued, running>>
    BY <1>7 DEF SetOwnership, requests, server
  <2>2. Typed'
    BY <2>1 DEF ServerInv, Typed, Key
  <2> QED  BY <1>1, <2>1, <2>2
<1>8. ASSUME NEW o \in CallObject, SetUnowned(o) PROVE ServerInv'
  <2>1. /\ running /\ same /\ owner' = [owner EXCEPT ![o] = NoSession]
        /\ UNCHANGED <<active, placed, interested, relinquishing, graceful, stopQueued, running>>
    BY <1>8 DEF SetUnowned, requests, server
  <2>2. Typed'
    BY <2>1 DEF ServerInv, Typed
  <2> QED  BY <1>1, <2>1, <2>2
<1>9. ASSUME NEW o \in CallObject, RelinquishOwnershipCompleted(o) PROVE ServerInv'
  <2>1. /\ running /\ relinquishing[o] > 0
        /\ relinquishing' = [relinquishing EXCEPT ![o] = @ - 1]
        /\ dummy' = [dummy EXCEPT ![o] = CheckAndDestroyDummySubSession(@)]
        /\ Count(0, One(Calls(dummy[o])))
        /\ UNCHANGED <<phase, refs, active, placed, interested, owner, graceful, running>>
    BY <1>9 DEF RelinquishOwnershipCompleted, requests
  <2>2. o \in Object /\ active' \subseteq active /\ placed' \subseteq active'
        /\ interested' \subseteq active' /\ relinquishing' \in [CallObject -> Nat]
    BY <2>1, ObjectAssumption DEF ServerInv, Typed
  <2> QED  BY <2>1, <2>2, TurnStep
<1>10. ASSUME NEW o \in Object, RunL(o) PROVE ServerInv'
  BY <1>10, RunLStep
<1>11. CASE CFMessageShutdown
  <2>1. /\ running /\ same /\ stopQueued' = (sessionCount = 0) /\ graceful' = TRUE
        /\ UNCHANGED <<active, placed, interested, owner, relinquishing, running>>
    BY <1>11 DEF CFMessageShutdown, requests, calls
  <2>2. Typed'
    BY <2>1 DEF ServerInv, Typed
  <2> QED  BY <1>1, <2>1, <2>2
<1>12. CASE Stop
  <2>1. /\ running /\ stopQueued /\ same /\ stopQueued' = FALSE /\ running' = FALSE
        /\ UNCHANGED <<active, placed, interested, owner, relinquishing, graceful>>
    BY <1>12 DEF Stop, requests, calls
  <2>2. Typed'
    BY <2>1 DEF ServerInv, Typed
  <2> QED  BY <1>1, <2>1, <2>2
<1>13. CASE UNCHANGED vars
  <2>1. /\ same /\ UNCHANGED <<active, placed, interested, owner, relinquishing>>
        /\ UNCHANGED <<graceful, stopQueued, running>>
    BY <1>13 DEF vars, requests, calls, server
  <2>2. Typed'
    BY <2>1 DEF ServerInv, Typed
  <2> QED  BY <1>1, <2>1, <2>2
<1> QED  BY <1>2, <1>3, <1>4, <1>5, <1>6, <1>7, <1>8, <1>9, <1>10, <1>11, <1>12, <1>13 DEF Next

LEMMA ServerInvariant == Spec /\ [][NoLateOwner]_vars => []ServerInv
<1>1. [Next]_vars /\ [NoLateOwner]_vars => [Next /\ NoLateOwner]_vars
  OBVIOUS
<1> QED  BY <1>1, ServerInvStep, ServerInvInit, PTL DEF Spec

-----------------------------------------------------------------------------
\* In each theorem any number of sessions share phones and calls, and hand the
\* ownership of a call to each other; the condition is that no owner closes a call
\* between the last turn of its dummy session and RunL of that.

\* The type invariant: in particular the counts of the server, the objects and the
\* dummy sessions stay natural, so that Dec finds none of them negative.
THEOREM ServerTypeCorrect == Spec /\ [][NoLateOwner]_vars => []ServerTypeOK
<1>1. ServerInv => ServerTypeOK
  BY Sizes DEF ServerInv, Typed, Exact, ServerTypeOK, Good
<1> QED  BY <1>1, ServerInvariant, PTL

\* The session count is the number of the sessions and of the dummy sessions that
\* have not been sent away, however the clients of the objects come and go, as long
\* as no owner closes late.
THEOREM SessionCountCorrect == Spec /\ [][NoLateOwner]_vars => []SessionCountExact
<1>1. ServerInv => SessionCountExact
  BY DEF ServerInv, Exact, SessionCountExact, Connected, Counted
<1> QED  BY <1>1, ServerInvariant, PTL

\* No reference to an object is lost or taken twice, along any chain of owners, as
\* long as no owner closes late.
THEOREM ReferencesCorrect == Spec /\ [][NoLateOwner]_vars => []ReferencesExact
<1>1. ServerInv => ReferencesExact
  BY DEF ServerInv, Exact, ReferencesExact, Users, Holders
<1> QED  BY <1>1, ServerInvariant, PTL

\* A stop that is queued is withdrawn when a client comes: the server never stops
\* under a session, as long as no owner closes late.
THEOREM NeverStopsUsed == Spec /\ [][NoLateOwner]_vars => []StopsUnused
<1>1. ServerInv => StopsUnused
  BY DEF ServerInv, Typed, Stopping, StopsUnused, Connected, Phase
<1> QED  BY <1>1, ServerInvariant, PTL
=============================================================================
