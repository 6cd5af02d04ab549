----------------------------- MODULE DataProofs -----------------------------
(***************************************************************************)
(* Theorems about what clients see: the lock service, the clocks, the       *)
(* replicated data types, the rate limiters, the routing of requests and    *)
(* distributed queries, for every set of clients, processes, replicas,      *)
(* limiters, shards and keys.                                               *)
(***************************************************************************)
EXTENDS LogicalClocks, SetCRDT, RateLimiters, DistLock, Sharding, Query,
        NatFacts, FiniteSetTheorems, SequenceTheorems, TLAPS

-----------------------------------------------------------------------------
(* DistributedLockService *)

\* A grant carries the highest token given out, and that is its holder's ticket only.
DistLockInv ==
    /\ grant \in [holder : Client \cup {NoClient}, token : Nat, valid : BOOLEAN]
    /\ nextToken \in Nat \ {0}
    /\ ticket \in [Client -> Nat]
    /\ lastUse \in Nat /\ lastUse <= nextToken
    /\ \A c \in Client : ticket[c] <= nextToken
    /\ \A c, d \in Client : ticket[c] = ticket[d] /\ ticket[c] # 0 => c = d
    /\ grant.holder = NoClient => grant = NoGrant
    /\ grant.holder # NoClient => grant.token = nextToken /\ ticket[grant.holder] = nextToken

\* The calls of the clients and the passing of time keep DistLockInv.
LEMMA DistLockInvStep == DistLockInv /\ [DistLockNext]_distLockVars => DistLockInv'
<1> SUFFICES ASSUME DistLockInv, [DistLockNext]_distLockVars
             PROVE  DistLockInv'
  OBVIOUS
<1> USE DistLockAssumption DEF DistLockInv, NoGrant
<1>1. ASSUME NEW c \in Client, Acquire(c)
      PROVE  DistLockInv'
  BY <1>1 DEF Acquire
<1>2. ASSUME NEW c \in Client, Release(c)
      PROVE  DistLockInv'
  BY <1>2 DEF Release
<1>3. ASSUME NEW c \in Client, Renew(c)
      PROVE  DistLockInv'
  BY <1>3 DEF Renew
<1>4. ASSUME NEW c \in Client, UseResource(c)
      PROVE  DistLockInv'
  BY <1>4 DEF UseResource
<1>5. CASE GrantExpires
  <2>1. grant.holder # NoClient
    BY <1>5 DEF GrantExpires
  <2>2. grant' = [holder |-> grant.holder, token |-> grant.token, valid |-> FALSE]
    BY <1>5 DEF GrantExpires
  <2>3. UNCHANGED <<nextToken, ticket, lastUse>>
    BY <1>5 DEF GrantExpires
  <2>4. QED
    BY <2>1, <2>2, <2>3
<1>6. CASE DropExpired
  BY <1>6 DEF DropExpired
<1>7. CASE UNCHANGED distLockVars
  BY <1>7 DEF distLockVars
<1>8. QED
  BY <1>1, <1>2, <1>3, <1>4, <1>5, <1>6, <1>7 DEF DistLockNext

\* A valid grant changes only by its expiry or by the release of its holder.
LEMMA GrantKeptStep ==
    ASSUME DistLockInv, [DistLockNext]_distLockVars, grant.valid, grant' # grant
    PROVE  \/ grant' = [grant EXCEPT !.valid = FALSE]
           \/ grant' = NoGrant /\ releasedBy' = grant.holder
<1> USE DistLockAssumption DEF DistLockInv, NoGrant
<1>1. ASSUME NEW c \in Client, Release(c)
      PROVE  grant' = NoGrant /\ releasedBy' = grant.holder
  BY <1>1 DEF Release
<1>2. ASSUME NEW c \in Client, Acquire(c) \/ UseResource(c)
      PROVE  FALSE
  BY <1>2 DEF Acquire, UseResource
<1>3. ASSUME NEW c \in Client, Renew(c)
      PROVE  FALSE
  <2>1. grant' = [grant EXCEPT !.valid = TRUE]
    BY <1>3 DEF Renew
  <2>2. grant.valid = TRUE
    OBVIOUS
  <2>3. grant' = grant
    BY <2>1, <2>2
  <2>4. QED
    BY <2>3
<1>4. CASE GrantExpires \/ DropExpired
  BY <1>4 DEF GrantExpires, DropExpired
<1>5. CASE UNCHANGED distLockVars
  BY <1>5 DEF distLockVars
<1>6. QED
  BY <1>1, <1>2, <1>3, <1>4, <1>5 DEF DistLockNext

\* The holder of the lock is neither joined by a client that held it before nor deprived
\* of it by one (Acquire, Release, Renew, VerifyToken).
THEOREM HolderProtected == DistLockSpec => HolderIsProtected
<1>1. DistLockInit => DistLockInv
  BY DistLockAssumption DEF DistLockInit, DistLockInv, NoGrant
<1>2. DistLockInv /\ [DistLockNext]_distLockVars => DistLockInv'
  BY DistLockInvStep
<1>3. DistLockInv => OnlyTheHolderGetsIn
  BY DistLockAssumption DEF DistLockInv, NoGrant, OnlyTheHolderGetsIn, VerifyToken
<1> DEFINE Kept == grant.valid /\ grant' # grant =>
                     \/ grant' = [grant EXCEPT !.valid = FALSE]
                     \/ grant' = NoGrant /\ releasedBy' = grant.holder
<1>4. DistLockInv /\ [DistLockNext]_distLockVars => [Kept]_distLockVars
  BY GrantKeptStep
<1>5. QED
  BY <1>1, <1>2, <1>3, <1>4, PTL DEF DistLockSpec, HolderIsProtected, GrantIsKept

-----------------------------------------------------------------------------
(* Arithmetic of the clocks *)

\* The greater of two naturals.
LEMMA MaxOfTwo ==
    ASSUME NEW a \in Nat, NEW b \in Nat
    PROVE  Max({a, b}) = IF a >= b THEN a ELSE b
<1> DEFINE m == IF a >= b THEN a ELSE b
<1>1. m \in {a, b} /\ \A y \in {a, b} : m >= y
  OBVIOUS
<1>2. ASSUME NEW x \in {a, b}, \A y \in {a, b} : x >= y
      PROVE  x = m
  BY <1>2
<1>3. QED
  BY <1>1, <1>2 DEF Max

\* The greatest of three naturals.
LEMMA MaxOfThree ==
    ASSUME NEW a \in Nat, NEW b \in Nat, NEW c \in Nat
    PROVE  /\ Max({a, b, c}) \in {a, b, c}
           /\ Max({a, b, c}) >= a /\ Max({a, b, c}) >= b /\ Max({a, b, c}) >= c
<1>1. \E x \in {a, b, c} : \A y \in {a, b, c} : x >= y
  <2>1. CASE a >= b /\ a >= c
    BY <2>1
  <2>2. CASE b >= a /\ b >= c
    BY <2>2
  <2>3. CASE c >= a /\ c >= b
    BY <2>3
  <2>4. QED
    BY <2>1, <2>2, <2>3
<1>2. QED
  BY <1>1 DEF Max

\* NewTimestamp followed by Physical and Logical gives the parts back, the other way
\* around the timestamp: the packing loses nothing.
LEMMA Unpack ==
    ASSUME NEW ts \in Nat
    PROVE  /\ PhysicalOf(ts) \in Nat
           /\ LogicalOf(ts) \in 0 .. CounterRange - 1
           /\ ts = Pack(PhysicalOf(ts), LogicalOf(ts))
BY HLCAssumption DEF PhysicalOf, LogicalOf, Pack

\* A timestamp with a later physical part is later, and so is one with the same physical
\* part and a higher counter.
LEMMA PackOrder ==
    ASSUME NEW l \in Nat, NEW m \in Nat,
           NEW c \in 0 .. CounterRange - 1, NEW d \in Nat,
           l < m \/ (l = m /\ c < d)
    PROVE  Pack(l, c) \in Nat /\ Pack(l, c) < Pack(m, d)
<1> USE HLCAssumption DEF Pack
<1>1. l * CounterRange \in Nat /\ m * CounterRange \in Nat
  OBVIOUS
<1>2. CASE l = m /\ c < d
  BY <1>1, <1>2
<1>3. CASE l < m
  <2>1. PICK k \in Nat : m = l + 1 + k
    <3>1. m - l - 1 \in Nat /\ m = l + 1 + (m - l - 1)
      BY <1>3
    <3>2. QED
      BY <3>1
  <2>2. m * CounterRange = l * CounterRange + CounterRange + k * CounterRange
    BY <2>1
  <2>3. k * CounterRange \in Nat
    BY <2>1
  <2>4. QED
    BY <1>1, <2>2, <2>3
<1>4. QED
  BY <1>2, <1>3

-----------------------------------------------------------------------------
(* HybridLogicalClock *)

\* The shapes of the variables, and a node's last answer is its clock.
HLCType ==
    /\ hlcL \in [HLCNode -> Nat]
    /\ hlcC \in [HLCNode -> 0 .. CounterRange - 1]
    /\ hlcSent \in SUBSET Nat
    /\ hlcLast \in [HLCNode -> Nat]
    /\ hlcBefore \in [HLCNode -> Nat]
    /\ hlcTop \in [HLCNode -> Nat]
    /\ hlcWrapped \in [HLCNode -> BOOLEAN]
    /\ \A n \in HLCNode : hlcLast[n] = Pack(hlcL[n], hlcC[n])

HLCInv == HLCType /\ HLCAdvances /\ SkewIsBounded

\* A call that answers within the skew, and above what the node knew unless its counter
\* goes round, keeps the invariant.
LEMMA HLCReturnsKeeps ==
    ASSUME HLCInv,
           NEW n \in HLCNode, NEW l \in Nat, NEW c \in 0 .. CounterRange, NEW wraps \in BOOLEAN,
           NEW wall \in Nat, NEW heard \in Nat,
           HLCReturns(n, l, c, wraps, wall, heard),
           c = CounterRange => wraps,
           c < CounterRange => Pack(l, c) > heard,
           l <= hlcTop[n] + MaxSkew \/ l <= wall + MaxSkew
    PROVE  HLCInv'
<1> DEFINE r == c % CounterRange
<1>1. r \in 0 .. CounterRange - 1 /\ (c < CounterRange => r = c)
  BY HLCAssumption
<1>2. Pack(l, r) \in Nat
  BY <1>1, HLCAssumption DEF Pack
<1>3. /\ hlcL' = [hlcL EXCEPT ![n] = l]
      /\ hlcC' = [hlcC EXCEPT ![n] = r]
      /\ hlcLast' = [hlcLast EXCEPT ![n] = Pack(l, r)]
      /\ hlcBefore' = [hlcBefore EXCEPT ![n] = heard]
      /\ hlcSent' = hlcSent \cup {Pack(l, r)}
      /\ hlcTop' = [hlcTop EXCEPT ![n] = Max({hlcTop[n], wall})]
      /\ hlcWrapped' = [hlcWrapped EXCEPT ![n] = hlcWrapped[n] \/ wraps]
  BY DEF HLCReturns, HLCInv, HLCType
<1> HIDE DEF r
<1> DEFINE top == Max({hlcTop[n], wall})
<1>4. hlcTop[n] \in Nat /\ top \in Nat /\ top >= hlcTop[n] /\ top >= wall
  <2>1. hlcTop[n] \in Nat
    BY DEF HLCInv, HLCType
  <2>2. QED
    BY <2>1, MaxOfTwo
<1> HIDE DEF top
<1>5. HLCType'
  BY <1>1, <1>2, <1>3, <1>4 DEF HLCInv, HLCType, top
<1>6. HLCAdvances'
  <2> SUFFICES ASSUME NEW m \in HLCNode, hlcLast'[m] > 0, ~hlcWrapped'[m]
               PROVE  hlcLast'[m] > hlcBefore'[m]
    BY DEF HLCAdvances
  <2>1. CASE m = n
    <3>1. ~wraps
      BY <1>3, <2>1 DEF HLCInv, HLCType
    <3>2. c < CounterRange
      BY <3>1, HLCAssumption
    <3>3. hlcLast'[m] = Pack(l, c) /\ hlcBefore'[m] = heard
      BY <1>1, <1>3, <2>1, <3>2 DEF HLCInv, HLCType
    <3>4. QED
      BY <3>2, <3>3
  <2>2. CASE m # n
    BY <1>3, <2>2 DEF HLCInv, HLCType, HLCAdvances
  <2>3. QED
    BY <2>1, <2>2
<1>7. SkewIsBounded'
  <2> SUFFICES ASSUME NEW m \in HLCNode
               PROVE  hlcL'[m] <= hlcTop'[m] + MaxSkew
    BY DEF SkewIsBounded
  <2>1. CASE m = n
    <3>1. hlcL'[m] = l /\ hlcTop'[m] = top
      BY <1>3, <2>1 DEF HLCInv, HLCType, top
    <3>2. QED
      BY <1>4, <3>1, HLCAssumption
  <2>2. CASE m # n
    BY <1>3, <2>2 DEF HLCInv, HLCType, SkewIsBounded
  <2>3. QED
    BY <2>1, <2>2
<1>8. QED
  BY <1>5, <1>6, <1>7 DEF HLCInv

\* Now advances the clock.
LEMMA NowAdvances ==
    ASSUME HLCInv, NEW n \in HLCNode, NEW wall \in 1 .. MaxWall, Now(n, wall)
    PROVE  HLCInv'
<1> DEFINE l == Max({wall, hlcL[n]})
           c == IF l = hlcL[n] THEN hlcC[n] + 1 ELSE 0
<1>1. /\ wall \in Nat /\ hlcL[n] \in Nat /\ hlcC[n] \in 0 .. CounterRange - 1
      /\ hlcLast[n] \in Nat /\ hlcTop[n] \in Nat
      /\ hlcLast[n] = Pack(hlcL[n], hlcC[n])
      /\ hlcL[n] <= hlcTop[n] + MaxSkew
  BY HLCAssumption DEF HLCInv, HLCType, SkewIsBounded
<1>2. l = IF wall >= hlcL[n] THEN wall ELSE hlcL[n]
  BY <1>1, MaxOfTwo
<1>3. HLCReturns(n, l, c, c = CounterRange, wall, hlcLast[n])
  BY DEF Now
<1> HIDE DEF l
<1>4. l \in Nat /\ l >= hlcL[n]
  BY <1>1, <1>2
<1>5. c \in 0 .. CounterRange
  BY <1>1, HLCAssumption
<1>6. Pack(l, c) > hlcLast[n]
  <2>1. hlcL[n] < l \/ (hlcL[n] = l /\ hlcC[n] < c)
    BY <1>1, <1>4
  <2>2. c \in Nat
    BY <1>5, HLCAssumption
  <2> HIDE DEF c
  <2>3. Pack(hlcL[n], hlcC[n]) < Pack(l, c)
    BY <1>1, <1>4, <2>1, <2>2, PackOrder
  <2>4. Pack(l, c) \in Nat
    BY <1>4, <2>2, HLCAssumption DEF Pack
  <2>5. QED
    BY <1>1, <2>3, <2>4
<1>7. l <= hlcTop[n] + MaxSkew \/ l <= wall + MaxSkew
  BY <1>1, <1>2, HLCAssumption
<1> HIDE DEF c
<1>8. QED
  BY <1>1, <1>3, <1>4, <1>5, <1>6, <1>7, HLCReturnsKeeps

\* Update advances the clock beyond both the node's past and the message.
LEMMA UpdateAdvances ==
    ASSUME HLCInv, NEW n \in HLCNode, NEW wall \in 1 .. MaxWall, NEW msg \in hlcSent,
           Update(n, msg, wall)
    PROVE  HLCInv'
<1> DEFINE pm == PhysicalOf(msg)
           cm == LogicalOf(msg)
           l == Max({wall, hlcL[n], pm})
           c == MergedCounter(n, msg, l)
           heard == Max({hlcLast[n], msg})
<1>1. /\ wall \in Nat /\ hlcL[n] \in Nat /\ hlcC[n] \in 0 .. CounterRange - 1
      /\ hlcLast[n] \in Nat /\ hlcTop[n] \in Nat /\ msg \in Nat
      /\ hlcLast[n] = Pack(hlcL[n], hlcC[n])
      /\ hlcL[n] <= hlcTop[n] + MaxSkew
  BY HLCAssumption DEF HLCInv, HLCType, SkewIsBounded
<1>2. pm \in Nat /\ cm \in 0 .. CounterRange - 1 /\ msg = Pack(pm, cm)
  BY <1>1, Unpack
<1>3. HLCReturns(n, l, c, c = CounterRange, wall, heard) /\ pm <= wall + MaxSkew
  BY DEF Update, WithinSkew
<1>4. c = CASE l = hlcL[n] /\ l = pm -> Max({hlcC[n], cm}) + 1
            [] l = hlcL[n] /\ l # pm -> hlcC[n] + 1
            [] l # hlcL[n] /\ l = pm -> cm + 1
            [] OTHER -> 0
  BY DEF MergedCounter
<1>5. l \in {wall, hlcL[n], pm} /\ l >= wall /\ l >= hlcL[n] /\ l >= pm
  BY <1>1, <1>2, MaxOfThree
<1>6. Max({hlcC[n], cm}) = IF hlcC[n] >= cm THEN hlcC[n] ELSE cm
  <2>1. hlcC[n] \in Nat /\ cm \in Nat
    BY <1>1, <1>2, HLCAssumption
  <2>2. QED
    BY <2>1, MaxOfTwo
<1>7. heard \in {hlcLast[n], msg} /\ heard \in Nat
  BY <1>1, MaxOfTwo
<1> HIDE DEF pm, cm, l, c, heard
<1>8. /\ c \in 0 .. CounterRange
      /\ hlcL[n] < l \/ (hlcL[n] = l /\ hlcC[n] < c)
      /\ pm < l \/ (pm = l /\ cm < c)
  BY <1>1, <1>2, <1>4, <1>5, <1>6, HLCAssumption
<1>9. l \in Nat /\ c \in Nat
  BY <1>1, <1>2, <1>5, <1>8, HLCAssumption
<1>10. Pack(l, c) > heard
  <2>1. Pack(hlcL[n], hlcC[n]) < Pack(l, c)
    BY <1>1, <1>8, <1>9, PackOrder
  <2>2. Pack(pm, cm) < Pack(l, c)
    BY <1>2, <1>8, <1>9, PackOrder
  <2>3. Pack(l, c) \in Nat
    BY <1>9, HLCAssumption DEF Pack
  <2>4. QED
    BY <1>1, <1>2, <1>7, <2>1, <2>2, <2>3
<1>11. l <= hlcTop[n] + MaxSkew \/ l <= wall + MaxSkew
  BY <1>1, <1>2, <1>3, <1>5, HLCAssumption
<1>12. QED
  BY <1>1, <1>3, <1>7, <1>8, <1>9, <1>10, <1>11, HLCReturnsKeeps

\* The hybrid clock advances with every answer and stays within the skew of the node's
\* own wall clock, whatever the wall clocks do and whichever timestamps are received.
LEMMA HLCInvariant == HLCSpec => [](HLCAdvances /\ SkewIsBounded)
<1>1. HLCInit => HLCInv
  BY HLCAssumption DEF HLCInit, HLCInv, HLCType, HLCAdvances, SkewIsBounded, Pack
<1>2. HLCInv /\ [HLCNext]_hlcVars => HLCInv'
  <2> SUFFICES ASSUME HLCInv, [HLCNext]_hlcVars
               PROVE  HLCInv'
    OBVIOUS
  <2>1. CASE HLCNext
    BY <2>1, NowAdvances, UpdateAdvances DEF HLCNext
  <2>2. CASE UNCHANGED hlcVars
    BY <2>2 DEF hlcVars, HLCInv, HLCType, HLCAdvances, SkewIsBounded
  <2>3. QED
    BY <2>1, <2>2
<1>3. HLCInv => HLCAdvances /\ SkewIsBounded
  BY DEF HLCInv
<1>4. QED
  BY <1>1, <1>2, <1>3, PTL DEF HLCSpec

-----------------------------------------------------------------------------
(* LamportClock and VectorClock *)

Event == [id : Nat, proc : Proc, lamport : Nat, vec : [Proc -> Nat], past : SUBSET Nat]

ClockType ==
    /\ counter \in [Proc -> Nat]
    /\ vector \in [Proc -> [Proc -> Nat]]
    /\ receiving \in [Proc -> [msg : Nat, loaded : Nat]]
    /\ events \in SUBSET Event /\ IsFiniteSet(events)

\* Events are numbered without repetition, and the past of an event is older than it.
EventsAreNumbered ==
    /\ \A e \in events : e.id <= Cardinality(events)
    /\ \A e, f \in events : e.id = f.id => e = f
    /\ \A e \in events : \A i \in e.past : i < e.id

\* One vector is at most another in every entry.
AtMost(a, b) == \A q \in Proc : a[q] <= b[q]

\* What an event knows of, it has counted, and nothing else: an event whose own entry its
\* vector covers is in its past.
EventsCountTheirPast ==
    \A e, f \in events :
        /\ e.id \in f.past => AtMost(e.vec, f.vec) /\ e.lamport < f.lamport
        /\ e.vec[e.proc] <= f.vec[e.proc] => e.id \in f.past \cup {f.id}

\* The same for what a process knows of at present.
ProcessesCountTheirPast ==
    \A e \in events, p \in Proc :
        /\ e.id \in PastOf(p) => AtMost(e.vec, vector[p]) /\ e.lamport <= counter[p]
        /\ e.vec[e.proc] <= vector[p][e.proc] => e.id \in PastOf(p)

\* Nobody counts more events of a process than the process itself.
OwnEntryIsHighest ==
    \A q \in Proc :
        /\ \A e \in events : e.vec[q] <= vector[q][q]
        /\ \A p \in Proc : vector[p][q] <= vector[q][q]

ClockInv ==
    /\ ClockType /\ EventsAreNumbered
    /\ EventsCountTheirPast /\ ProcessesCountTheirPast /\ OwnEntryIsHighest

\* The past of a process is that of its events and the events themselves.
LEMMA PastOfProcess ==
    ASSUME NEW p, NEW i
    PROVE  i \in PastOf(p) <=> \E e \in events : e.proc = p /\ (i \in e.past \/ i = e.id)
BY DEF PastOf

\* What a process knows of has happened.
LEMMA PastIsKnown ==
    ASSUME ClockInv, NEW p \in Proc
    PROVE  PastOf(p) \subseteq 0 .. Cardinality(events)
<1>1. Cardinality(events) \in Nat
  BY FS_CardinalityType DEF ClockInv, ClockType
<1> SUFFICES ASSUME NEW i \in PastOf(p)
             PROVE  i \in 0 .. Cardinality(events)
  OBVIOUS
<1>2. PICK e \in events : i \in e.past \/ i = e.id
  BY PastOfProcess
<1>3. e \in Event /\ e.id <= Cardinality(events) /\ (i \in e.past => i < e.id)
  BY DEF ClockInv, ClockType, EventsAreNumbered
<1>4. e.id \in Nat /\ i \in Nat
  BY <1>2, <1>3 DEF Event
<1>5. QED
  BY <1>1, <1>2, <1>3, <1>4

\* Timestamps that cover exactly a past and go beyond the clocks of the process.
Covers(p, lam, vec, past) ==
    /\ lam \in Nat /\ vec \in [Proc -> Nat] /\ past \in SUBSET (0 .. Cardinality(events))
    /\ PastOf(p) \subseteq past
    /\ lam > counter[p]
    /\ vec[p] > vector[p][p]
    /\ \A q \in Proc \ {p} : vec[q] <= vector[q][q]
    /\ \A x \in events : x.id \in past => AtMost(x.vec, vec) /\ x.lamport < lam
    /\ \A x \in events : x.proc # p /\ x.vec[x.proc] <= vec[x.proc] => x.id \in past

\* An event with timestamps that cover its past keeps the invariant.
LEMMA HappensKeeps ==
    ASSUME ClockInv, NEW p \in Proc, NEW lam, NEW vec, NEW past,
           Covers(p, lam, vec, past),
           Happens(p, lam, vec, past),
           receiving' \in [Proc -> [msg : Nat, loaded : Nat]]
    PROVE  ClockInv'
<1> USE DEF Covers
<1> DEFINE N == Cardinality(events)
           g == [id |-> N + 1, proc |-> p, lamport |-> lam, vec |-> vec, past |-> past]
<1>1. IsFiniteSet(events) /\ N \in Nat
  BY FS_CardinalityType DEF ClockInv, ClockType
<1>2. /\ counter' = [counter EXCEPT ![p] = lam]
      /\ vector' = [vector EXCEPT ![p] = vec]
      /\ events' = events \cup {g}
  BY DEF Happens, NextEvent
<1>3. g \notin events /\ \A x \in events : x \in Event /\ x.id < g.id
  BY <1>1 DEF ClockInv, ClockType, EventsAreNumbered, Event
<1>4. IsFiniteSet(events') /\ Cardinality(events') = N + 1
  BY <1>1, <1>2, <1>3, FS_AddElement
<1>5. g \in Event /\ g.id = N + 1 /\ g.proc = p /\ g.lamport = lam /\ g.vec = vec /\ g.past = past
  BY <1>1 DEF Event
<1> HIDE DEF N, g
<1>6. counter \in [Proc -> Nat] /\ vector \in [Proc -> [Proc -> Nat]]
  BY DEF ClockInv, ClockType
<1>7. \A x \in events : x.vec \in [Proc -> Nat] /\ x.proc \in Proc /\ x.id \in Nat /\ x.lamport \in Nat
  BY <1>3 DEF Event
<1>8. ClockType'
  BY <1>2, <1>4, <1>5, <1>6 DEF ClockInv, ClockType
<1>9. EventsAreNumbered'
  <2>1. \A x \in events : x.id <= N + 1
    BY <1>1, <1>7 DEF ClockInv, EventsAreNumbered, N
  <2>2. \A j \in g.past : j < g.id
    <3> SUFFICES ASSUME NEW j \in past
                 PROVE  j < N + 1
      BY <1>5
    <3>1. j \in Nat /\ j <= N
      BY <1>1 DEF N
    <3>2. QED
      BY <1>1, <3>1
  <2>3. \A x \in events : x.id # g.id
    BY <1>3, <1>5, <1>7, <1>1
  <2>4. QED
    BY <1>1, <1>2, <1>4, <1>5, <2>1, <2>2, <2>3 DEF ClockInv, EventsAreNumbered
<1>10. OwnEntryIsHighest'
  <2> SUFFICES ASSUME NEW q \in Proc
               PROVE  /\ \A e \in events' : e.vec[q] <= vector'[q][q]
                      /\ \A r \in Proc : vector'[r][q] <= vector'[q][q]
    BY DEF OwnEntryIsHighest
  <2>1. vector'[q][q] >= vector[q][q] /\ vec[q] <= vector'[q][q]
    BY <1>2, <1>6
  <2>2. vector[q][q] \in Nat /\ vector'[q][q] \in Nat
    BY <1>2, <1>6
  <2>3. ASSUME NEW e \in events'
        PROVE  e.vec[q] <= vector'[q][q]
    <3>1. CASE e = g
      BY <1>5, <2>1, <3>1
    <3>2. CASE e \in events
      <4>1. e.vec[q] <= vector[q][q] /\ e.vec[q] \in Nat
        BY <1>7, <3>2 DEF ClockInv, OwnEntryIsHighest
      <4>2. QED
        BY <2>1, <2>2, <4>1
    <3>3. QED
      BY <1>2, <3>1, <3>2
  <2>4. ASSUME NEW r \in Proc
        PROVE  vector'[r][q] <= vector'[q][q]
    <3>1. CASE r = p
      BY <1>2, <1>6, <2>1, <3>1
    <3>2. CASE r # p
      <4>1. vector'[r][q] = vector[r][q] /\ vector[r][q] \in Nat /\ vector[r][q] <= vector[q][q]
        BY <1>2, <1>6, <3>2 DEF ClockInv, OwnEntryIsHighest
      <4>2. QED
        BY <2>1, <2>2, <4>1
    <3>3. QED
      BY <3>1, <3>2
  <2>5. QED
    BY <2>3, <2>4
<1>11. ASSUME NEW x \in events
       PROVE  /\ x.id \in g.past => AtMost(x.vec, g.vec) /\ x.lamport < g.lamport
              /\ x.vec[x.proc] <= g.vec[x.proc] => x.id \in g.past
              /\ g.id \notin x.past
              /\ ~(g.vec[g.proc] <= x.vec[g.proc])
  <2>1. x.proc = p => x.id \in past
    BY PastOfProcess
  <2>2. g.id \notin x.past
    <3>1. \A j \in x.past : j \in Nat /\ j < x.id
      BY <1>3 DEF Event, ClockInv, EventsAreNumbered
    <3>2. g.id \in Nat /\ x.id < g.id
      BY <1>1, <1>3, <1>5
    <3>3. QED
      BY <1>7, <3>1, <3>2
  <2>3. ~(vec[p] <= x.vec[p])
    <3>1. x.vec[p] <= vector[p][p] /\ x.vec[p] \in Nat /\ vector[p][p] \in Nat /\ vec[p] \in Nat
      BY <1>6, <1>7 DEF ClockInv, OwnEntryIsHighest
    <3>2. QED
      BY <3>1
  <2>4. QED
    BY <1>5, <2>1, <2>2, <2>3
<1>12. EventsCountTheirPast'
  <2> SUFFICES ASSUME NEW e \in events', NEW f \in events'
               PROVE  /\ e.id \in f.past => AtMost(e.vec, f.vec) /\ e.lamport < f.lamport
                      /\ e.vec[e.proc] <= f.vec[e.proc] => e.id \in f.past \cup {f.id}
    BY DEF EventsCountTheirPast, AtMost
  <2>1. CASE e \in events /\ f \in events
    BY <2>1 DEF ClockInv, EventsCountTheirPast
  <2>2. CASE e \in events /\ f = g
    BY <1>11, <2>2
  <2>3. CASE e = g /\ f \in events
    BY <1>11, <2>3
  <2>4. CASE e = g /\ f = g
    <3>1. g.id \notin g.past
      BY <1>1, <1>5 DEF N
    <3>2. QED
      BY <2>4, <3>1
  <2>5. QED
    BY <1>2, <2>1, <2>2, <2>3, <2>4
<1>13. ProcessesCountTheirPast'
  <2> SUFFICES ASSUME NEW e \in events', NEW r \in Proc
               PROVE  /\ e.id \in PastOf(r)' => AtMost(e.vec, vector'[r]) /\ e.lamport <= counter'[r]
                      /\ e.vec[e.proc] <= vector'[r][e.proc] => e.id \in PastOf(r)'
    BY DEF ProcessesCountTheirPast, AtMost
  <2>1. CASE r = p
    <3>1. PastOf(r)' = g.past \cup {g.id}
      <4>1. \A j : j \in PastOf(r)' <=> \E f \in events' : f.proc = p /\ (j \in f.past \/ j = f.id)
        BY <2>1 DEF PastOf
      <4>2. \A j : j \in PastOf(r)' <=> j \in PastOf(p) \/ j \in g.past \/ j = g.id
        BY <1>2, <1>5, <4>1, PastOfProcess
      <4>3. QED
        BY <1>5, <4>2
    <3>2. vector'[r] = g.vec /\ counter'[r] = g.lamport
      BY <1>2, <1>5, <1>6, <2>1
    <3>3. CASE e \in events
      <4>1. e.id # g.id
        BY <1>1, <1>3, <1>5, <1>7, <3>3
      <4>2. QED
        BY <1>5, <1>7, <1>11, <3>1, <3>2, <3>3, <4>1
    <3>4. CASE e = g
      <4>1. AtMost(g.vec, g.vec) /\ g.lamport <= g.lamport
        BY <1>5 DEF AtMost
      <4>2. QED
        BY <3>1, <3>2, <3>4, <4>1
    <3>5. QED
      BY <1>2, <3>3, <3>4
  <2>2. CASE r # p
    <3>1. PastOf(r)' = PastOf(r)
      <4>1. \A j : j \in PastOf(r)' <=> \E f \in events' : f.proc = r /\ (j \in f.past \/ j = f.id)
        BY DEF PastOf
      <4>2. \A j : j \in PastOf(r)' <=> j \in PastOf(r)
        BY <1>2, <1>5, <2>2, <4>1, PastOfProcess
      <4>3. QED
        BY <4>2
    <3>2. vector'[r] = vector[r] /\ counter'[r] = counter[r]
      BY <1>2, <1>6, <2>2
    <3>3. CASE e \in events
      BY <3>1, <3>2, <3>3 DEF ClockInv, ProcessesCountTheirPast
    <3>4. CASE e = g
      <4>1. g.id \notin PastOf(r)
        BY <1>1, <1>5, PastIsKnown DEF N
      <4>2. vector[r][p] <= vector[p][p] /\ vector[r][p] \in Nat /\ vector[p][p] \in Nat
        BY <1>6 DEF ClockInv, OwnEntryIsHighest
      <4>3. ~(g.vec[g.proc] <= vector[r][g.proc])
        BY <1>5, <4>2
      <4>4. QED
        BY <3>1, <3>2, <3>4, <4>1, <4>3
    <3>5. QED
      BY <1>2, <3>3, <3>4
  <2>3. QED
    BY <2>1, <2>2
<1>14. QED
  BY <1>8, <1>9, <1>10, <1>12, <1>13 DEF ClockInv

\* Tick and Send.
LEMMA TickKeeps ==
    ASSUME ClockInv, NEW p \in Proc, Tick(p)
    PROVE  ClockInv'
<1> DEFINE vec == [vector[p] EXCEPT ![p] = @ + 1]
<1>1. vector[p] \in [Proc -> Nat] /\ counter[p] \in Nat
  BY DEF ClockInv, ClockType
<1>2. /\ vec \in [Proc -> Nat] /\ vec[p] = vector[p][p] + 1
      /\ \A q \in Proc \ {p} : vec[q] = vector[p][q]
  BY <1>1
<1>3. /\ Happens(p, counter[p] + 1, vec, PastOf(p))
      /\ receiving' \in [Proc -> [msg : Nat, loaded : Nat]]
  BY DEF Tick, ClockInv, ClockType
<1> HIDE DEF vec
<1>4. AtMost(vector[p], vec)
  BY <1>1, <1>2 DEF AtMost
<1>5. ASSUME NEW x \in events
      PROVE  /\ x.id \in PastOf(p) => AtMost(x.vec, vec) /\ x.lamport < counter[p] + 1
             /\ x.proc # p /\ x.vec[x.proc] <= vec[x.proc] => x.id \in PastOf(p)
  <2>1. x.vec \in [Proc -> Nat] /\ x.proc \in Proc /\ x.lamport \in Nat
    BY DEF ClockInv, ClockType, Event
  <2>2. /\ x.id \in PastOf(p) => AtMost(x.vec, vector[p]) /\ x.lamport <= counter[p]
        /\ x.vec[x.proc] <= vector[p][x.proc] => x.id \in PastOf(p)
    BY DEF ClockInv, ProcessesCountTheirPast
  <2>3. AtMost(x.vec, vector[p]) => AtMost(x.vec, vec)
    BY <1>1, <1>2, <1>4, <2>1 DEF AtMost
  <2>4. QED
    BY <1>1, <1>2, <2>1, <2>2, <2>3
<1>6. \A q \in Proc \ {p} : vec[q] <= vector[q][q]
  BY <1>2 DEF ClockInv, OwnEntryIsHighest
<1>7. vec[p] > vector[p][p] /\ counter[p] + 1 > counter[p] /\ counter[p] + 1 \in Nat
  BY <1>1, <1>2
<1>8. PastOf(p) \in SUBSET (0 .. Cardinality(events)) /\ PastOf(p) \subseteq PastOf(p)
  BY PastIsKnown
<1>9. Covers(p, counter[p] + 1, vec, PastOf(p))
  BY <1>2, <1>5, <1>6, <1>7, <1>8 DEF Covers
<1>10. QED
  BY <1>3, <1>9, HappensKeeps

\* Receive, once its compare-and-swap succeeds.
LEMMA ReceiveKeeps ==
    ASSUME ClockInv, NEW p \in Proc, ReceiveSwaps(p)
    PROVE  ClockInv'
<1>1. PICK e \in events :
        Happens(p,
                IF receiving[p].loaded >= e.lamport THEN receiving[p].loaded + 1 ELSE e.lamport + 1,
                VectorReceive(p, e.vec),
                PastOf(p) \cup e.past \cup {e.id})
  BY DEF ReceiveSwaps
<1>2. /\ e.vec \in [Proc -> Nat] /\ e.lamport \in Nat /\ e.id \in Nat
      /\ vector[p] \in [Proc -> Nat] /\ counter[p] \in Nat
  BY DEF ClockInv, ClockType, Event
<1>3. receiving[p].loaded = counter[p]
  BY DEF ReceiveSwaps, Swaps
<1> DEFINE lam == IF counter[p] >= e.lamport THEN counter[p] + 1 ELSE e.lamport + 1
           vec == VectorReceive(p, e.vec)
           past == PastOf(p) \cup e.past \cup {e.id}
<1>4. Happens(p, lam, vec, past)
  BY <1>1, <1>3
<1>5. /\ vec \in [Proc -> Nat]
      /\ \A q \in Proc \ {p} : vec[q] = IF e.vec[q] >= vector[p][q] THEN e.vec[q] ELSE vector[p][q]
      /\ vec[p] = (IF e.vec[p] >= vector[p][p] THEN e.vec[p] ELSE vector[p][p]) + 1
  <2>1. \A q \in Proc : Max({e.vec[q], vector[p][q]})
                          = IF e.vec[q] >= vector[p][q] THEN e.vec[q] ELSE vector[p][q]
    BY <1>2, MaxOfTwo
  <2> DEFINE m(q) == IF e.vec[q] >= vector[p][q] THEN e.vec[q] ELSE vector[p][q]
  <2>2. \A q \in Proc : m(q) \in Nat
    BY <1>2
  <2>3. vec = [q \in Proc |-> m(q) + IF q = p THEN 1 ELSE 0]
    BY <2>1 DEF VectorReceive
  <2>4. \A q \in Proc : vec[q] = m(q) + IF q = p THEN 1 ELSE 0
    BY <2>3
  <2> HIDE DEF m
  <2>5. vec \in [Proc -> Nat] /\ vec[p] = m(p) + 1 /\ \A q \in Proc \ {p} : vec[q] = m(q)
    BY <2>2, <2>3, <2>4
  <2>6. QED
    BY <2>5 DEF m
<1>6. lam \in Nat /\ lam > counter[p] /\ lam > e.lamport
  BY <1>2
<1>7. past \in SUBSET (0 .. Cardinality(events)) /\ PastOf(p) \subseteq past
  <2>1. Cardinality(events) \in Nat
    BY FS_CardinalityType DEF ClockInv, ClockType
  <2>2. e.id <= Cardinality(events) /\ \A j \in e.past : j \in Nat /\ j < e.id
    BY DEF ClockInv, ClockType, Event, EventsAreNumbered
  <2>3. PastOf(p) \subseteq 0 .. Cardinality(events)
    BY PastIsKnown
  <2>4. QED
    BY <1>2, <2>1, <2>2, <2>3
<1>8. \A i : i \in past <=> i \in PastOf(p) \/ i \in e.past \/ i = e.id
  OBVIOUS
<1> HIDE DEF lam, vec, past
<1>9. AtMost(vector[p], vec) /\ AtMost(e.vec, vec) /\ vec[p] > vector[p][p]
  BY <1>2, <1>5 DEF AtMost
<1>10. \A q \in Proc \ {p} : vec[q] <= vector[q][q]
  BY <1>5 DEF ClockInv, OwnEntryIsHighest
<1>11. ASSUME NEW x \in events
       PROVE  /\ x.id \in past => AtMost(x.vec, vec) /\ x.lamport < lam
              /\ x.proc # p /\ x.vec[x.proc] <= vec[x.proc] => x.id \in past
  <2>1. x.vec \in [Proc -> Nat] /\ x.proc \in Proc /\ x.lamport \in Nat
    BY DEF ClockInv, ClockType, Event
  <2>2. /\ x.id \in PastOf(p) => AtMost(x.vec, vector[p]) /\ x.lamport <= counter[p]
        /\ x.vec[x.proc] <= vector[p][x.proc] => x.id \in PastOf(p)
    BY DEF ClockInv, ProcessesCountTheirPast
  <2>3. /\ x.id \in e.past => AtMost(x.vec, e.vec) /\ x.lamport < e.lamport
        /\ x.vec[x.proc] <= e.vec[x.proc] => x.id \in e.past \/ x.id = e.id
        /\ x.id = e.id => x = e
    BY DEF ClockInv, EventsCountTheirPast, EventsAreNumbered
  <2>4. /\ AtMost(x.vec, vector[p]) => AtMost(x.vec, vec)
        /\ AtMost(x.vec, e.vec) => AtMost(x.vec, vec)
    BY <1>2, <1>5, <1>9, <2>1 DEF AtMost
  <2>5. x.id \in past => AtMost(x.vec, vec) /\ x.lamport < lam
    <3>1. CASE x.id \in PastOf(p)
      BY <1>2, <1>6, <2>1, <2>2, <2>4, <3>1
    <3>2. CASE x.id \in e.past
      BY <1>2, <1>6, <2>1, <2>3, <2>4, <3>2
    <3>3. CASE x.id = e.id
      BY <1>6, <1>9, <2>3, <3>3
    <3>4. QED
      BY <1>8, <3>1, <3>2, <3>3
  <2>6. x.proc # p /\ x.vec[x.proc] <= vec[x.proc] => x.id \in past
    BY <1>2, <1>5, <1>8, <2>1, <2>2, <2>3
  <2>7. QED
    BY <2>5, <2>6
<1>12. receiving' \in [Proc -> [msg : Nat, loaded : Nat]]
  BY DEF ReceiveSwaps, ClockInv, ClockType, NoReceive
<1>13. Covers(p, lam, vec, past)
  BY <1>5, <1>6, <1>7, <1>9, <1>10, <1>11 DEF Covers
<1>14. QED
  BY <1>4, <1>12, <1>13, HappensKeeps

\* Loading the counter, and loading it again after a failed swap, changes no clock.
LEMMA LoadKeeps ==
    ASSUME ClockInv, NEW p \in Proc, ReceiveLoads(p) \/ ReceiveReloads(p)
    PROVE  ClockInv'
<1>1. UNCHANGED <<counter, vector, events>>
  BY DEF ReceiveLoads, ReceiveReloads
<1>2. receiving' \in [Proc -> [msg : Nat, loaded : Nat]]
  <2>1. counter[p] \in Nat /\ \A e \in events : e.id \in Nat
    BY DEF ClockInv, ClockType, Event
  <2>2. receiving \in [Proc -> [msg : Nat, loaded : Nat]]
    BY DEF ClockInv, ClockType
  <2>3. CASE ReceiveLoads(p)
    BY <2>1, <2>2, <2>3 DEF ReceiveLoads
  <2>4. CASE ReceiveReloads(p)
    <3>1. receiving' = [receiving EXCEPT ![p] = [receiving[p] EXCEPT !.loaded = counter[p]]]
      BY <2>4 DEF ReceiveReloads
    <3>2. [receiving[p] EXCEPT !.loaded = counter[p]] \in [msg : Nat, loaded : Nat]
      BY <2>1, <2>2
    <3>3. QED
      BY <2>2, <3>1, <3>2
  <2>5. QED
    BY <2>3, <2>4
<1>3. PastOf(p)' = PastOf(p) /\ \A q : PastOf(q)' = PastOf(q)
  BY <1>1 DEF PastOf
<1>4. QED
  BY <1>1, <1>2, <1>3
  DEF ClockInv, ClockType, EventsAreNumbered, EventsCountTheirPast, ProcessesCountTheirPast,
      OwnEntryIsHighest, AtMost

\* Covering exactly the past is what comparing vectors, and Lamport times, needs.
LEMMA CountingTellsCausality == ClockInv => VectorsTellCausality /\ LamportFollowsCausality
<1> SUFFICES ASSUME ClockInv, NEW e \in events, NEW f \in events
             PROVE  /\ Compare(e.vec, f.vec) = CASE e.id = f.id      -> "equal"
                                                 [] e.id \in f.past  -> "before"
                                                 [] f.id \in e.past  -> "after"
                                                 [] OTHER            -> "concurrent"
                    /\ e.id \in f.past => e.lamport < f.lamport
                    /\ e.proc = f.proc /\ e # f => e.lamport # f.lamport
  BY DEF VectorsTellCausality, LamportFollowsCausality
<1>1. /\ e.vec \in [Proc -> Nat] /\ e.proc \in Proc /\ e.lamport \in Nat /\ e.id \in Nat
      /\ f.vec \in [Proc -> Nat] /\ f.proc \in Proc /\ f.lamport \in Nat /\ f.id \in Nat
  BY DEF ClockInv, ClockType, Event
<1>2. /\ e.id \in f.past => AtMost(e.vec, f.vec) /\ e.lamport < f.lamport /\ e.id < f.id
      /\ f.id \in e.past => AtMost(f.vec, e.vec) /\ f.lamport < e.lamport /\ f.id < e.id
      /\ e.id = f.id => e = f
  BY DEF ClockInv, EventsCountTheirPast, EventsAreNumbered
<1>3. /\ e.vec[e.proc] <= f.vec[e.proc] => e.id \in f.past \/ e.id = f.id
      /\ f.vec[f.proc] <= e.vec[f.proc] => f.id \in e.past \/ e.id = f.id
  BY DEF ClockInv, EventsCountTheirPast
<1> DEFINE eLess == \E q \in Proc : e.vec[q] < f.vec[q]
           fLess == \E q \in Proc : f.vec[q] < e.vec[q]
<1>4. Compare(e.vec, f.vec) = CASE eLess /\ fLess   -> "concurrent"
                                [] ~eLess /\ ~fLess -> "equal"
                                [] eLess /\ ~fLess  -> "before"
                                [] OTHER            -> "after"
  BY DEF Compare
<1>5. CASE e.id = f.id
  <2>1. e = f /\ ~eLess /\ ~fLess /\ e.id \notin f.past
    BY <1>1, <1>2, <1>5
  <2> HIDE DEF eLess, fLess
  <2>2. QED
    BY <1>4, <1>5, <2>1
<1>6. CASE e.id # f.id /\ e.id \in f.past
  <2>1. ~fLess
    BY <1>1, <1>2, <1>6 DEF AtMost
  <2>2. f.id \notin e.past
    BY <1>1, <1>2, <1>6
  <2>3. e.vec[f.proc] < f.vec[f.proc]
    BY <1>1, <1>3, <1>6, <2>2
  <2>4. eLess
    BY <1>1, <2>3
  <2> HIDE DEF eLess, fLess
  <2>5. QED
    BY <1>1, <1>2, <1>4, <1>6, <2>1, <2>2, <2>4
<1>7. CASE e.id # f.id /\ e.id \notin f.past /\ f.id \in e.past
  <2>1. ~eLess
    BY <1>1, <1>2, <1>7 DEF AtMost
  <2>2. f.vec[e.proc] < e.vec[e.proc]
    BY <1>1, <1>3, <1>7
  <2>3. fLess
    BY <1>1, <2>2
  <2> HIDE DEF eLess, fLess
  <2>4. QED
    BY <1>1, <1>2, <1>4, <1>7, <2>1, <2>3
<1>8. CASE e.id # f.id /\ e.id \notin f.past /\ f.id \notin e.past
  <2>1. f.vec[e.proc] < e.vec[e.proc] /\ e.vec[f.proc] < f.vec[f.proc]
    BY <1>1, <1>3, <1>8
  <2>2. eLess /\ fLess
    BY <1>1, <2>1
  <2>3. e.proc # f.proc
    BY <1>1, <2>1
  <2> HIDE DEF eLess, fLess
  <2>4. QED
    BY <1>4, <1>8, <2>2, <2>3
<1>9. QED
  BY <1>5, <1>6, <1>7, <1>8

\* Comparing vector clocks and Lamport times tells causality, however the goroutines of a
\* process interleave between the load and the swap of Receive.
LEMMA ClockInvariant == ClockSpec => [](VectorsTellCausality /\ LamportFollowsCausality)
<1>1. ClockInit => ClockInv
  <2> SUFFICES ASSUME ClockInit
               PROVE  ClockInv
    OBVIOUS
  <2>1. events = {} /\ IsFiniteSet(events)
    BY FS_EmptySet DEF ClockInit
  <2>2. QED
    BY <2>1 DEF ClockInit, NoReceive, ClockInv, ClockType, EventsAreNumbered,
                EventsCountTheirPast, ProcessesCountTheirPast, OwnEntryIsHighest
<1>2. ClockInv /\ [ClockNext]_clockVars => ClockInv'
  <2> SUFFICES ASSUME ClockInv, [ClockNext]_clockVars
               PROVE  ClockInv'
    OBVIOUS
  <2>1. CASE ClockNext
    BY <2>1, TickKeeps, ReceiveKeeps, LoadKeeps DEF ClockNext
  <2>2. CASE UNCHANGED clockVars
    <3>1. \A q : PastOf(q)' = PastOf(q)
      BY <2>2 DEF PastOf, clockVars
    <3>2. QED
      BY <2>2, <3>1
      DEF clockVars, ClockInv, ClockType, EventsAreNumbered, EventsCountTheirPast,
          ProcessesCountTheirPast, OwnEntryIsHighest, AtMost
  <2>3. QED
    BY <2>1, <2>2
<1>3. QED
  BY <1>1, <1>2, CountingTellsCausality, PTL DEF ClockSpec

\* Every clock of pkg/clock orders what depends on each other, for any number of processes
\* and events: the hybrid clock within its skew (Now, Update), the vector clock exactly,
\* the Lamport clock in spite of racing goroutines (Tick, Receive).
THEOREM ClocksSound == HLCSpec /\ ClockSpec => []ClocksFollowCausality
<1>1. HLCAdvances /\ SkewIsBounded /\ VectorsTellCausality /\ LamportFollowsCausality
        => ClocksFollowCausality
  BY DEF ClocksFollowCausality
<1>2. QED
  BY <1>1, HLCInvariant, ClockInvariant, PTL

-----------------------------------------------------------------------------
(* ORSet *)

AddOf == Site \X Element \X Tag

\* Whoever knows of the later add knows that the earlier one is cancelled: the replica of
\* the later one had seen its removal.
Supersedes(later, earlier) == \A r \in Site : later \in added[r] => earlier \in cancelled[r]

\* Tags are used by a replica once, what is cancelled was added, a known add has left a
\* trace at its element and tag, and a tag that is there is there because of an add that
\* is not cancelled and that supersedes the cancelled adds with its tag.
SetInv ==
    /\ nextTag \in [Site -> 0 .. MaxAdds]
    /\ elements \in [Site -> [Element -> [Tag -> {"none", "there", "removed"}]]]
    /\ added \in [Site -> SUBSET AddOf]
    /\ \A r \in Site : cancelled[r] \subseteq added[r]
    /\ cancelled \in [Site -> SUBSET AddOf]
    /\ \A r, s \in Site, e \in Element, t \in Tag : <<s, e, t>> \in added[r] =>
          t <= nextTag[s] /\ elements[r][e][t] # "none"
    /\ \A r \in Site, e \in Element, t \in Tag : elements[r][e][t] = "there" =>
          /\ \E s \in Site : <<s, e, t>> \in added[r] \ cancelled[r]
          /\ \A s \in Site : <<s, e, t>> \in cancelled[r] =>
                \E u \in Site : /\ <<u, e, t>> \in added[r] \ cancelled[r]
                                /\ Supersedes(<<u, e, t>>, <<s, e, t>>)

\* Add gives the element a tag that no replica has cancelled for this replica.
LEMMA AddKeeps ==
    ASSUME SetInv, NEW r \in Site, NEW e \in Element, Add(r, e)
    PROVE  SetInv'
<1>0. PICK n \in Tag : n = nextTag[r] + 1
  BY SetAssumption DEF Add, SetInv, Tag
<1> DEFINE a == <<r, e, n>>
<1>1. nextTag[r] \in Nat /\ n \in Tag /\ n \in 0 .. MaxAdds /\ n > nextTag[r]
  BY <1>0, SetAssumption DEF SetInv, Tag
<1>2. nextTag' = [nextTag EXCEPT ![r] = n] /\ nextTag'[r] = n
  BY <1>0 DEF Add, SetInv
<1>3. /\ elements' = [elements EXCEPT ![r] = [elements[r] EXCEPT ![e] = [elements[r][e] EXCEPT ![n] = "there"]]]
      /\ added' = [added EXCEPT ![r] = added[r] \cup {a}]
      /\ cancelled' = cancelled
  BY <1>2 DEF Add, SetInv
<1>4. \A x \in Site : a \notin added[x]
  <2>1. ~(n <= nextTag[r])
    BY <1>1, SetAssumption DEF Tag
  <2>2. QED
    BY <1>1, <2>1 DEF SetInv
<1>5. /\ \A x \in Site, f \in Element, t \in Tag :
            elements'[x][f][t] = IF x = r /\ f = e /\ t = n THEN "there" ELSE elements[x][f][t]
      /\ elements' \in [Site -> [Element -> [Tag -> {"none", "there", "removed"}]]]
  <2>1. elements \in [Site -> [Element -> [Tag -> {"none", "there", "removed"}]]]
    BY DEF SetInv
  <2>2. elements[r] \in [Element -> [Tag -> {"none", "there", "removed"}]]
        /\ elements[r][e] \in [Tag -> {"none", "there", "removed"}]
    BY <2>1
  <2> DEFINE row == [elements[r][e] EXCEPT ![n] = "there"]
             tab == [elements[r] EXCEPT ![e] = row]
  <2>3. row \in [Tag -> {"none", "there", "removed"}]
        /\ \A t \in Tag : row[t] = IF t = n THEN "there" ELSE elements[r][e][t]
    BY <1>1, <2>2
  <2> HIDE DEF row
  <2>4. tab \in [Element -> [Tag -> {"none", "there", "removed"}]]
        /\ \A f \in Element : tab[f] = IF f = e THEN row ELSE elements[r][f]
    BY <2>2, <2>3
  <2>5. elements' = [elements EXCEPT ![r] = tab]
    BY <1>3 DEF row
  <2> HIDE DEF tab
  <2>6. QED
    BY <2>1, <2>3, <2>4, <2>5
<1>6. /\ added' \in [Site -> SUBSET AddOf]
      /\ \A x \in Site : added'[x] = IF x = r THEN added[r] \cup {a} ELSE added[x]
  BY <1>1, <1>3 DEF SetInv, AddOf
<1>7. \A x \in Site : cancelled'[x] \subseteq added'[x]
  BY <1>3, <1>6 DEF SetInv
<1>8. nextTag' \in [Site -> 0 .. MaxAdds] /\ \A x \in Site : nextTag'[x] >= nextTag[x]
  BY <1>1, <1>2, SetAssumption DEF SetInv
<1>9. ASSUME NEW x \in Site, NEW s \in Site, NEW f \in Element, NEW t \in Tag,
             <<s, f, t>> \in added'[x]
      PROVE  t <= nextTag'[s] /\ elements'[x][f][t] # "none"
  <2>1. t \in Nat /\ nextTag[s] \in Nat /\ nextTag'[s] \in Nat
    BY <1>8, SetAssumption DEF Tag, SetInv
  <2>2. CASE <<s, f, t>> \in added[x]
    <3>1. t <= nextTag[s] /\ elements[x][f][t] # "none"
      BY <2>2 DEF SetInv
    <3>2. t <= nextTag'[s]
      BY <1>8, <2>1, <3>1
    <3>3. QED
      BY <1>5, <3>1, <3>2
  <2>3. CASE <<s, f, t>> = a /\ x = r
    BY <1>2, <1>5, <2>1, <2>3
  <2>4. QED
    BY <1>6, <1>9, <2>2, <2>3
<1>10. ASSUME NEW u \in AddOf, NEW s \in AddOf, u # a, Supersedes(u, s)
       PROVE  Supersedes(u, s)'
  BY <1>3, <1>6, <1>10 DEF Supersedes
<1>11. ASSUME NEW x \in Site, NEW f \in Element, NEW t \in Tag, elements'[x][f][t] = "there"
       PROVE  /\ \E s \in Site : <<s, f, t>> \in added'[x] \ cancelled'[x]
              /\ \A s \in Site : <<s, f, t>> \in cancelled'[x] =>
                    \E u \in Site : /\ <<u, f, t>> \in added'[x] \ cancelled'[x]
                                    /\ Supersedes(<<u, f, t>>, <<s, f, t>>)'
  <2>1. CASE x = r /\ f = e /\ t = n
    <3>1. a \in added'[r] \ cancelled'[r]
      BY <1>3, <1>4, <1>6, ZenonT(40) DEF SetInv
    <3>2. ASSUME NEW s \in Site, <<s, f, t>> \in cancelled'[x]
          PROVE  Supersedes(a, <<s, f, t>>)'
      <4>1. \A y \in Site : a \in added'[y] => y = r
        BY <1>4, <1>6
      <4>2. QED
        BY <2>1, <3>2, <4>1 DEF Supersedes
    <3>3. QED
      BY <2>1, <3>1, <3>2
  <2>2. CASE ~(x = r /\ f = e /\ t = n)
    <3>1. elements[x][f][t] = "there"
      BY <1>5, <1>11, <2>2
    <3>2. \E s \in Site : <<s, f, t>> \in added[x] \ cancelled[x]
      BY <3>1 DEF SetInv
    <3>3. ASSUME NEW s \in Site, <<s, f, t>> \in cancelled[x]
          PROVE  \E u \in Site : /\ <<u, f, t>> \in added'[x] \ cancelled'[x]
                                 /\ Supersedes(<<u, f, t>>, <<s, f, t>>)'
      <4>1. PICK u \in Site : /\ <<u, f, t>> \in added[x] \ cancelled[x]
                              /\ Supersedes(<<u, f, t>>, <<s, f, t>>)
        BY <3>1, <3>3 DEF SetInv
      <4>2. <<u, f, t>> # a
        BY <1>4, <4>1
      <4>3. <<u, f, t>> \in AddOf /\ <<s, f, t>> \in AddOf
        BY DEF AddOf
      <4>4. QED
        BY <1>3, <1>6, <1>10, <4>1, <4>2, <4>3
    <3>4. QED
      BY <1>3, <1>6, <3>2, <3>3
  <2>3. QED
    BY <2>1, <2>2
<1>12. cancelled' \in [Site -> SUBSET AddOf]
  BY <1>3 DEF SetInv
<1>13. QED
  BY <1>5, <1>6, <1>7, <1>8, <1>9, <1>11, <1>12 DEF SetInv

\* Remove cancels the adds of the element that the replica knows of.
LEMMA RemoveKeeps ==
    ASSUME SetInv, NEW r \in Site, NEW e \in Element, Remove(r, e)
    PROVE  SetInv'
<1> DEFINE row == [t \in Tag |-> IF elements[r][e][t] = "none" THEN "none" ELSE "removed"]
<1>1. /\ nextTag' = nextTag /\ added' = added
      /\ elements' = [elements EXCEPT ![r] = [elements[r] EXCEPT ![e] = row]]
      /\ cancelled' = [cancelled EXCEPT ![r] = cancelled[r] \cup {a \in added[r] : a[2] = e}]
  BY DEF Remove, SetInv
<1>2. /\ \A x \in Site, f \in Element, t \in Tag :
            elements'[x][f][t] = IF x = r /\ f = e THEN row[t] ELSE elements[x][f][t]
      /\ elements' \in [Site -> [Element -> [Tag -> {"none", "there", "removed"}]]]
  <2>1. elements \in [Site -> [Element -> [Tag -> {"none", "there", "removed"}]]]
    BY DEF SetInv
  <2>2. elements[r] \in [Element -> [Tag -> {"none", "there", "removed"}]]
    BY <2>1
  <2>3. row \in [Tag -> {"none", "there", "removed"}]
    OBVIOUS
  <2> DEFINE tab == [elements[r] EXCEPT ![e] = row]
  <2> HIDE DEF row
  <2>4. tab \in [Element -> [Tag -> {"none", "there", "removed"}]]
        /\ \A f \in Element : tab[f] = IF f = e THEN row ELSE elements[r][f]
    BY <2>2, <2>3
  <2>5. elements' = [elements EXCEPT ![r] = tab]
    BY <1>1
  <2> HIDE DEF tab
  <2>6. QED
    BY <2>1, <2>3, <2>4, <2>5
<1>3. \A t \in Tag : row[t] # "there" /\ (elements[r][e][t] # "none" => row[t] # "none")
  OBVIOUS
<1> HIDE DEF row
<1>4. \A x \in Site : cancelled[x] \subseteq cancelled'[x] /\ cancelled'[x] \subseteq added'[x]
  BY <1>1 DEF SetInv
<1>5. cancelled' \in [Site -> SUBSET AddOf] /\ added' \in [Site -> SUBSET AddOf]
  BY <1>1 DEF SetInv
<1>6. ASSUME NEW x \in Site, NEW f \in Element, NEW t \in Tag, elements'[x][f][t] = "there"
      PROVE  /\ elements[x][f][t] = "there"
             /\ \A s \in Site : <<s, f, t>> \in cancelled'[x] <=> <<s, f, t>> \in cancelled[x]
  BY <1>1, <1>2, <1>3, <1>6 DEF SetInv
<1>7. ASSUME NEW u, NEW s, Supersedes(u, s)
      PROVE  Supersedes(u, s)'
  BY <1>1, <1>4, <1>7 DEF Supersedes
<1>8. ASSUME NEW x \in Site, NEW f \in Element, NEW t \in Tag, elements'[x][f][t] = "there"
      PROVE  /\ \E s \in Site : <<s, f, t>> \in added'[x] \ cancelled'[x]
             /\ \A s \in Site : <<s, f, t>> \in cancelled'[x] =>
                   \E u \in Site : /\ <<u, f, t>> \in added'[x] \ cancelled'[x]
                                   /\ Supersedes(<<u, f, t>>, <<s, f, t>>)'
  <2>1. elements[x][f][t] = "there"
    BY <1>6, <1>8
  <2>2. \E s \in Site : <<s, f, t>> \in added[x] \ cancelled[x]
    BY <2>1 DEF SetInv
  <2>3. ASSUME NEW s \in Site, <<s, f, t>> \in cancelled'[x]
        PROVE  \E u \in Site : /\ <<u, f, t>> \in added'[x] \ cancelled'[x]
                               /\ Supersedes(<<u, f, t>>, <<s, f, t>>)'
    <3>1. <<s, f, t>> \in cancelled[x]
      BY <1>6, <1>8, <2>3
    <3>2. PICK u \in Site : /\ <<u, f, t>> \in added[x] \ cancelled[x]
                            /\ Supersedes(<<u, f, t>>, <<s, f, t>>)
      BY <2>1, <3>1 DEF SetInv
    <3>3. Supersedes(<<u, f, t>>, <<s, f, t>>)'
      BY <1>7, <3>2
    <3>4. QED
      BY <1>1, <1>6, <1>8, <3>2, <3>3
  <2>4. QED
    BY <1>1, <1>6, <1>8, <2>2, <2>3
<1>9. \A x, s \in Site, f \in Element, t \in Tag : <<s, f, t>> \in added'[x] =>
          t <= nextTag'[s] /\ elements'[x][f][t] # "none"
  BY <1>1, <1>2, <1>3 DEF SetInv
<1>10. nextTag' \in [Site -> 0 .. MaxAdds]
  BY <1>1 DEF SetInv
<1>11. QED
  BY <1>2, <1>4, <1>5, <1>8, <1>9, <1>10 DEF SetInv

\* A tag that is there at both replicas keeps, after the merge, an add that neither has
\* cancelled and that supersedes any add the first has cancelled.
LEMMA BothThere ==
    ASSUME SetInv, NEW r \in Site, NEW o \in Site, NEW e \in Element, NEW t \in Tag,
           elements[r][e][t] = "there", elements[o][e][t] = "there",
           NEW c \in Site, <<c, e, t>> \in added[r] \ cancelled[r]
    PROVE  \E u \in Site :
              /\ <<u, e, t>> \in (added[r] \cup added[o]) \ (cancelled[r] \cup cancelled[o])
              /\ u = c \/ Supersedes(<<u, e, t>>, <<c, e, t>>)
<1>1. CASE <<c, e, t>> \notin cancelled[o]
  BY <1>1
<1>2. CASE <<c, e, t>> \in cancelled[o]
  <2>1. PICK u \in Site : /\ <<u, e, t>> \in added[o] \ cancelled[o]
                          /\ Supersedes(<<u, e, t>>, <<c, e, t>>)
    BY <1>2 DEF SetInv
  <2>2. <<u, e, t>> \notin added[r]
    BY <2>1 DEF Supersedes
  <2>3. <<u, e, t>> \notin cancelled[r]
    BY <2>2 DEF SetInv
  <2>4. QED
    BY <2>1, <2>3
<1>3. QED
  BY <1>1, <1>2

\* Superseding is transitive, since what is cancelled is known.
LEMMA SupersedesTransitive ==
    ASSUME SetInv, NEW a, NEW b, NEW c, Supersedes(a, b), Supersedes(b, c)
    PROVE  Supersedes(a, c)
BY DEF Supersedes, SetInv

\* Merge joins what the two replicas know.
LEMMA MergeKeeps ==
    ASSUME SetInv, NEW r \in Site, NEW o \in Site, MergeSet(r, o)
    PROVE  SetInv'
<1> DEFINE tab == [e \in Element |-> [t \in Tag |-> MergedTag(elements[r][e][t], elements[o][e][t])]]
<1>1. /\ nextTag' = nextTag
      /\ elements' = [elements EXCEPT ![r] = tab]
      /\ added' = [added EXCEPT ![r] = added[r] \cup added[o]]
      /\ cancelled' = [cancelled EXCEPT ![r] = cancelled[r] \cup cancelled[o]]
  BY DEF MergeSet, SetInv
<1>2. \A x \in Site, e \in Element, t \in Tag : elements[x][e][t] \in {"none", "there", "removed"}
  BY DEF SetInv
<1>3. \A e \in Element, t \in Tag :
         /\ MergedTag(elements[r][e][t], elements[o][e][t]) \in {"none", "there", "removed"}
         /\ MergedTag(elements[r][e][t], elements[o][e][t]) = "none" =>
               elements[r][e][t] = "none" /\ elements[o][e][t] = "none"
  BY <1>2 DEF MergedTag
<1>4. tab \in [Element -> [Tag -> {"none", "there", "removed"}]]
  BY <1>3
<1>5. /\ elements' \in [Site -> [Element -> [Tag -> {"none", "there", "removed"}]]]
      /\ \A x \in Site, e \in Element, t \in Tag :
            elements'[x][e][t] = IF x = r THEN MergedTag(elements[r][e][t], elements[o][e][t])
                                 ELSE elements[x][e][t]
  BY <1>1, <1>4 DEF SetInv
<1> HIDE DEF tab
<1>6. /\ added' \in [Site -> SUBSET AddOf] /\ cancelled' \in [Site -> SUBSET AddOf]
      /\ \A x \in Site : added'[x] = IF x = r THEN added[r] \cup added[o] ELSE added[x]
      /\ \A x \in Site : cancelled'[x] = IF x = r THEN cancelled[r] \cup cancelled[o] ELSE cancelled[x]
  BY <1>1 DEF SetInv
<1>7. \A x \in Site : cancelled'[x] \subseteq added'[x]
  BY <1>6 DEF SetInv
<1>8. ASSUME NEW x \in Site, NEW s \in Site, NEW e \in Element, NEW t \in Tag,
             <<s, e, t>> \in added'[x]
      PROVE  t <= nextTag'[s] /\ elements'[x][e][t] # "none"
  <2>1. CASE x # r
    BY <1>1, <1>5, <1>6, <1>8, <2>1 DEF SetInv
  <2>2. CASE x = r
    <3>1. <<s, e, t>> \in added[r] \/ <<s, e, t>> \in added[o]
      BY <1>6, <1>8, <2>2
    <3>2. t <= nextTag[s] /\ (elements[r][e][t] # "none" \/ elements[o][e][t] # "none")
      BY <3>1 DEF SetInv
    <3>3. QED
      BY <1>1, <1>3, <1>5, <2>2, <3>2
  <2>3. QED
    BY <2>1, <2>2
<1>9. ASSUME NEW u, NEW s, Supersedes(u, s)
      PROVE  Supersedes(u, s)'
  BY <1>6, <1>9 DEF Supersedes
<1>10. ASSUME NEW e \in Element, NEW t \in Tag, elements'[r][e][t] = "there"
       PROVE  /\ \E s \in Site : <<s, e, t>> \in added'[r] \ cancelled'[r]
              /\ \A s \in Site : <<s, e, t>> \in cancelled'[r] =>
                    \E u \in Site : /\ <<u, e, t>> \in added'[r] \ cancelled'[r]
                                    /\ Supersedes(<<u, e, t>>, <<s, e, t>>)
  <2>1. \/ elements[r][e][t] = "there" /\ elements[o][e][t] = "none"
        \/ elements[r][e][t] = "none" /\ elements[o][e][t] = "there"
        \/ elements[r][e][t] = "there" /\ elements[o][e][t] = "there"
    BY <1>2, <1>5, <1>10 DEF MergedTag
  <2>2. ASSUME NEW x \in {r, o}, NEW y \in {r, o}, x # y \/ r = o,
               elements[x][e][t] = "there", elements[y][e][t] = "none"
        PROVE  /\ \E s \in Site : <<s, e, t>> \in added'[r] \ cancelled'[r]
               /\ \A s \in Site : <<s, e, t>> \in cancelled'[r] =>
                     \E u \in Site : /\ <<u, e, t>> \in added'[r] \ cancelled'[r]
                                     /\ Supersedes(<<u, e, t>>, <<s, e, t>>)
    <3>1. \A s \in Site : <<s, e, t>> \notin added[y] /\ <<s, e, t>> \notin cancelled[y]
      BY <2>2 DEF SetInv
    <3>2. \A s \in Site : /\ <<s, e, t>> \in added'[r] <=> <<s, e, t>> \in added[x]
                          /\ <<s, e, t>> \in cancelled'[r] <=> <<s, e, t>> \in cancelled[x]
      BY <1>6, <2>2, <3>1
    <3>3. /\ \E s \in Site : <<s, e, t>> \in added[x] \ cancelled[x]
          /\ \A s \in Site : <<s, e, t>> \in cancelled[x] =>
                \E u \in Site : /\ <<u, e, t>> \in added[x] \ cancelled[x]
                                /\ Supersedes(<<u, e, t>>, <<s, e, t>>)
      BY <2>2 DEF SetInv
    <3>4. QED
      BY <3>2, <3>3
  <2>3. CASE elements[r][e][t] = "there" /\ elements[o][e][t] = "there"
    <3>1. added'[r] = added[r] \cup added[o] /\ cancelled'[r] = cancelled[r] \cup cancelled[o]
      BY <1>6
    <3>2. PICK c \in Site : <<c, e, t>> \in added[r] \ cancelled[r]
      BY <2>3 DEF SetInv
    <3>3. \E u \in Site : <<u, e, t>> \in added'[r] \ cancelled'[r]
      BY <2>3, <3>1, <3>2, BothThere
    <3>4. ASSUME NEW x \in {r, o}, NEW y \in {r, o}, {x, y} = {r, o},
                 NEW s \in Site, <<s, e, t>> \in cancelled[x]
          PROVE  \E u \in Site : /\ <<u, e, t>> \in added'[r] \ cancelled'[r]
                                 /\ Supersedes(<<u, e, t>>, <<s, e, t>>)
      <4>1. x \in Site /\ y \in Site /\ elements[x][e][t] = "there" /\ elements[y][e][t] = "there"
        BY <2>3
      <4>2. PICK d \in Site : /\ <<d, e, t>> \in added[x] \ cancelled[x]
                              /\ Supersedes(<<d, e, t>>, <<s, e, t>>)
        BY <3>4, <4>1 DEF SetInv
      <4>3. PICK u \in Site :
               /\ <<u, e, t>> \in (added[x] \cup added[y]) \ (cancelled[x] \cup cancelled[y])
               /\ u = d \/ Supersedes(<<u, e, t>>, <<d, e, t>>)
        BY <4>1, <4>2, BothThere
      <4>4. Supersedes(<<u, e, t>>, <<s, e, t>>)
        BY <4>2, <4>3, SupersedesTransitive
      <4>5. added[x] \cup added[y] = added'[r] /\ cancelled[x] \cup cancelled[y] = cancelled'[r]
        BY <3>1, <3>4
      <4>6. QED
        BY <4>3, <4>4, <4>5
    <3>5. QED
      BY <3>1, <3>3, <3>4
  <2>4. QED
    BY <2>1, <2>2, <2>3
<1>11. ASSUME NEW x \in Site, NEW e \in Element, NEW t \in Tag, elements'[x][e][t] = "there"
       PROVE  /\ \E s \in Site : <<s, e, t>> \in added'[x] \ cancelled'[x]
              /\ \A s \in Site : <<s, e, t>> \in cancelled'[x] =>
                    \E u \in Site : /\ <<u, e, t>> \in added'[x] \ cancelled'[x]
                                    /\ Supersedes(<<u, e, t>>, <<s, e, t>>)'
  <2>1. /\ \E s \in Site : <<s, e, t>> \in added'[x] \ cancelled'[x]
        /\ \A s \in Site : <<s, e, t>> \in cancelled'[x] =>
              \E u \in Site : /\ <<u, e, t>> \in added'[x] \ cancelled'[x]
                              /\ Supersedes(<<u, e, t>>, <<s, e, t>>)
    <3>1. CASE x = r
      BY <1>10, <1>11, <3>1
    <3>2. CASE x # r
      <4>1. elements[x][e][t] = "there" /\ added'[x] = added[x] /\ cancelled'[x] = cancelled[x]
        BY <1>5, <1>6, <1>11, <3>2
      <4>2. QED
        BY <4>1 DEF SetInv
    <3>3. QED
      BY <3>1, <3>2
  <2>2. QED
    BY <1>9, <2>1
<1>12. nextTag' \in [Site -> 0 .. MaxAdds]
  BY <1>1 DEF SetInv
<1>13. QED
  BY <1>5, <1>6, <1>7, <1>8, <1>11, <1>12 DEF SetInv

\* An element is at a replica of an ORSet only because of an add that no remove it knows
\* of has seen, although replicas use the same tags (Add, Remove, Merge).
THEOREM RemovedStaysRemoved == SetSpec => []RemovedUnlessAdded
<1>1. SetInit => SetInv
  BY SetAssumption DEF SetInit, SetInv, AddOf
<1>2. SetInv /\ [SetNext]_setVars => SetInv'
  <2> SUFFICES ASSUME SetInv, [SetNext]_setVars
               PROVE  SetInv'
    OBVIOUS
  <2>1. CASE SetNext
    BY <2>1, AddKeeps, RemoveKeeps, MergeKeeps DEF SetNext
  <2>2. CASE UNCHANGED setVars
    <3>1. \A u, s : Supersedes(u, s) => Supersedes(u, s)'
      BY <2>2 DEF setVars, Supersedes
    <3>2. UNCHANGED <<nextTag, elements, added, cancelled>>
      BY <2>2 DEF setVars
    <3>3. QED
      BY <3>1, <3>2, ZenonT(40) DEF SetInv
  <2>3. QED
    BY <2>1, <2>2
<1>3. SetInv => RemovedUnlessAdded
  <2> SUFFICES ASSUME SetInv, NEW r \in Site, NEW e \in Element, SetContains(r, e)
               PROVE  \E a \in added[r] \ cancelled[r] : a[2] = e
    BY DEF RemovedUnlessAdded
  <2>1. PICK t \in Tag : elements[r][e][t] = "there"
    BY DEF SetContains
  <2>2. PICK s \in Site : <<s, e, t>> \in added[r] \ cancelled[r]
    BY <2>1 DEF SetInv
  <2>3. <<s, e, t>>[2] = e
    OBVIOUS
  <2>4. QED
    BY <2>2, <2>3
<1>4. QED
  BY <1>1, <1>2, <1>3, PTL DEF SetSpec

-----------------------------------------------------------------------------
(* LWWRegister *)

Write == [ts : 1 .. MaxStamp, writer : RegNode, value : Nat]

\* The order of writes: by timestamp, then by writer.
Older(v, w) == v.ts < w.ts \/ (v.ts = w.ts /\ v.writer < w.writer)

\* A register is the last of the writes that reached it; a writer knows its own writes,
\* and no two writes have the same timestamp and writer.
RegisterInv ==
    /\ register \in [RegNode -> [ts : 0 .. MaxStamp, writer : 0 .. Nodes, value : Nat]]
    /\ stored \in [RegNode -> SUBSET Write]
    /\ IsFiniteSet(AllWrites)
    /\ \A n \in RegNode : IF stored[n] = {} THEN register[n] = Unset ELSE register[n] \in stored[n]
    /\ \A n \in RegNode : \A w \in stored[n] : w = register[n] \/ Older(w, register[n])
    /\ \A n \in RegNode : \A w \in stored[n] : w \in stored[w.writer]
    /\ \A n, m \in RegNode : \A v \in stored[n], w \in stored[m] :
          v.ts = w.ts /\ v.writer = w.writer => v = w

\* A write that is later than what the register holds and has no twin keeps the invariant.
LEMMA StoreKeeps ==
    ASSUME RegisterInv, NEW n \in RegNode, NEW ts \in 1 .. MaxStamp, Store(n, ts),
           ts > register[n].ts \/ (ts = register[n].ts /\ n > register[n].writer),
           \A m \in RegNode : \A v \in stored[m] : ~(v.ts = ts /\ v.writer = n)
    PROVE  RegisterInv'
<1>1. PICK w : /\ w = [ts |-> ts, writer |-> n, value |-> Cardinality(AllWrites) + 1]
               /\ register' = [register EXCEPT ![n] = w]
               /\ stored' = [stored EXCEPT ![n] = stored[n] \cup {w}]
  BY DEF Store, RegisterInv
<1>2. Cardinality(AllWrites) \in Nat
  BY FS_CardinalityType DEF RegisterInv
<1>3. w \in Write /\ w.ts = ts /\ w.writer = n
  BY <1>1, <1>2 DEF Write
<1>4. w \in [ts : 0 .. MaxStamp, writer : 0 .. Nodes, value : Nat]
  BY <1>1, <1>2, RegisterAssumption DEF RegNode
<1>5. /\ \A m \in RegNode : stored'[m] = IF m = n THEN stored[n] \cup {w} ELSE stored[m]
      /\ \A m \in RegNode : register'[m] = IF m = n THEN w ELSE register[m]
      /\ stored' \in [RegNode -> SUBSET Write]
      /\ register' \in [RegNode -> [ts : 0 .. MaxStamp, writer : 0 .. Nodes, value : Nat]]
  BY <1>1, <1>3, <1>4 DEF RegisterInv
<1>6. IsFiniteSet(AllWrites')
  <2>1. AllWrites' = AllWrites \cup {w}
    BY <1>5 DEF AllWrites
  <2>2. QED
    BY <2>1, FS_AddElement DEF RegisterInv
<1>7. ASSUME NEW v \in stored[n]
      PROVE  Older(v, w)
  <2>1. v \in Write /\ (v = register[n] \/ Older(v, register[n]))
    BY DEF RegisterInv
  <2>2. register[n] \in [ts : 0 .. MaxStamp, writer : 0 .. Nodes, value : Nat]
    BY DEF RegisterInv
  <2>3. /\ v.ts \in Nat /\ v.writer \in Nat /\ ts \in Nat /\ n \in Nat
        /\ register[n].ts \in Nat /\ register[n].writer \in Nat
    BY <2>1, <2>2, RegisterAssumption DEF Write, RegNode
  <2>4. QED
    BY <1>3, <2>1, <2>3 DEF Older
<1>8. ASSUME NEW m \in RegNode
      PROVE  /\ IF stored'[m] = {} THEN register'[m] = Unset ELSE register'[m] \in stored'[m]
             /\ \A v \in stored'[m] : v = register'[m] \/ Older(v, register'[m])
             /\ \A v \in stored'[m] : v \in stored'[v.writer]
  <2>1. \A v \in stored[m] : v.writer \in RegNode /\ v \in stored[v.writer]
    BY DEF RegisterInv, Write
  <2>2. CASE m = n
    BY <1>3, <1>5, <1>7, <2>1, <2>2
  <2>3. CASE m # n
    BY <1>5, <2>1, <2>3, SMTT(30) DEF RegisterInv
  <2>4. QED
    BY <2>2, <2>3
<1>9. ASSUME NEW m \in RegNode, NEW k \in RegNode, NEW v \in stored'[m], NEW x \in stored'[k],
             v.ts = x.ts, v.writer = x.writer
      PROVE  v = x
  <2>1. (v \in stored[m] \/ v = w) /\ (x \in stored[k] \/ x = w)
    BY <1>5
  <2>2. QED
    BY <1>3, <1>9, <2>1 DEF RegisterInv
<1>10. QED
  BY <1>5, <1>6, <1>8, <1>9 DEF RegisterInv

\* SetAt stores a write that is later than what the register holds.
LEMMA SetAtKeeps ==
    ASSUME RegisterInv, NEW n \in RegNode, NEW ts \in 1 .. MaxStamp, SetAt(n, ts)
    PROVE  RegisterInv'
<1>1. ASSUME NEW m \in RegNode, NEW v \in stored[m], v.ts = ts, v.writer = n
      PROVE  FALSE
  <2>1. v \in stored[n] /\ v \in Write
    BY <1>1 DEF RegisterInv
  <2>2. v = register[n] \/ Older(v, register[n])
    BY <2>1 DEF RegisterInv
  <2>3. /\ register[n].ts \in Nat /\ register[n].writer \in Nat /\ ts \in Nat /\ n \in Nat
    BY RegisterAssumption DEF RegisterInv, RegNode
  <2>4. QED
    BY <1>1, <2>2, <2>3 DEF Older, SetAt
<1>2. QED
  BY <1>1, StoreKeeps DEF SetAt

\* Set takes a time after every write so far.
LEMMA SetNowKeeps ==
    ASSUME RegisterInv, NEW n \in RegNode, SetNow(n)
    PROVE  RegisterInv'
<1> DEFINE T == {w.ts : w \in AllWrites} \cup {0}
<1>1. T \in SUBSET (0 .. MaxStamp) /\ T # {}
  BY RegisterAssumption DEF RegisterInv, AllWrites, Write
<1>2. \E x \in T : \A y \in T : y <= x
  BY <1>1, RegisterAssumption, NatMax
<1>3. \A x, y \in T : y <= x <=> x >= y
  BY <1>1
<1>4. \E x \in T : \A y \in T : x >= y
  BY <1>2, <1>3
<1>5. PICK instant : instant = Max(T) + 1
  OBVIOUS
<1>6. Max(T) \in T /\ \A y \in T : Max(T) >= y
  BY <1>4 DEF Max
<1>7. instant <= MaxStamp /\ Store(n, instant)
  BY <1>5 DEF SetNow
<1>8. instant \in 1 .. MaxStamp /\ \A y \in T : y \in Nat /\ y < instant
  <2> HIDE DEF T
  <2>0. Max(T) \in Nat
    <3>1. T \subseteq Nat
      BY <1>1
    <3>2. QED
      BY <1>6, <3>1
  <2>1. PICK m \in Nat : m = Max(T)
    BY <2>0
  <2>2. instant = m + 1 /\ \A y \in T : y \in Nat /\ m >= y
    BY <1>1, <1>5, <1>6, <2>1
  <2>3. QED
    BY <1>7, <2>2, RegisterAssumption
<1>9. \A m \in RegNode : \A v \in stored[m] : v.ts \in T
  BY DEF AllWrites
<1> HIDE DEF T
<1>10. \A m \in RegNode : \A v \in stored[m] : ~(v.ts = instant /\ v.writer = n)
  BY <1>8, <1>9
<1>11. instant > register[n].ts
  <2>1. CASE stored[n] = {}
    <3>1. register[n] = Unset
      BY <2>1 DEF RegisterInv
    <3>2. QED
      BY <1>8, <3>1 DEF Unset
  <2>2. CASE stored[n] # {}
    <3>1. register[n] \in stored[n]
      BY <2>2 DEF RegisterInv
    <3>2. QED
      BY <1>8, <1>9, <3>1
  <2>3. QED
    BY <2>1, <2>2
<1>12. QED
  BY <1>7, <1>8, <1>10, <1>11, StoreKeeps

\* Merge takes the later of the two registers.
LEMMA MergeRegisterKeeps ==
    ASSUME RegisterInv, NEW n \in RegNode, NEW o \in RegNode, MergeRegister(n, o)
    PROVE  RegisterInv'
<1> DEFINE Reg == [ts : 0 .. MaxStamp, writer : 0 .. Nodes, value : Nat]
           a == register[n]
           b == register[o]
<1>1. /\ a \in Reg /\ b \in Reg
      /\ a.ts \in Nat /\ a.writer \in Nat /\ b.ts \in Nat /\ b.writer \in Nat
  BY RegisterAssumption DEF RegisterInv
<1>2. PICK c : /\ register' = [register EXCEPT ![n] = c]
               /\ c = IF Older(a, b) THEN b ELSE a
  <2>1. ASSUME b.ts = a.ts
        PROVE  [a EXCEPT !.value = b.value, !.writer = b.writer] = b
    BY <1>1, <2>1
  <2>2. QED
    BY <1>1, <2>1 DEF MergeRegister, Older, RegisterInv
<1>3. stored' = [stored EXCEPT ![n] = stored[n] \cup stored[o]]
  BY DEF MergeRegister, RegisterInv
<1>4. /\ \A m \in RegNode : stored'[m] = IF m = n THEN stored[n] \cup stored[o] ELSE stored[m]
      /\ \A m \in RegNode : register'[m] = IF m = n THEN c ELSE register[m]
      /\ stored' \in [RegNode -> SUBSET Write]
      /\ register' \in [RegNode -> Reg]
  BY <1>1, <1>2, <1>3 DEF RegisterInv
<1>5. IsFiniteSet(AllWrites')
  <2>1. AllWrites' = AllWrites
    BY <1>4 DEF AllWrites
  <2>2. QED
    BY <2>1 DEF RegisterInv
<1>6. /\ IF stored[n] = {} THEN a = Unset ELSE a \in stored[n]
      /\ IF stored[o] = {} THEN b = Unset ELSE b \in stored[o]
      /\ \A w \in stored[n] : w = a \/ Older(w, a)
      /\ \A w \in stored[o] : w = b \/ Older(w, b)
      /\ stored[n] \subseteq Write /\ stored[o] \subseteq Write
  BY DEF RegisterInv
<1>7. \A w \in Write : /\ w.ts \in Nat /\ w.writer \in Nat /\ w.ts > 0
                       /\ Older(Unset, w) /\ ~Older(w, Unset)
  BY RegisterAssumption DEF Write, RegNode, Older, Unset
<1>8. IF stored'[n] = {} THEN c = Unset ELSE c \in stored'[n]
  <2>1. stored'[n] = stored[n] \cup stored[o]
    BY <1>4
  <2>2. CASE stored[o] = {}
    <3>1. ~Older(a, Unset)
      BY <1>1 DEF Older, Unset
    <3>2. QED
      BY <1>2, <1>6, <2>1, <2>2, <3>1
  <2>3. CASE stored[n] = {} /\ stored[o] # {}
    BY <1>2, <1>6, <1>7, <2>1, <2>3
  <2>4. CASE stored[n] # {} /\ stored[o] # {}
    BY <1>2, <1>6, <2>1, <2>4
  <2>5. QED
    BY <2>2, <2>3, <2>4
<1>9. ASSUME NEW w \in stored'[n]
      PROVE  w = c \/ Older(w, c)
  <2>1. w \in stored[n] \/ w \in stored[o]
    BY <1>4
  <2>2. w \in Write /\ w.ts \in Nat /\ w.writer \in Nat
    BY <1>6, <1>7, <2>1
  <2>3. CASE Older(a, b)
    BY <1>1, <1>2, <1>6, <2>1, <2>2, <2>3 DEF Older
  <2>4. CASE ~Older(a, b)
    <3>1. CASE w \in stored[n]
      BY <1>2, <1>6, <2>4, <3>1
    <3>2. CASE w \in stored[o]
      <4>1. b \in stored[o]
        BY <1>6, <3>2
      <4>2. stored[n] # {}
        <5>1. Older(Unset, b)
          BY <1>6, <1>7, <4>1
        <5>2. QED
          BY <1>6, <2>4, <5>1
      <4>3. a \in stored[n]
        BY <1>6, <4>2
      <4>4. a = b \/ Older(b, a)
        <5>1. a.ts = b.ts /\ a.writer = b.writer => a = b
          BY <4>1, <4>3 DEF RegisterInv
        <5>2. QED
          BY <1>1, <2>4, <5>1 DEF Older
      <4>5. w = b \/ Older(w, b)
        BY <1>6, <3>2
      <4>6. QED
        BY <1>1, <1>2, <2>2, <2>4, <4>4, <4>5 DEF Older
    <3>3. QED
      BY <2>1, <3>1, <3>2
  <2>5. QED
    BY <2>3, <2>4
<1>10. ASSUME NEW m \in RegNode, NEW w \in stored'[m]
       PROVE  w \in stored'[w.writer]
  <2>1. PICK k \in RegNode : w \in stored[k]
    BY <1>4
  <2>2. w.writer \in RegNode /\ w \in stored[w.writer]
    BY <2>1 DEF RegisterInv, Write
  <2>3. QED
    BY <1>4, <2>2
<1>11. ASSUME NEW m \in RegNode, NEW k \in RegNode, NEW v \in stored'[m], NEW w \in stored'[k],
              v.ts = w.ts, v.writer = w.writer
       PROVE  v = w
  <2>1. (\E x \in RegNode : v \in stored[x]) /\ (\E x \in RegNode : w \in stored[x])
    BY <1>4
  <2>2. QED
    BY <1>11, <2>1 DEF RegisterInv
<1>12. ASSUME NEW m \in RegNode
       PROVE  /\ IF stored'[m] = {} THEN register'[m] = Unset ELSE register'[m] \in stored'[m]
              /\ \A w \in stored'[m] : w = register'[m] \/ Older(w, register'[m])
  <2>1. CASE m = n
    BY <1>4, <1>8, <1>9, <2>1
  <2>2. CASE m # n
    BY <1>4, <2>2 DEF RegisterInv
  <2>3. QED
    BY <2>1, <2>2
<1>13. QED
  BY <1>4, <1>5, <1>10, <1>11, <1>12 DEF RegisterInv

\* An LWWRegister holds the last of the writes that have reached it, by timestamp and then
\* by writer, in whatever order registers are merged (Set, SetAt, Merge).
THEOREM LastWriterWins == RegisterSpec => []LastWriteWins
<1>1. RegisterInit => RegisterInv
  <2> SUFFICES ASSUME RegisterInit
               PROVE  RegisterInv
    OBVIOUS
  <2>1. AllWrites = {}
    BY DEF RegisterInit, AllWrites
  <2>2. IsFiniteSet(AllWrites)
    BY <2>1, FS_EmptySet
  <2>3. QED
    BY <2>2, RegisterAssumption DEF RegisterInit, RegisterInv, Unset
<1>2. RegisterInv /\ [RegisterNext]_registerVars => RegisterInv'
  <2> SUFFICES ASSUME RegisterInv, [RegisterNext]_registerVars
               PROVE  RegisterInv'
    OBVIOUS
  <2>1. CASE RegisterNext
    BY <2>1, SetAtKeeps, SetNowKeeps, MergeRegisterKeeps DEF RegisterNext
  <2>2. CASE UNCHANGED registerVars
    BY <2>2 DEF registerVars, RegisterInv, AllWrites
  <2>3. QED
    BY <2>1, <2>2
<1>3. RegisterInv => LastWriteWins
  BY DEF RegisterInv, LastWriteWins, Older
<1>4. QED
  BY <1>1, <1>2, <1>3, PTL DEF RegisterSpec

-----------------------------------------------------------------------------
(* Sums.  SumFunctionOnSet folds a function over a set, taking the elements in  *)
(* the order in which CHOOSE finds them; the sum does not depend on it.         *)

\* Induction over the subsets of a finite set.
LEMMA SubsetInduction ==
    ASSUME NEW U, IsFiniteSet(U), NEW T, {} \in T,
           \A s \in SUBSET U : \A x \in U \ s : s \in T => s \cup {x} \in T
    PROVE  \A s \in SUBSET U : s \in T
<1>1. PICK N : N = {n \in Nat : \A s \in SUBSET U : Cardinality(s) = n => s \in T}
  OBVIOUS
<1>2. \A s \in SUBSET U : IsFiniteSet(s) /\ Cardinality(s) \in Nat
  BY FS_Subset, FS_CardinalityType
<1>3. 0 \in N
  BY <1>1, <1>2, FS_EmptySet
<1>4. ASSUME NEW n \in Nat, n \in N PROVE n + 1 \in N
  <2>1. ASSUME NEW s \in SUBSET U, Cardinality(s) = n + 1 PROVE s \in T
    <3>1. s # {}
      BY <2>1, FS_EmptySet
    <3>2. PICK x \in s : TRUE
      BY <3>1
    <3>3. Cardinality(s \ {x}) = n
      <4>1. IsFiniteSet(s)
        BY <1>2
      <4>2. Cardinality(s \ {x}) = Cardinality(s) - 1
        BY <4>1, FS_RemoveElement
      <4>3. QED
        BY <2>1, <4>2
    <3>4. s \ {x} \in T
      BY <1>1, <1>4, <3>3
    <3>5. (s \ {x}) \cup {x} = s /\ x \in U \ (s \ {x})
      OBVIOUS
    <3>6. QED
      BY <3>4, <3>5
  <2>2. QED
    BY <1>1, <2>1
<1>5. \A n \in Nat : n \in N
  BY <1>3, <1>4, SetInduction
<1>6. QED
  BY <1>1, <1>2, <1>5

\* What the fold computes for each subset.
IsFold(iter, f, S) ==
    iter = [s \in SUBSET S |-> IF s = {} THEN 0
                               ELSE LET x == CHOOSE x \in s : TRUE IN f[x] + iter[s \ {x}]]

\* The library's sum is such a fold, if there is one.
LEMMA SumIsFold ==
    ASSUME NEW f, NEW S, \E iter : IsFold(iter, f, S)
    PROVE  \E iter : IsFold(iter, f, S) /\ SumFunctionOnSet(f, S) = iter[S]
<1>1. PICK iter : iter = CHOOSE i : IsFold(i, f, S)
  OBVIOUS
<1>2. IsFold(iter, f, S)
  BY <1>1
<1>3. SumFunctionOnSet(f, S) = iter[S]
  BY <1>1 DEF SumFunctionOnSet, FoldFunctionOnSet, MapThenFoldSet, IsFold
<1>4. QED
  BY <1>2, <1>3

\* The fold exists: the sum of a set of k elements is found in k steps.
LEMMA FoldExists ==
    ASSUME NEW S, IsFiniteSet(S), NEW f, \A x \in S : f[x] \in Int
    PROVE  \E iter : IsFold(iter, f, S)
<1>1. PICK n \in Nat : n = Cardinality(S)
  BY FS_CardinalityType
<1>2. PICK pick : pick = [s \in SUBSET S |-> CHOOSE x \in s : TRUE]
  OBVIOUS
<1>3. \A s \in SUBSET S : s # {} => pick[s] \in s
  BY <1>2
<1>4. PICK D : D = [SUBSET S -> Int]
  OBVIOUS
<1>5. PICK v : v = [s \in SUBSET S |-> 0]
  OBVIOUS
<1>6. PICK F : F = [p \in D \X (1..n) |->
                      [s \in SUBSET S |-> IF s = {} THEN 0 ELSE f[pick[s]] + p[1][s \ {pick[s]}]]]
  OBVIOUS
<1>7. ASSUME NEW g \in D, NEW k \in 1..n
      PROVE  F[<<g, k>>] =
               [s \in SUBSET S |-> IF s = {} THEN 0 ELSE f[pick[s]] + g[s \ {pick[s]}]]
  BY <1>6
<1>8. \A g \in D, k \in 1..n : F[<<g, k>>] \in D
  <2>1. ASSUME NEW g \in D, NEW k \in 1..n PROVE F[<<g, k>>] \in D
    <3>1. ASSUME NEW s \in SUBSET S
          PROVE  (IF s = {} THEN 0 ELSE f[pick[s]] + g[s \ {pick[s]}]) \in Int
      <4>1. s # {} => f[pick[s]] \in Int
        BY <1>3
      <4>2. g[s \ {pick[s]}] \in Int
        BY <1>4
      <4>3. QED
        BY <4>1, <4>2
    <3>2. [s \in SUBSET S |-> IF s = {} THEN 0 ELSE f[pick[s]] + g[s \ {pick[s]}]]
            \in [SUBSET S -> Int]
      BY <3>1
    <3>3. QED
      BY <1>4, <1>7, <3>2
  <2>2. QED
    BY <2>1
<1>9. v \in D
  BY <1>4, <1>5
<1>10. PICK h : Iterates(h, v, F, n) /\ \A k \in 0..n : h[k] \in D
  BY <1>8, <1>9, IterationExists
<1>11. PICK iter : iter = [s \in SUBSET S |-> h[Cardinality(s)][s]]
  OBVIOUS
<1>12. ASSUME NEW s \in SUBSET S
       PROVE  iter[s] = IF s = {} THEN 0 ELSE f[pick[s]] + iter[s \ {pick[s]}]
  <2>1. CASE s = {}
    BY <1>5, <1>10, <1>11, <2>1, FS_EmptySet DEF Iterates
  <2>2. CASE s # {}
    <3>1. PICK x \in s : x = pick[s]
      BY <1>3, <2>2
    <3>2. IsFiniteSet(s) /\ Cardinality(s) \in Nat /\ Cardinality(s) <= n
      BY <1>1, FS_Subset, FS_CardinalityType
    <3>3. Cardinality(s \ {x}) = Cardinality(s) - 1
      BY <3>2, FS_RemoveElement
    <3>4. Cardinality(s) # 0
      BY <2>2, <3>2, FS_EmptySet
    <3>5. PICK k \in 1..n : k = Cardinality(s)
      BY <3>2, <3>4
    <3>6. k - 1 \in 0..n /\ h[k - 1] \in D
      BY <1>10
    <3>7. h[k] = F[<<h[k - 1], k>>]
      BY <1>10 DEF Iterates
    <3>8. h[k][s] = f[x] + h[k - 1][s \ {x}]
      <4>1. PICK g \in D : g = h[k - 1]
        BY <3>6
      <4>2. h[k] = [r \in SUBSET S |-> IF r = {} THEN 0 ELSE f[pick[r]] + g[r \ {pick[r]}]]
        BY <1>7, <3>7, <4>1
      <4>3. QED
        BY <2>2, <3>1, <4>1, <4>2
    <3>9. iter[s] = h[k][s] /\ iter[s \ {x}] = h[k - 1][s \ {x}]
      BY <1>11, <3>3, <3>5
    <3>10. QED
      BY <2>2, <3>1, <3>8, <3>9
  <2>3. QED
    BY <2>1, <2>2
<1>13. IsFold(iter, f, S)
  BY <1>2, <1>11, <1>12 DEF IsFold
<1>14. QED
  BY <1>13

\* The folds over two sets agree on what the sets have in common.
LEMMA FoldsAgree ==
    ASSUME NEW S, NEW R, NEW f, NEW i, NEW j, IsFold(i, f, S), IsFold(j, f, R),
           IsFiniteSet(R), R \subseteq S
    PROVE  \A s \in SUBSET R : i[s] = j[s]
<1>1. PICK N : N = {n \in Nat : \A s \in SUBSET R : Cardinality(s) = n => i[s] = j[s]}
  OBVIOUS
<1>2. \A s \in SUBSET R : IsFiniteSet(s) /\ Cardinality(s) \in Nat /\ s \in SUBSET S
  BY FS_Subset, FS_CardinalityType
<1>3. 0 \in N
  <2>1. i[{}] = 0 /\ j[{}] = 0
    BY DEF IsFold
  <2>2. QED
    BY <1>1, <1>2, <2>1, FS_EmptySet
<1>4. ASSUME NEW n \in Nat, n \in N PROVE n + 1 \in N
  <2>1. ASSUME NEW s \in SUBSET R, Cardinality(s) = n + 1 PROVE i[s] = j[s]
    <3>1. s # {}
      BY <2>1, FS_EmptySet
    <3>2. PICK x \in s : x = CHOOSE y \in s : TRUE
      BY <3>1
    <3>3. Cardinality(s \ {x}) = (n + 1) - 1
      BY <1>2, <2>1, FS_RemoveElement
    <3>4. i[s \ {x}] = j[s \ {x}]
      BY <1>1, <1>4, <3>3
    <3>5. i[s] = f[x] + i[s \ {x}] /\ j[s] = f[x] + j[s \ {x}]
      BY <1>2, <3>1, <3>2 DEF IsFold
    <3>6. QED
      BY <3>4, <3>5
  <2>2. QED
    BY <1>1, <2>1
<1>5. \A n \in Nat : n \in N
  BY <1>3, <1>4, SetInduction
<1>6. QED
  BY <1>1, <1>2, <1>5

\* The sum over nothing, and over a set without the element that CHOOSE finds.
LEMMA SumUnfolds ==
    ASSUME NEW S, IsFiniteSet(S), NEW f, \A x \in S : f[x] \in Int
    PROVE  /\ S = {} => SumFunctionOnSet(f, S) = 0
           /\ S # {} => \E x \in S : /\ x = CHOOSE y \in S : TRUE
                                     /\ SumFunctionOnSet(f, S) = f[x] + SumFunctionOnSet(f, S \ {x})
<1>1. PICK i : IsFold(i, f, S) /\ SumFunctionOnSet(f, S) = i[S]
  BY FoldExists, SumIsFold
<1>2. S = {} => i[S] = 0
  BY <1>1 DEF IsFold
<1>3. ASSUME S # {}
      PROVE  \E x \in S : /\ x = CHOOSE y \in S : TRUE
                          /\ SumFunctionOnSet(f, S) = f[x] + SumFunctionOnSet(f, S \ {x})
  <2>1. PICK x \in S : x = CHOOSE y \in S : TRUE
    BY <1>3
  <2>2. i[S] = f[x] + i[S \ {x}]
    BY <1>1, <1>3, <2>1 DEF IsFold
  <2>3. PICK R : R = S \ {x}
    OBVIOUS
  <2>4. IsFiniteSet(R) /\ R \subseteq S /\ \A y \in R : f[y] \in Int
    BY <2>3, FS_RemoveElement
  <2>5. PICK j : IsFold(j, f, R) /\ SumFunctionOnSet(f, R) = j[R]
    BY <2>4, FoldExists, SumIsFold
  <2>6. i[R] = j[R]
    BY <1>1, <2>4, <2>5, FoldsAgree
  <2>7. QED
    BY <1>1, <2>1, <2>2, <2>3, <2>5, <2>6
<1>4. QED
  BY <1>1, <1>2, <1>3

\* A sum of integers is an integer, and any element may be taken out first.
LEMMA SumTakesOut ==
    ASSUME NEW U, IsFiniteSet(U), NEW f, \A x \in U : f[x] \in Int
    PROVE  \A S \in SUBSET U :
             /\ SumFunctionOnSet(f, S) \in Int
             /\ \A x \in S : SumFunctionOnSet(f, S) = f[x] + SumFunctionOnSet(f, S \ {x})
<1> DEFINE Good(S) == /\ SumFunctionOnSet(f, S) \in Int
                      /\ \A x \in S : SumFunctionOnSet(f, S) = f[x] + SumFunctionOnSet(f, S \ {x})
<1>1. PICK N : N = {n \in Nat : \A S \in SUBSET U : Cardinality(S) <= n => Good(S)}
  OBVIOUS
<1>2. \A S \in SUBSET U : /\ IsFiniteSet(S) /\ Cardinality(S) \in Nat
                          /\ \A x \in S : f[x] \in Int
  BY FS_Subset, FS_CardinalityType
<1>3. 0 \in N
  <2>1. ASSUME NEW S \in SUBSET U, Cardinality(S) <= 0 PROVE Good(S)
    <3>1. Cardinality(S) = 0
      BY <1>2, <2>1
    <3>2. S = {}
      BY <1>2, <3>1, FS_EmptySet
    <3>3. SumFunctionOnSet(f, S) = 0
      BY <1>2, <3>2, SumUnfolds
    <3>4. QED
      BY <3>2, <3>3
  <2>2. QED
    BY <1>1, <2>1
<1>4. ASSUME NEW n \in Nat, n \in N PROVE n + 1 \in N
  <2>1. ASSUME NEW S \in SUBSET U, Cardinality(S) <= n + 1 PROVE Good(S)
    <3>1. CASE S = {}
      <4>1. SumFunctionOnSet(f, S) = 0
        BY <1>2, <3>1, SumUnfolds
      <4>2. QED
        BY <3>1, <4>1
    <3>2. CASE S # {}
      <4>1. PICK c \in S : SumFunctionOnSet(f, S) = f[c] + SumFunctionOnSet(f, S \ {c})
        BY <1>2, <3>2, SumUnfolds
      <4>2. ASSUME NEW x \in S PROVE S \ {x} \in SUBSET U /\ Good(S \ {x})
        <5>1. IsFiniteSet(S) /\ Cardinality(S) \in Nat
          BY <1>2
        <5>2. Cardinality(S \ {x}) = Cardinality(S) - 1
          BY <5>1, FS_RemoveElement
        <5>3. Cardinality(S \ {x}) <= n
          BY <2>1, <5>1, <5>2
        <5>4. S \ {x} \in SUBSET U
          OBVIOUS
        <5>5. QED
          BY <1>1, <1>4, <5>3, <5>4
      <4>3. SumFunctionOnSet(f, S) \in Int
        <5>1. SumFunctionOnSet(f, S \ {c}) \in Int /\ f[c] \in Int
          BY <1>2, <4>2
        <5>2. QED
          BY <4>1, <5>1
      <4>4. ASSUME NEW x \in S, x # c
            PROVE  SumFunctionOnSet(f, S) = f[x] + SumFunctionOnSet(f, S \ {x})
        <5>1. x \in S \ {c} /\ c \in S \ {x} /\ (S \ {c}) \ {x} = (S \ {x}) \ {c}
          BY <4>4
        <5>2. PICK R : R = (S \ {c}) \ {x}
          OBVIOUS
        <5>3. SumFunctionOnSet(f, S \ {c}) = f[x] + SumFunctionOnSet(f, R)
          BY <4>2, <5>1, <5>2
        <5>4. SumFunctionOnSet(f, S \ {x}) = f[c] + SumFunctionOnSet(f, R)
          BY <4>2, <5>1, <5>2
        <5>5. f[x] \in Int /\ f[c] \in Int /\ SumFunctionOnSet(f, R) \in Int
          <6>1. R \in SUBSET U /\ IsFiniteSet(S \ {c}) /\ R = (S \ {c}) \ {x}
            BY <1>2, <5>2, FS_RemoveElement
          <6>2. Cardinality(R) <= n
            <7>1. IsFiniteSet(S) /\ Cardinality(S) \in Nat /\ Cardinality(R) \in Nat
              BY <1>2, <6>1
            <7>2. Cardinality(S \ {c}) = Cardinality(S) - 1
              BY <7>1, FS_RemoveElement
            <7>3. Cardinality(R) = Cardinality(S \ {c}) - 1
              BY <5>1, <6>1, FS_RemoveElement
            <7>4. QED
              BY <2>1, <7>1, <7>2, <7>3
          <6>3. Good(R)
            BY <1>1, <1>4, <6>1, <6>2
          <6>4. QED
            BY <1>2, <6>3
        <5>6. QED
          BY <4>1, <5>3, <5>4, <5>5
      <4>5. QED
        BY <4>1, <4>3, <4>4
    <3>3. QED
      BY <3>1, <3>2
  <2>2. QED
    BY <1>1, <2>1
<1>5. \A n \in Nat : n \in N
  BY <1>3, <1>4, SetInduction
<1>6. ASSUME NEW S \in SUBSET U PROVE Good(S)
  <2>1. PICK n \in Nat : n = Cardinality(S)
    BY <1>2
  <2>2. n \in N /\ Cardinality(S) <= n
    BY <1>5, <2>1
  <2>3. QED
    BY <1>1, <2>2
<1>7. QED
  BY <1>6

\* The same, as an element that is added.
LEMMA SumAdds ==
    ASSUME NEW U, IsFiniteSet(U), NEW f, \A x \in U : f[x] \in Int
    PROVE  /\ SumFunctionOnSet(f, {}) = 0
           /\ \A S \in SUBSET U :
                /\ SumFunctionOnSet(f, S) \in Int
                /\ \A x \in U \ S : SumFunctionOnSet(f, S \cup {x}) = f[x] + SumFunctionOnSet(f, S)
<1>1. SumFunctionOnSet(f, {}) = 0
  BY SumUnfolds, FS_EmptySet
<1>2. ASSUME NEW S \in SUBSET U, NEW x \in U \ S
      PROVE  SumFunctionOnSet(f, S \cup {x}) = f[x] + SumFunctionOnSet(f, S)
  <2>1. S \cup {x} \in SUBSET U /\ x \in S \cup {x} /\ (S \cup {x}) \ {x} = S
    OBVIOUS
  <2>2. SumFunctionOnSet(f, S \cup {x}) = f[x] + SumFunctionOnSet(f, (S \cup {x}) \ {x})
    BY <2>1, SumTakesOut
  <2>3. QED
    BY <2>1, <2>2
<1>3. QED
  BY <1>1, <1>2, SumTakesOut

\* Functions that agree have the same sums.
LEMMA SumsAgree ==
    ASSUME NEW U, IsFiniteSet(U), NEW f, NEW g, \A x \in U : f[x] \in Int /\ g[x] = f[x]
    PROVE  SumFunctionOnSet(g, U) = SumFunctionOnSet(f, U)
<1>1. PICK T : T = {s \in SUBSET U : SumFunctionOnSet(g, s) = SumFunctionOnSet(f, s)}
  OBVIOUS
<1>2. \A x \in U : f[x] \in Int /\ g[x] \in Int
  OBVIOUS
<1>3. {} \in T
  BY <1>1, <1>2, SumAdds
<1>4. ASSUME NEW s \in SUBSET U, NEW x \in U \ s, s \in T PROVE s \cup {x} \in T
  <2>1. SumFunctionOnSet(f, s \cup {x}) = f[x] + SumFunctionOnSet(f, s)
    BY <1>2, SumAdds
  <2>2. SumFunctionOnSet(g, s \cup {x}) = g[x] + SumFunctionOnSet(g, s)
    BY <1>2, SumAdds
  <2>3. QED
    BY <1>1, <1>4, <2>1, <2>2
<1>5. \A s \in SUBSET U : s \in T
  BY <1>3, <1>4, SubsetInduction
<1>6. QED
  BY <1>1, <1>5

\* A sum of at most b each.
LEMMA SumBounded ==
    ASSUME NEW U, IsFiniteSet(U), NEW f, NEW b \in Int, \A x \in U : f[x] \in Int /\ f[x] <= b
    PROVE  SumFunctionOnSet(f, U) <= Cardinality(U) * b
<1>1. PICK T : T = {s \in SUBSET U : SumFunctionOnSet(f, s) <= Cardinality(s) * b}
  OBVIOUS
<1>2. {} \in T
  <2>1. SumFunctionOnSet(f, {}) = 0 /\ Cardinality({}) = 0
    BY SumAdds, FS_EmptySet
  <2>2. SumFunctionOnSet(f, {}) <= Cardinality({}) * b
    BY <2>1
  <2>3. QED
    BY <1>1, <2>2
<1>3. ASSUME NEW s \in SUBSET U, NEW x \in U \ s, s \in T PROVE s \cup {x} \in T
  <2>1. SumFunctionOnSet(f, s \cup {x}) = f[x] + SumFunctionOnSet(f, s)
        /\ SumFunctionOnSet(f, s) \in Int
    BY SumAdds
  <2>2. PICK k \in Nat : k = Cardinality(s)
    BY FS_Subset, FS_CardinalityType
  <2>3. Cardinality(s \cup {x}) = k + 1
    BY <2>2, FS_Subset, FS_AddElement
  <2>4. SumFunctionOnSet(f, s) <= k * b
    BY <1>1, <1>3, <2>2
  <2>5. k * b \in Int /\ (k + 1) * b = k * b + b
    OBVIOUS
  <2>6. SumFunctionOnSet(f, s \cup {x}) <= (k + 1) * b
    BY <2>1, <2>4, <2>5
  <2>7. QED
    BY <1>1, <2>3, <2>6
<1>4. \A s \in SUBSET U : s \in T
  BY <1>2, <1>3, SubsetInduction
<1>5. QED
  BY <1>1, <1>4

\* The sum over two sets without a common element.
LEMMA SumOfUnion ==
    ASSUME NEW U, IsFiniteSet(U), NEW f, \A x \in U : f[x] \in Int,
           NEW A \in SUBSET U, NEW B \in SUBSET U, A \cap B = {}
    PROVE  SumFunctionOnSet(f, A \cup B) = SumFunctionOnSet(f, A) + SumFunctionOnSet(f, B)
<1>1. PICK T : T = {s \in SUBSET B :
                      SumFunctionOnSet(f, A \cup s) = SumFunctionOnSet(f, A) + SumFunctionOnSet(f, s)}
  OBVIOUS
<1>2. IsFiniteSet(B) /\ SumFunctionOnSet(f, A) \in Int
  BY FS_Subset, SumAdds
<1>3. {} \in T
  <2>1. A \cup {} = A /\ SumFunctionOnSet(f, {}) = 0
    BY SumAdds
  <2>2. SumFunctionOnSet(f, A \cup {}) = SumFunctionOnSet(f, A) + SumFunctionOnSet(f, {})
    BY <1>2, <2>1
  <2>3. QED
    BY <1>1, <2>2
<1>4. ASSUME NEW s \in SUBSET B, NEW x \in B \ s, s \in T PROVE s \cup {x} \in T
  <2>1. SumFunctionOnSet(f, s \cup {x}) = f[x] + SumFunctionOnSet(f, s)
        /\ SumFunctionOnSet(f, s) \in Int
    BY SumAdds
  <2>2. PICK R : R = A \cup s
    OBVIOUS
  <2>3. R \in SUBSET U /\ x \in U \ R /\ A \cup (s \cup {x}) = R \cup {x}
    BY <2>2
  <2>4. SumFunctionOnSet(f, R \cup {x}) = f[x] + SumFunctionOnSet(f, R)
    BY <2>3, SumAdds
  <2>5. SumFunctionOnSet(f, R) = SumFunctionOnSet(f, A) + SumFunctionOnSet(f, s)
    BY <1>1, <1>4, <2>2
  <2>6. f[x] \in Int
    OBVIOUS
  <2>7. SumFunctionOnSet(f, R \cup {x})
          = SumFunctionOnSet(f, A) + SumFunctionOnSet(f, s \cup {x})
    BY <1>2, <2>1, <2>4, <2>5, <2>6
  <2>8. QED
    BY <1>1, <2>3, <2>7
<1>5. \A s \in SUBSET B : s \in T
  BY <1>2, <1>3, <1>4, SubsetInduction
<1>6. QED
  BY <1>1, <1>5

\* A sum of natural numbers is one, and is no less than that over a subset.
LEMMA SumGrows ==
    ASSUME NEW U, IsFiniteSet(U), NEW f, \A x \in U : f[x] \in Nat, NEW A \in SUBSET U
    PROVE  SumFunctionOnSet(f, A) \in Nat /\ SumFunctionOnSet(f, A) <= SumFunctionOnSet(f, U)
<1>1. PICK T : T = {s \in SUBSET U : SumFunctionOnSet(f, s) \in Nat}
  OBVIOUS
<1>2. \A x \in U : f[x] \in Int
  OBVIOUS
<1>3. {} \in T
  BY <1>1, <1>2, SumAdds
<1>4. ASSUME NEW s \in SUBSET U, NEW x \in U \ s, s \in T PROVE s \cup {x} \in T
  <2>1. SumFunctionOnSet(f, s \cup {x}) = f[x] + SumFunctionOnSet(f, s)
    BY <1>2, SumAdds
  <2>2. QED
    BY <1>1, <1>4, <2>1
<1>5. \A s \in SUBSET U : s \in T
  BY <1>3, <1>4, SubsetInduction
<1>6. SumFunctionOnSet(f, A) \in Nat /\ SumFunctionOnSet(f, U \ A) \in Nat
  BY <1>1, <1>5
<1>7. A \cup (U \ A) = U /\ A \cap (U \ A) = {} /\ U \ A \in SUBSET U
  OBVIOUS
<1>8. SumFunctionOnSet(f, U) = SumFunctionOnSet(f, A) + SumFunctionOnSet(f, U \ A)
  BY <1>2, <1>7, SumOfUnion
<1>9. QED
  BY <1>6, <1>8

-----------------------------------------------------------------------------
(* GCounter and PNCounter *)

Call == [by : Replica, call : Nat, sign : Sign, n : Nat \ {0}]

Amount == [u \in Call |-> u.n]

\* The calls of n on its counter s that have reached r.
CallsOf(K, s, n) == {u \in K : u.sign = s /\ u.by = n}

\* A replica's count of n is the sum of a first stretch of n's calls.
CounterInv ==
    /\ counts \in [Replica -> [Sign -> [Replica -> Nat]]]
    /\ merging \in [Replica -> Replica]
    /\ known \in [Replica -> SUBSET Call]
    /\ \A r \in Replica : IsFiniteSet(known[r])
    /\ \A r, n \in Replica, s \in Sign :
         counts[r][s][n] = SumFunctionOnSet(Amount, CallsOf(known[r], s, n))
    /\ \A r \in Replica : \A u \in known[r] : u \in known[u.by]
    /\ \A r \in Replica : \A u \in known[r] : \A v \in known[u.by] :
         v.by = u.by /\ v.sign = u.sign /\ v.call <= u.call => v \in known[r]
    /\ \A r \in Replica : \A u \in known[r] :
         u.by = r => u.call < Cardinality({v \in known[r] : v.by = r})

\* What a call is made of.
LEMMA CallTypes ==
    ASSUME NEW u \in Call
    PROVE  u.by \in Replica /\ u.call \in Nat /\ u.sign \in Sign /\ u.n \in Nat \ {0} /\ Amount[u] = u.n
BY DEF Call, Amount

\* The sum of a replica's counts is that of all calls on the counter.
LEMMA SumByCaller ==
    ASSUME NEW K \in SUBSET Call, IsFiniteSet(K), NEW s \in Sign, NEW g,
           \A n \in Replica : g[n] = SumFunctionOnSet(Amount, CallsOf(K, s, n))
    PROVE  SumFunctionOnSet(g, Replica) = SumFunctionOnSet(Amount, {u \in K : u.sign = s})
<1>1. PICK T : T = {R \in SUBSET Replica :
                      SumFunctionOnSet(g, R)
                        = SumFunctionOnSet(Amount, {u \in K : u.sign = s /\ u.by \in R})}
  OBVIOUS
<1>2. IsFiniteSet(Replica)
  BY CounterAssumption
<1>3. \A u \in K : Amount[u] \in Int
  BY CallTypes
<1>4. \A n \in Replica : g[n] \in Int
  <2>1. ASSUME NEW n \in Replica PROVE g[n] \in Int
    <3>1. CallsOf(K, s, n) \in SUBSET K
      BY DEF CallsOf
    <3>2. QED
      BY <1>3, <3>1, SumAdds
  <2>2. QED
    BY <2>1
<1>5. {} \in T
  <2>1. SumFunctionOnSet(g, {}) = 0
    BY <1>2, <1>4, SumAdds
  <2>2. {u \in K : u.sign = s /\ u.by \in {}} = {}
    OBVIOUS
  <2>3. SumFunctionOnSet(Amount, {}) = 0
    BY <1>3, SumAdds
  <2>4. QED
    BY <1>1, <2>1, <2>2, <2>3
<1>6. ASSUME NEW R \in SUBSET Replica, NEW n \in Replica \ R, R \in T PROVE R \cup {n} \in T
  <2>1. SumFunctionOnSet(g, R \cup {n}) = g[n] + SumFunctionOnSet(g, R)
        /\ SumFunctionOnSet(g, R) \in Int
    BY <1>2, <1>4, SumAdds
  <2>2. PICK A \in SUBSET K : A = CallsOf(K, s, n)
    BY DEF CallsOf
  <2>3. PICK B \in SUBSET K : B = {u \in K : u.sign = s /\ u.by \in R}
    OBVIOUS
  <2>4. A \cap B = {} /\ A \cup B = {u \in K : u.sign = s /\ u.by \in R \cup {n}}
    BY <2>2, <2>3 DEF CallsOf
  <2>5. SumFunctionOnSet(Amount, A \cup B)
          = SumFunctionOnSet(Amount, A) + SumFunctionOnSet(Amount, B)
    BY <1>3, <2>4, SumOfUnion
  <2>6. SumFunctionOnSet(g, R) = SumFunctionOnSet(Amount, B)
    BY <1>1, <1>6, <2>3
  <2>7. g[n] = SumFunctionOnSet(Amount, A)
    BY <2>2
  <2>8. SumFunctionOnSet(g, R \cup {n}) = SumFunctionOnSet(Amount, A \cup B)
    BY <2>1, <2>5, <2>6, <2>7
  <2>9. QED
    BY <1>1, <2>4, <2>8
<1>7. \A R \in SUBSET Replica : R \in T
  BY <1>2, <1>5, <1>6, SubsetInduction
<1>8. {u \in K : u.sign = s /\ u.by \in Replica} = {u \in K : u.sign = s}
  BY CallTypes
<1>9. QED
  BY <1>1, <1>7, <1>8

\* Calls of Increment and of Decrement, counted with their sign.
LEMMA SumBySign ==
    ASSUME NEW K \in SUBSET Call, IsFiniteSet(K), NEW g,
           \A u \in K : g[u] = IF u.sign = "pos" THEN u.n ELSE -u.n
    PROVE  SumFunctionOnSet(g, K) = SumFunctionOnSet(Amount, {u \in K : u.sign = "pos"})
                                      - SumFunctionOnSet(Amount, {u \in K : u.sign = "neg"})
<1> DEFINE Part(S, s) == {u \in S : u.sign = s}
<1>1. PICK T : T = {S \in SUBSET K :
                      SumFunctionOnSet(g, S) = SumFunctionOnSet(Amount, Part(S, "pos"))
                                                 - SumFunctionOnSet(Amount, Part(S, "neg"))}
  OBVIOUS
<1>2. \A u \in K : /\ g[u] \in Int /\ Amount[u] \in Int /\ Amount[u] = u.n
                   /\ u.sign = "pos" \/ u.sign = "neg"
  BY CallTypes DEF Sign
<1>3. {} \in T
  <2>1. SumFunctionOnSet(g, {}) = 0 /\ SumFunctionOnSet(Amount, {}) = 0
    BY <1>2, SumAdds
  <2>2. Part({}, "pos") = {} /\ Part({}, "neg") = {}
    OBVIOUS
  <2>3. 0 = 0 - 0
    OBVIOUS
  <2>4. QED
    BY <1>1, <2>1, <2>2, <2>3
<1>4. ASSUME NEW S \in SUBSET K, NEW u \in K \ S, S \in T PROVE S \cup {u} \in T
  <2>1. SumFunctionOnSet(g, S \cup {u}) = g[u] + SumFunctionOnSet(g, S)
        /\ SumFunctionOnSet(g, S) \in Int
    BY <1>2, SumAdds
  <2>2. PICK A \in SUBSET K : A = Part(S, "pos")
    OBVIOUS
  <2>3. PICK B \in SUBSET K : B = Part(S, "neg")
    OBVIOUS
  <2>4. SumFunctionOnSet(Amount, A) \in Int /\ SumFunctionOnSet(Amount, B) \in Int
    BY <1>2, SumAdds
  <2>5. SumFunctionOnSet(g, S) = SumFunctionOnSet(Amount, A) - SumFunctionOnSet(Amount, B)
    BY <1>1, <1>4, <2>2, <2>3
  <2>6. CASE u.sign = "pos"
    <3>1. Part(S \cup {u}, "pos") = A \cup {u} /\ Part(S \cup {u}, "neg") = B /\ u \in K \ A
      BY <2>2, <2>3, <2>6
    <3>2. SumFunctionOnSet(Amount, A \cup {u}) = Amount[u] + SumFunctionOnSet(Amount, A)
      BY <1>2, <3>1, SumAdds
    <3>3. g[u] = Amount[u] /\ Amount[u] \in Int
      BY <1>2, <2>6
    <3>4. SumFunctionOnSet(g, S \cup {u})
            = SumFunctionOnSet(Amount, A \cup {u}) - SumFunctionOnSet(Amount, B)
      BY <2>1, <2>4, <2>5, <3>2, <3>3
    <3>5. QED
      BY <1>1, <3>1, <3>4
  <2>7. CASE u.sign = "neg"
    <3>1. Part(S \cup {u}, "pos") = A /\ Part(S \cup {u}, "neg") = B \cup {u} /\ u \in K \ B
      BY <2>2, <2>3, <2>7
    <3>2. SumFunctionOnSet(Amount, B \cup {u}) = Amount[u] + SumFunctionOnSet(Amount, B)
      BY <1>2, <3>1, SumAdds
    <3>3. g[u] = -Amount[u] /\ Amount[u] \in Int
      BY <1>2, <2>7
    <3>4. SumFunctionOnSet(g, S \cup {u})
            = SumFunctionOnSet(Amount, A) - SumFunctionOnSet(Amount, B \cup {u})
      BY <2>1, <2>4, <2>5, <3>2, <3>3
    <3>5. QED
      BY <1>1, <3>1, <3>4
  <2>8. QED
    BY <1>2, <2>6, <2>7
<1>5. \A S \in SUBSET K : S \in T
  BY <1>3, <1>4, SubsetInduction
<1>6. QED
  BY <1>1, <1>5

\* Increment of a replica's own entry.
LEMMA IncrementKeeps ==
    ASSUME CounterInv, NEW r \in Replica, NEW s \in Sign, NEW n \in 1 .. 2, Increment(r, s, n)
    PROVE  CounterInv'
<1>1. PICK mine : mine = {u \in known[r] : u.by = r}
  OBVIOUS
<1>2. IsFiniteSet(known[r]) /\ known[r] \in SUBSET Call
  BY DEF CounterInv
<1>3. IsFiniteSet(mine) /\ mine \in SUBSET known[r]
  BY <1>1, <1>2, FS_Subset
<1>4. PICK c \in Nat : c = Cardinality(mine)
  BY <1>3, FS_CardinalityType
<1>5. PICK w : w = [by |-> r, call |-> c, sign |-> s, n |-> n]
  OBVIOUS
<1>6. w \in Call /\ w.by = r /\ w.call = c /\ w.sign = s /\ w.n = n /\ Amount[w] = n
  BY <1>5 DEF Call, Amount
<1>7. /\ counts' = [counts EXCEPT ![r][s][r] = @ + n]
      /\ known' = [known EXCEPT ![r] = @ \cup {w}]
      /\ UNCHANGED merging
  BY <1>1, <1>4, <1>5 DEF Increment
<1>8. (\A u \in known[r] : u.by = r => u.call < c) /\ w \notin known[r]
  <2>1. \A u \in known[r] : u.by = r => u.call < c
    BY <1>1, <1>4 DEF CounterInv
  <2>2. QED
    BY <1>6, <2>1
<1>9. PICK K \in SUBSET Call : K = known[r]
  BY <1>2
<1>10. known'[r] = K \cup {w} /\ \A q \in Replica : q # r => known'[q] = known[q]
  BY <1>7, <1>9 DEF CounterInv
<1>11. known' \in [Replica -> SUBSET Call] /\ merging' \in [Replica -> Replica]
       /\ counts' \in [Replica -> [Sign -> [Replica -> Nat]]]
  BY <1>6, <1>7 DEF CounterInv
<1>12. IsFiniteSet(K \cup {w}) /\ \A q \in Replica : IsFiniteSet(known'[q])
  <2>1. IsFiniteSet(K \cup {w})
    BY <1>2, <1>9, FS_AddElement
  <2>2. ASSUME NEW q \in Replica PROVE IsFiniteSet(known'[q])
    <3>1. CASE q = r
      BY <1>10, <2>1, <3>1
    <3>2. CASE q # r
      BY <1>10, <3>2 DEF CounterInv
    <3>3. QED
      BY <3>1, <3>2
  <2>3. QED
    BY <2>1, <2>2
<1>13. \A q \in Replica : \A u \in known[q] : u \in known'[q] /\ u \in Call
  BY <1>9, <1>10 DEF CounterInv
<1>14. \A q, p \in Replica, z \in Sign :
         counts'[q][z][p] = SumFunctionOnSet(Amount, CallsOf(known'[q], z, p))
  <2> SUFFICES ASSUME NEW q \in Replica, NEW p \in Replica, NEW z \in Sign
               PROVE  counts'[q][z][p] = SumFunctionOnSet(Amount, CallsOf(known'[q], z, p))
    OBVIOUS
  <2>1. counts[q][z][p] = SumFunctionOnSet(Amount, CallsOf(known[q], z, p))
    BY DEF CounterInv
  <2>2. CASE q = r /\ z = s /\ p = r
    <3>1. counts'[q][z][p] = counts[q][z][p] + n /\ counts[q][z][p] \in Nat
      BY <1>7, <2>2 DEF CounterInv
    <3>2. PICK A : A = CallsOf(K, s, r)
      OBVIOUS
    <3>3. CallsOf(known'[q], z, p) = A \cup {w} /\ A \in SUBSET (K \cup {w}) /\ w \in (K \cup {w}) \ A
      BY <1>6, <1>8, <1>9, <1>10, <2>2, <3>2 DEF CallsOf
    <3>4. \A u \in K \cup {w} : Amount[u] \in Int
      BY <1>6, CallTypes
    <3>5. SumFunctionOnSet(Amount, A \cup {w}) = Amount[w] + SumFunctionOnSet(Amount, A)
      BY <1>12, <3>3, <3>4, SumAdds
    <3>6. counts[q][z][p] = SumFunctionOnSet(Amount, A)
      BY <1>9, <2>1, <2>2, <3>2
    <3>7. QED
      BY <1>6, <3>1, <3>3, <3>5, <3>6
  <2>3. CASE ~(q = r /\ z = s /\ p = r)
    <3>1. counts'[q][z][p] = counts[q][z][p]
      BY <1>7, <2>3 DEF CounterInv
    <3>2. CallsOf(known'[q], z, p) = CallsOf(known[q], z, p)
      BY <1>6, <1>9, <1>10, <2>3 DEF CallsOf
    <3>3. QED
      BY <2>1, <3>1, <3>2
  <2>4. QED
    BY <2>2, <2>3
<1>15. \A q \in Replica : \A u \in known'[q] : u \in known'[u.by]
  <2> SUFFICES ASSUME NEW q \in Replica, NEW u \in known'[q] PROVE u \in known'[u.by]
    OBVIOUS
  <2>1. CASE u = w
    BY <1>6, <1>10, <2>1
  <2>2. CASE u # w
    <3>1. u \in known[q]
      BY <1>9, <1>10, <2>2
    <3>2. u \in known[u.by] /\ u.by \in Replica
      BY <1>13, <3>1, CallTypes DEF CounterInv
    <3>3. QED
      BY <1>13, <3>2
  <2>3. QED
    BY <2>1, <2>2
<1>16. \A q \in Replica : \A u \in known'[q] : \A v \in known'[u.by] :
         v.by = u.by /\ v.sign = u.sign /\ v.call <= u.call => v \in known'[q]
  <2> SUFFICES ASSUME NEW q \in Replica, NEW u \in known'[q], NEW v \in known'[u.by],
                      v.by = u.by, v.sign = u.sign, v.call <= u.call
               PROVE  v \in known'[q]
    OBVIOUS
  <2>1. CASE u = w
    BY <1>6, <1>9, <1>10, <1>13, <2>1 DEF CounterInv
  <2>2. CASE u # w
    <3>1. u \in known[q] /\ u \in Call /\ u.by \in Replica /\ u.call \in Nat
      BY <1>9, <1>10, <1>13, <2>2, CallTypes
    <3>2. u \in known[u.by]
      BY <3>1 DEF CounterInv
    <3>3. CASE v = w
      <4>1. u.by = r /\ u \in known[r]
        BY <1>6, <3>2, <3>3
      <4>2. u.call < c
        BY <1>8, <4>1
      <4>3. QED
        BY <1>6, <3>1, <3>3, <4>2
    <3>4. CASE v # w
      <4>1. v \in known[u.by]
        BY <1>9, <1>10, <3>1, <3>4
      <4>2. v \in known[q]
        BY <3>1, <4>1 DEF CounterInv
      <4>3. QED
        BY <1>13, <4>2
    <3>5. QED
      BY <3>3, <3>4
  <2>3. QED
    BY <2>1, <2>2
<1>17. \A q \in Replica : \A u \in known'[q] :
         u.by = q => u.call < Cardinality({v \in known'[q] : v.by = q})
  <2> SUFFICES ASSUME NEW q \in Replica, NEW u \in known'[q], u.by = q
               PROVE  u.call < Cardinality({v \in known'[q] : v.by = q})
    OBVIOUS
  <2>1. CASE q = r
    <3>1. PICK M : M = {v \in known'[q] : v.by = q}
      OBVIOUS
    <3>2. M = mine \cup {w} /\ w \notin mine
      BY <1>1, <1>3, <1>6, <1>8, <1>9, <1>10, <2>1, <3>1
    <3>3. Cardinality(M) = c + 1
      BY <1>3, <1>4, <3>2, FS_AddElement
    <3>4. u.call < c + 1
      <4>1. CASE u = w
        BY <1>6, <4>1
      <4>2. CASE u # w
        <5>1. u \in known[r] /\ u.call \in Nat
          BY <1>9, <1>10, <2>1, <4>2, CallTypes
        <5>2. u.call < c
          BY <1>8, <2>1, <5>1
        <5>3. QED
          BY <5>1, <5>2
      <4>3. QED
        BY <4>1, <4>2
    <3>5. QED
      BY <3>1, <3>3, <3>4
  <2>2. CASE q # r
    BY <1>10, <2>2 DEF CounterInv
  <2>3. QED
    BY <2>1, <2>2
<1>18. QED
  BY <1>11, <1>12, <1>14, <1>15, <1>16, <1>17 DEF CounterInv

\* Of two replicas, one has had all the calls of n that the other has had, and its count of
\* n is the greater.
LEMMA OneKnowsMore ==
    ASSUME CounterInv, NEW r \in Replica, NEW o \in Replica, NEW s \in Sign, NEW n \in Replica
    PROVE  Max({counts[r][s][n], counts[o][s][n]})
             = SumFunctionOnSet(Amount, CallsOf(known[r], s, n) \cup CallsOf(known[o], s, n))
<1>1. PICK A : A = CallsOf(known[r], s, n)
  OBVIOUS
<1>2. PICK B : B = CallsOf(known[o], s, n)
  OBVIOUS
<1>3. PICK a \in Nat : a = counts[r][s][n]
  BY DEF CounterInv
<1>4. PICK b \in Nat : b = counts[o][s][n]
  BY DEF CounterInv
<1>5. a = SumFunctionOnSet(Amount, A) /\ b = SumFunctionOnSet(Amount, B)
  BY <1>1, <1>2, <1>3, <1>4 DEF CounterInv
<1>6. /\ IsFiniteSet(A) /\ IsFiniteSet(B)
      /\ \A u \in A : u \in Call /\ u \in known[r] /\ u.sign = s /\ u.by = n
      /\ \A u \in B : u \in Call /\ u \in known[o] /\ u.sign = s /\ u.by = n
  <2>1. A \in SUBSET known[r] /\ B \in SUBSET known[o]
    BY <1>1, <1>2 DEF CallsOf
  <2>2. IsFiniteSet(known[r]) /\ IsFiniteSet(known[o])
        /\ known[r] \in SUBSET Call /\ known[o] \in SUBSET Call
    BY DEF CounterInv
  <2>3. IsFiniteSet(A) /\ IsFiniteSet(B)
    BY <2>1, <2>2, FS_Subset
  <2>4. QED
    BY <1>1, <1>2, <2>2, <2>3 DEF CallsOf
<1>7. A \subseteq B \/ B \subseteq A
  <2> SUFFICES ASSUME NEW u \in A, u \notin B, NEW v \in B PROVE v \in A
    OBVIOUS
  <2>1. u.call \in Nat /\ v.call \in Nat
    BY <1>6, CallTypes
  <2>2. u \in known[n] /\ v \in known[n]
    BY <1>6 DEF CounterInv
  <2>3. CASE v.call <= u.call
    <3>1. v \in known[r]
      BY <1>6, <2>2, <2>3 DEF CounterInv
    <3>2. QED
      BY <1>1, <1>6, <3>1 DEF CallsOf
  <2>4. CASE u.call <= v.call
    <3>1. u \in known[o]
      BY <1>6, <2>2, <2>4 DEF CounterInv
    <3>2. QED
      BY <1>2, <1>6, <3>1 DEF CallsOf
  <2>5. QED
    BY <2>1, <2>3, <2>4
<1>8. \A u \in A \cup B : Amount[u] \in Nat
  BY <1>6, CallTypes
<1>9. Max({a, b}) = IF a >= b THEN a ELSE b
  BY MaxOfTwo
<1>10. CASE A \subseteq B
  <2>1. A \cup B = B /\ A \in SUBSET B
    BY <1>10
  <2>2. a <= b
    BY <1>5, <1>6, <1>8, <2>1, SumGrows
  <2>3. Max({a, b}) = b
    BY <1>9, <2>2
  <2>4. QED
    BY <1>1, <1>2, <1>3, <1>4, <1>5, <2>1, <2>3
<1>11. CASE B \subseteq A
  <2>1. A \cup B = A /\ B \in SUBSET A
    BY <1>11
  <2>2. b <= a
    BY <1>5, <1>6, <1>8, <2>1, SumGrows
  <2>3. Max({a, b}) = a
    BY <1>9, <2>2
  <2>4. QED
    BY <1>1, <1>2, <1>3, <1>4, <1>5, <2>1, <2>3
<1>12. QED
  BY <1>7, <1>10, <1>11

\* One of the two steps of Merge.
LEMMA GMergeKeeps ==
    ASSUME CounterInv, NEW r \in Replica, NEW o \in Replica, NEW s \in Sign, GMerge(r, o, s),
           merging' \in [Replica -> Replica]
    PROVE  CounterInv'
<1>1. PICK got : got = {u \in known[o] : u.sign = s}
  OBVIOUS
<1>2. PICK K \in SUBSET Call : K = known[r] \cup got
  BY <1>1 DEF CounterInv
<1>3. /\ counts' = [counts EXCEPT ![r][s] = GMerged(counts[r][s], counts[o][s])]
      /\ known' = [known EXCEPT ![r] = K]
  BY <1>1, <1>2 DEF GMerge, CounterInv
<1>4. known'[r] = K /\ (\A q \in Replica : q # r => known'[q] = known[q])
      /\ known' \in [Replica -> SUBSET Call]
  BY <1>3 DEF CounterInv
<1>5. \A q \in Replica : \A u \in known[q] : u \in known'[q] /\ u \in Call
  BY <1>2, <1>4 DEF CounterInv
<1>6. ASSUME NEW n \in Replica PROVE Max({counts[r][s][n], counts[o][s][n]}) \in Nat
  <2>1. counts[r][s][n] \in Nat /\ counts[o][s][n] \in Nat
    BY DEF CounterInv
  <2>2. QED
    BY <2>1, MaxOfTwo
<1>7. /\ counts' \in [Replica -> [Sign -> [Replica -> Nat]]]
      /\ \A n \in Replica : counts'[r][s][n] = Max({counts[r][s][n], counts[o][s][n]})
      /\ \A q, n \in Replica, z \in Sign :
           ~(q = r /\ z = s) => counts'[q][z][n] = counts[q][z][n]
  <2>1. PICK g \in [Replica -> Nat] : g = GMerged(counts[r][s], counts[o][s])
    BY <1>6 DEF GMerged
  <2>2. counts' = [counts EXCEPT ![r][s] = g]
    BY <1>3, <2>1
  <2>3. \A n \in Replica : g[n] = Max({counts[r][s][n], counts[o][s][n]})
    BY <2>1 DEF GMerged
  <2>4. QED
    BY <2>2, <2>3 DEF CounterInv
<1>8. ASSUME NEW q \in Replica PROVE IsFiniteSet(known'[q])
  <2>1. IsFiniteSet(known[q]) /\ IsFiniteSet(known[r]) /\ IsFiniteSet(known[o])
    BY DEF CounterInv
  <2>2. got \in SUBSET known[o]
    BY <1>1
  <2>3. IsFiniteSet(got)
    BY <2>1, <2>2, FS_Subset
  <2>4. IsFiniteSet(K)
    BY <1>2, <2>1, <2>3, FS_Union
  <2>5. QED
    BY <1>4, <2>1, <2>4
<1>9. \A q, n \in Replica, z \in Sign :
        counts'[q][z][n] = SumFunctionOnSet(Amount, CallsOf(known'[q], z, n))
  <2> SUFFICES ASSUME NEW q \in Replica, NEW n \in Replica, NEW z \in Sign
               PROVE  counts'[q][z][n] = SumFunctionOnSet(Amount, CallsOf(known'[q], z, n))
    OBVIOUS
  <2>1. counts[q][z][n] = SumFunctionOnSet(Amount, CallsOf(known[q], z, n))
    BY DEF CounterInv
  <2>2. CASE q = r /\ z = s
    <3>1. counts'[q][z][n] = Max({counts[r][s][n], counts[o][s][n]})
      BY <1>7, <2>2
    <3>2. CallsOf(K, s, n) = CallsOf(known[r], s, n) \cup CallsOf(known[o], s, n)
      BY <1>1, <1>2 DEF CallsOf
    <3>3. QED
      BY <1>4, <2>2, <3>1, <3>2, OneKnowsMore
  <2>3. CASE ~(q = r /\ z = s)
    <3>1. counts'[q][z][n] = counts[q][z][n]
      BY <1>7, <2>3
    <3>2. CallsOf(known'[q], z, n) = CallsOf(known[q], z, n)
      BY <1>1, <1>2, <1>4, <2>3 DEF CallsOf
    <3>3. QED
      BY <2>1, <3>1, <3>2
  <2>4. QED
    BY <2>2, <2>3
<1>10. ASSUME NEW q \in Replica, NEW u \in known'[q]
       PROVE  u \in Call /\ u.by \in Replica /\ u \in known[u.by]
              /\ (u \in known[q] \/ (q = r /\ u \in known[o] /\ u.sign = s))
  <2>1. u \in known[q] \/ (q = r /\ u \in known[o] /\ u.sign = s)
    BY <1>1, <1>2, <1>4
  <2>2. QED
    BY <1>4, <2>1, CallTypes DEF CounterInv
<1>11. \A q \in Replica : \A u \in known'[q] : u \in known'[u.by]
  BY <1>5, <1>10
<1>12. \A q \in Replica : \A u \in known'[q] : \A v \in known'[u.by] :
         v.by = u.by /\ v.sign = u.sign /\ v.call <= u.call => v \in known'[q]
  <2> SUFFICES ASSUME NEW q \in Replica, NEW u \in known'[q], NEW v \in known'[u.by],
                      v.by = u.by, v.sign = u.sign, v.call <= u.call
               PROVE  v \in known'[q]
    OBVIOUS
  <2>1. u.by \in Replica /\ (u \in known[q] \/ (q = r /\ u \in known[o] /\ u.sign = s))
    BY <1>10
  <2>2. v \in known[u.by]
    <3>1. v \in known[v.by]
      BY <1>10, <2>1
    <3>2. QED
      BY <3>1
  <2>3. CASE u \in known[q]
    <3>1. v \in known[q]
      BY <2>2, <2>3 DEF CounterInv
    <3>2. QED
      BY <1>5, <3>1
  <2>4. CASE q = r /\ u \in known[o] /\ u.sign = s
    <3>1. v \in known[o]
      BY <2>2, <2>4 DEF CounterInv
    <3>2. QED
      BY <1>1, <1>2, <1>4, <2>4, <3>1
  <2>5. QED
    BY <2>1, <2>3, <2>4
<1>13. \A q \in Replica : \A u \in known'[q] :
         u.by = q => u.call < Cardinality({v \in known'[q] : v.by = q})
  <2> SUFFICES ASSUME NEW q \in Replica, NEW u \in known'[q], u.by = q
               PROVE  u.call < Cardinality({v \in known'[q] : v.by = q})
    OBVIOUS
  <2>1. u \in known[q]
    BY <1>10
  <2>2. {v \in known'[q] : v.by = q} = {v \in known[q] : v.by = q}
    BY <1>5, <1>10
  <2>3. u.call < Cardinality({v \in known[q] : v.by = q})
    BY <2>1 DEF CounterInv
  <2>4. QED
    BY <2>2, <2>3
<1>14. QED
  BY <1>4, <1>7, <1>8, <1>9, <1>11, <1>12, <1>13 DEF CounterInv

\* A replica's value is the sum of the calls it has had, when its counts are.
LEMMA CountsAddUp == CounterInv => CountsEachOnce
<1> SUFFICES ASSUME CounterInv, NEW r \in Replica
             PROVE  PNValue(r) = SumFunction([u \in known[r] |-> IF u.sign = "pos" THEN u.n ELSE -u.n])
  BY DEF CountsEachOnce
<1>1. PICK K \in SUBSET Call : K = known[r] /\ IsFiniteSet(K)
  BY DEF CounterInv
<1>2. PICK g : g = [u \in K |-> IF u.sign = "pos" THEN u.n ELSE -u.n]
  OBVIOUS
<1>3. SumFunction([u \in known[r] |-> IF u.sign = "pos" THEN u.n ELSE -u.n]) = SumFunctionOnSet(g, K)
  <2>1. g = [u \in known[r] |-> IF u.sign = "pos" THEN u.n ELSE -u.n] /\ DOMAIN g = K
    BY <1>1, <1>2
  <2>2. SumFunction(g) = SumFunctionOnSet(g, K)
    BY <2>1 DEF SumFunction
  <2>3. QED
    BY <2>1, <2>2
<1>4. ASSUME NEW s \in Sign
      PROVE  GValue(r, s) = SumFunctionOnSet(Amount, {u \in K : u.sign = s})
  <2>1. PICK h : h = counts[r][s]
    OBVIOUS
  <2>2. \A n \in Replica : h[n] = SumFunctionOnSet(Amount, CallsOf(K, s, n))
    BY <1>1, <2>1 DEF CounterInv
  <2>3. SumFunctionOnSet(h, Replica) = SumFunctionOnSet(Amount, {u \in K : u.sign = s})
    BY <1>1, <2>2, SumByCaller
  <2>4. QED
    BY <2>1, <2>3 DEF GValue
<1>5. \A u \in K : g[u] = IF u.sign = "pos" THEN u.n ELSE -u.n
  BY <1>2
<1>6. SumFunctionOnSet(g, K) = SumFunctionOnSet(Amount, {u \in K : u.sign = "pos"})
                                 - SumFunctionOnSet(Amount, {u \in K : u.sign = "neg"})
  BY <1>1, <1>5, SumBySign
<1>7. "pos" \in Sign /\ "neg" \in Sign
  BY DEF Sign
<1>8. QED
  BY <1>3, <1>4, <1>6, <1>7 DEF PNValue

\* The value of a PNCounter counts each call that has reached the replica once, for every
\* number of replicas, of calls and of merges, of which each is two steps (Increment,
\* Decrement, Merge, Value).
LEMMA CounterInvariant == CounterSpec => []CountsEachOnce
<1>1. CounterInit => CounterInv
  <2> SUFFICES ASSUME CounterInit PROVE CounterInv
    OBVIOUS
  <2>1. \A r \in Replica : known[r] = {} /\ IsFiniteSet(known[r])
    BY FS_EmptySet DEF CounterInit
  <2>2. ASSUME NEW r \in Replica, NEW n \in Replica, NEW s \in Sign
        PROVE  counts[r][s][n] = SumFunctionOnSet(Amount, CallsOf(known[r], s, n))
    <3>1. CallsOf(known[r], s, n) = {}
      BY <2>1 DEF CallsOf
    <3>2. SumFunctionOnSet(Amount, {}) = 0
      BY SumUnfolds, FS_EmptySet
    <3>3. counts[r][s][n] = 0
      BY DEF CounterInit
    <3>4. QED
      BY <3>1, <3>2, <3>3
  <2>3. /\ counts \in [Replica -> [Sign -> [Replica -> Nat]]]
        /\ merging \in [Replica -> Replica]
        /\ known \in [Replica -> SUBSET Call]
    BY DEF CounterInit
  <2>4. QED
    BY <2>1, <2>2, <2>3 DEF CounterInv
<1>2. CounterInv /\ [CounterNext]_counterVars => CounterInv'
  <2> SUFFICES ASSUME CounterInv, [CounterNext]_counterVars PROVE CounterInv'
    OBVIOUS
  <2>1. ASSUME NEW r \in Replica, NEW o \in Replica, MergePositive(r, o) PROVE CounterInv'
    <3>1. GMerge(r, o, "pos") /\ merging' \in [Replica -> Replica] /\ "pos" \in Sign
      BY <2>1 DEF MergePositive, CounterInv, Sign
    <3>2. QED
      BY <3>1, GMergeKeeps
  <2>2. ASSUME NEW r \in Replica, MergeNegative(r) PROVE CounterInv'
    <3>1. PICK o \in Replica : o = merging[r]
      BY DEF CounterInv
    <3>2. GMerge(r, o, "neg") /\ merging' \in [Replica -> Replica] /\ "neg" \in Sign
      BY <2>2, <3>1 DEF MergeNegative, CounterInv, Sign
    <3>3. QED
      BY <3>2, GMergeKeeps
  <2>3. CASE UNCHANGED counterVars
    BY <2>3 DEF counterVars, CounterInv
  <2>4. QED
    BY <2>1, <2>2, <2>3, IncrementKeeps DEF CounterNext
<1>3. QED
  BY <1>1, <1>2, CountsAddUp, PTL DEF CounterSpec

\* A replica of a counter, a register or a set is what the updates it knows of make it,
\* whatever merges brought them and in whatever order, for every number of replicas
\* (crdt.go).
THEOREM ReplicasAlwaysAgree == CounterSpec /\ RegisterSpec /\ SetSpec => []ReplicasAgree
<1>1. CountsEachOnce /\ LastWriteWins /\ RemovedUnlessAdded => ReplicasAgree
  BY DEF ReplicasAgree
<1>2. QED
  BY <1>1, CounterInvariant, LastWriterWins, RemovedStaysRemoved, PTL

-----------------------------------------------------------------------------
(* TokenBucket, DistributedRateLimiter *)

\* The lesser of two naturals.
LEMMA MinOfTwo ==
    ASSUME NEW a \in Nat, NEW b \in Nat
    PROVE  Min({a, b}) = IF a <= b THEN a ELSE b
<1> DEFINE m == IF a <= b THEN a ELSE b
<1>1. m \in {a, b} /\ \A y \in {a, b} : m <= y
  OBVIOUS
<1>2. ASSUME NEW x \in {a, b}, \A y \in {a, b} : x <= y
      PROVE  x = m
  BY <1>2
<1>3. QED
  BY <1>1, <1>2 DEF Min

\* A sum over a stretch of time, one tick longer, and with more at its last tick.
LEMMA StretchSums ==
    ASSUME NEW M \in Nat, NEW f \in [0 .. M -> Nat], NEW from \in 0 .. M, NEW to \in from .. M
    PROVE  /\ SumFunctionOnSet(f, from .. to) \in Nat
           /\ to + 1 <= M => SumFunctionOnSet(f, from .. to + 1)
                               = SumFunctionOnSet(f, from .. to) + f[to + 1]
           /\ SumFunctionOnSet(f, to .. to) = f[to]
<1>1. PICK U : U = 0 .. M
  OBVIOUS
<1>2. IsFiniteSet(U)
  <2>1. 0 \in Int /\ M \in Int
    OBVIOUS
  <2>2. QED
    BY <1>1, <2>1, FS_Interval
<1>3. (\A t \in U : f[t] \in Nat) /\ (\A t \in U : f[t] \in Int)
  BY <1>1
<1>4. PICK S \in SUBSET U : S = from .. to
  BY <1>1
<1>5. SumFunctionOnSet(f, S) \in Nat
  BY <1>2, <1>3, SumGrows
<1>6. ASSUME to + 1 <= M
      PROVE  SumFunctionOnSet(f, from .. to + 1) = SumFunctionOnSet(f, S) + f[to + 1]
  <2>1. PICK x \in U \ S : x = to + 1
    BY <1>1, <1>4, <1>6
  <2>2. SumFunctionOnSet(f, S \cup {x}) = f[x] + SumFunctionOnSet(f, S)
    BY <1>2, <1>3, SumAdds
  <2>3. from .. to + 1 = S \cup {x}
    BY <1>4, <2>1
  <2>4. f[x] \in Nat
    BY <1>3
  <2>5. SumFunctionOnSet(f, S \cup {x}) = SumFunctionOnSet(f, S) + f[x]
    BY <1>5, <2>2, <2>4
  <2>6. QED
    BY <2>1, <2>3, <2>5
<1>7. SumFunctionOnSet(f, to .. to) = f[to]
  <2>1. PICK x \in U \ {} : x = to
    BY <1>1
  <2>2. SumFunctionOnSet(f, {} \cup {x}) = f[x] + SumFunctionOnSet(f, {})
        /\ SumFunctionOnSet(f, {}) = 0
    BY <1>2, <1>3, SumAdds
  <2>3. to .. to = {} \cup {x} /\ f[x] \in Nat
    BY <1>3, <2>1
  <2>4. SumFunctionOnSet(f, {} \cup {x}) = f[x]
    BY <2>2, <2>3
  <2>5. QED
    BY <2>1, <2>3, <2>4
<1>8. QED
  BY <1>4, <1>5, <1>6, <1>7

\* g is f raised by k at c.
IsRaised(U, f, c, k, g) ==
    /\ IsFiniteSet(U) /\ f \in [U -> Nat] /\ g \in [U -> Nat] /\ c \in U /\ k \in Nat
    /\ g[c] = f[c] + k /\ \A t \in U : t # c => g[t] = f[t]

\* The sum of a function, over a set of ticks, after it was raised.
LEMMA RaisedSums ==
    ASSUME NEW U, NEW f, NEW c, NEW k, NEW g, IsRaised(U, f, c, k, g), NEW S \in SUBSET U
    PROVE  /\ SumFunctionOnSet(f, S) \in Nat
           /\ c \in S => SumFunctionOnSet(g, S) = SumFunctionOnSet(f, S) + k
           /\ c \notin S => SumFunctionOnSet(g, S) = SumFunctionOnSet(f, S)
<1>0. IsFiniteSet(U) /\ f \in [U -> Nat] /\ g \in [U -> Nat] /\ c \in U /\ k \in Nat
      /\ g[c] = f[c] + k /\ \A t \in U : t # c => g[t] = f[t]
  BY DEF IsRaised
<1>1. (\A t \in U : f[t] \in Nat) /\ (\A t \in U : f[t] \in Int)
  BY <1>0
<1>2. g \in [U -> Nat] /\ g[c] = f[c] + k /\ \A t \in U : t # c => g[t] = f[t]
  BY <1>0
<1>3. IsFiniteSet(S) /\ SumFunctionOnSet(f, S) \in Nat
  BY <1>0, <1>1, FS_Subset, SumGrows
<1>4. CASE c \notin S
  <2>1. \A t \in S : f[t] \in Int /\ g[t] = f[t]
    BY <1>1, <1>2, <1>4
  <2>2. SumFunctionOnSet(g, S) = SumFunctionOnSet(f, S)
    BY <1>3, <2>1, SumsAgree
  <2>3. QED
    BY <1>0, <1>2, <1>3, <1>4, <2>2
<1>5. CASE c \in S
  <2>1. PICK R : R = S \ {c}
    OBVIOUS
  <2>2. IsFiniteSet(R) /\ (\A t \in R : f[t] \in Int /\ g[t] = f[t])
    BY <1>1, <1>2, <1>3, <2>1, FS_RemoveElement
  <2>3. SumFunctionOnSet(g, R) = SumFunctionOnSet(f, R)
    BY <2>2, SumsAgree
  <2>4. SumFunctionOnSet(f, S) = f[c] + SumFunctionOnSet(f, R)
    BY <1>0, <1>1, <1>5, <2>1, SumTakesOut
  <2>5. \A t \in U : g[t] \in Int
    BY <1>2
  <2>6. SumFunctionOnSet(g, S) = g[c] + SumFunctionOnSet(g, R)
    <3>1. PICK h : h = g
      OBVIOUS
    <3>2. \A t \in U : h[t] \in Int
      BY <2>5, <3>1
    <3>3. SumFunctionOnSet(h, S) = h[c] + SumFunctionOnSet(h, S \ {c})
      BY ONLY <1>0, <3>2, <1>5, S \in SUBSET U, SumTakesOut
    <3>4. QED
      BY <2>1, <3>1, <3>3
  <2>7. SumFunctionOnSet(f, R) \in Int /\ f[c] \in Int
    <3>1. R \in SUBSET U
      BY <2>1
    <3>2. QED
      BY <1>0, <1>1, <3>1, SumTakesOut
  <2>8. SumFunctionOnSet(g, S) = SumFunctionOnSet(f, S) + k
    BY <1>0, <1>2, <2>3, <2>4, <2>6, <2>7
  <2>9. QED
    BY <1>2, <1>3, <1>5, <2>8
<1>6. QED
  BY <1>4, <1>5

\* What a bucket has given out since any tick, and what it could give out now, is no more
\* than it may give out until now.
BucketInv ==
    /\ clock \in 0 .. MaxTime
    /\ tokens \in [Limiter -> 0 .. Capacity]
    /\ lastTime \in [Limiter -> 0 .. clock]
    /\ admitted \in [Limiter -> [0 .. MaxTime -> Nat]]
    /\ \A n \in Limiter : \A t \in 0 .. MaxTime : t > clock => admitted[n][t] = 0
    /\ \A n \in Limiter : \A from \in 0 .. clock : \A to \in from .. clock :
         Given(n, from, to) <= Capacity + Rate * (to - from)
    /\ \A n \in Limiter : \A from \in 0 .. clock :
         Given(n, from, clock) + Refilled(n) <= Capacity + Rate * (clock - from)

\* A bucket holds at most its capacity after a refill.
LEMMA RefilledIs ==
    ASSUME BucketInv, NEW n \in Limiter
    PROVE  /\ Refilled(n) \in 0 .. Capacity
           /\ \E x \in Nat : /\ x = tokens[n] + (clock - lastTime[n]) * Rate
                             /\ Refilled(n) = IF Capacity <= x THEN Capacity ELSE x
<1>1. tokens[n] \in Nat /\ clock - lastTime[n] \in Nat /\ Rate \in Nat /\ Capacity \in Nat
  BY BucketAssumption DEF BucketInv
<1>2. PICK x \in Nat : x = tokens[n] + (clock - lastTime[n]) * Rate
  BY <1>1
<1>3. Refilled(n) = IF Capacity <= x THEN Capacity ELSE x
  BY <1>1, <1>2, MinOfTwo DEF Refilled
<1>4. QED
  BY <1>1, <1>2, <1>3

\* A call that refills n's bucket and takes something out of it.
LEMMA TakingKeeps ==
    ASSUME BucketInv, NEW n \in Limiter, NEW taken \in 0 .. Refilled(n),
           tokens' = [tokens EXCEPT ![n] = Refilled(n) - taken],
           lastTime' = [lastTime EXCEPT ![n] = clock],
           admitted' = [admitted EXCEPT ![n][clock] = @ + taken],
           UNCHANGED clock
    PROVE  BucketInv'
<1>1. PICK c \in 0 .. MaxTime : c = clock /\ c = clock'
  BY DEF BucketInv
<1>2. PICK full \in 0 .. Capacity : full = Refilled(n)
  BY RefilledIs
<1>3. taken \in Nat /\ taken <= full /\ full - taken \in 0 .. Capacity /\ full \in Nat
      /\ Capacity \in Nat /\ Rate \in Nat /\ MaxTime \in Nat
  BY <1>2, BucketAssumption
<1>4. tokens' \in [Limiter -> 0 .. Capacity] /\ tokens'[n] = full - taken
      /\ \A p \in Limiter : p # n => tokens'[p] = tokens[p]
  BY <1>2, <1>3 DEF BucketInv
<1>5. lastTime' \in [Limiter -> 0 .. c] /\ lastTime'[n] = c
      /\ \A p \in Limiter : p # n => lastTime'[p] = lastTime[p]
  BY <1>1 DEF BucketInv
<1>6. PICK U : U = 0 .. MaxTime
  OBVIOUS
<1>7. IsFiniteSet(U)
  <2>1. 0 \in Int /\ MaxTime \in Int
    BY <1>3
  <2>2. QED
    BY <1>6, <2>1, FS_Interval
<1>8. PICK f \in [U -> Nat] : f = admitted[n]
  BY <1>6 DEF BucketInv
<1>9. PICK g : g = [f EXCEPT ![c] = @ + taken]
  OBVIOUS
<1>10. g \in [U -> Nat] /\ \A S \in SUBSET U :
         /\ SumFunctionOnSet(f, S) \in Nat
         /\ c \in S => SumFunctionOnSet(g, S) = SumFunctionOnSet(f, S) + taken
         /\ c \notin S => SumFunctionOnSet(g, S) = SumFunctionOnSet(f, S)
  <2>1. c \in U /\ taken \in Nat /\ IsFiniteSet(U)
    BY <1>3, <1>6, <1>7
  <2>2. g \in [U -> Nat] /\ g[c] = f[c] + taken /\ \A t \in U : t # c => g[t] = f[t]
    BY <1>9, <2>1
  <2>3. ASSUME NEW S \in SUBSET U
        PROVE  /\ SumFunctionOnSet(f, S) \in Nat
               /\ c \in S => SumFunctionOnSet(g, S) = SumFunctionOnSet(f, S) + taken
               /\ c \notin S => SumFunctionOnSet(g, S) = SumFunctionOnSet(f, S)
    <3>1. IsRaised(U, f, c, taken, g)
      BY <2>1, <2>2 DEF IsRaised
    <3>2. QED
      BY <3>1, RaisedSums
  <2>4. QED
    BY <2>2, <2>3
<1>11. admitted' = [admitted EXCEPT ![n] = g]
  BY <1>1, <1>6, <1>8, <1>9 DEF BucketInv
<1>12. admitted' \in [Limiter -> [0 .. MaxTime -> Nat]] /\ admitted'[n] = g
       /\ \A p \in Limiter : p # n => admitted'[p] = admitted[p]
  BY <1>6, <1>10, <1>11 DEF BucketInv
<1>13. \A p \in Limiter : \A t \in 0 .. MaxTime : t > c => admitted'[p][t] = 0
  <2> SUFFICES ASSUME NEW p \in Limiter, NEW t \in 0 .. MaxTime, t > c PROVE admitted'[p][t] = 0
    OBVIOUS
  <2>1. admitted[p][t] = 0
    BY <1>1 DEF BucketInv
  <2>2. CASE p = n
    BY <1>1, <1>6, <1>8, <1>9, <1>12, <2>1, <2>2
  <2>3. CASE p # n
    BY <1>12, <2>1, <2>3
  <2>4. QED
    BY <2>2, <2>3
<1>14. ASSUME NEW from \in 0 .. c, NEW to \in from .. c
       PROVE  /\ Given(n, from, to) \in Nat
              /\ Given(n, from, to)' = Given(n, from, to) + (IF to = c THEN taken ELSE 0)
              /\ \A p \in Limiter : p # n => Given(p, from, to)' = Given(p, from, to)
  <2>1. PICK S \in SUBSET U : S = from .. to
    <3>1. from \in Nat /\ to \in Nat /\ from <= to /\ to <= c /\ c <= MaxTime
      BY <1>3
    <3>2. \A t \in from .. to : t \in 0 .. MaxTime
      BY <1>3, <3>1
    <3>3. QED
      BY <1>6, <3>2
  <2>2. c \in S <=> to = c
    BY <1>1, <2>1
  <2>3. SumFunctionOnSet(f, S) \in Nat /\ SumFunctionOnSet(g, S) = SumFunctionOnSet(f, S)
                                                 + (IF to = c THEN taken ELSE 0)
    BY <1>3, <1>10, <2>2
  <2>4. Given(n, from, to) = SumFunctionOnSet(f, S)
    BY <1>8, <2>1 DEF Given
  <2>5. Given(n, from, to)' = SumFunctionOnSet(g, S)
    BY <1>12, <2>1 DEF Given
  <2>6. \A p \in Limiter : p # n => Given(p, from, to)' = Given(p, from, to)
    BY <1>12 DEF Given
  <2>7. QED
    BY <2>3, <2>4, <2>5, <2>6
<1>15. Refilled(n)' = full - taken
  <2>1. PICK x \in Nat : x = full - taken
    BY <1>3
  <2>2. (c - c) * Rate = 0
    BY <1>1, <1>3
  <2>3. Refilled(n)' = Min({Capacity, x})
    <3>1. x + (c - c) * Rate = x
      BY <2>2
    <3>2. Refilled(n)' = Min({Capacity, x + (c - c) * Rate})
      BY <1>1, <1>4, <1>5, <2>1 DEF Refilled
    <3>3. QED
      BY <3>1, <3>2
  <2>4. Min({Capacity, x}) = IF Capacity <= x THEN Capacity ELSE x
    BY <1>3, MinOfTwo
  <2>5. x <= Capacity
    BY <1>2, <1>3, <2>1
  <2>6. QED
    BY <1>3, <2>1, <2>3, <2>4, <2>5
<1>16. \A p \in Limiter : p # n => Refilled(p)' = Refilled(p)
  BY <1>1, <1>4, <1>5 DEF Refilled
<1>17. ASSUME NEW p \in Limiter, NEW from \in 0 .. c
       PROVE  Given(p, from, c)' + Refilled(p)' <= Capacity + Rate * (c - from)
  <2>1. Given(p, from, c) + Refilled(p) <= Capacity + Rate * (c - from)
    BY <1>1 DEF BucketInv
  <2>2. c \in from .. c
    BY <1>1
  <2>3. CASE p = n
    <3>1. Given(n, from, c)' = Given(n, from, c) + taken /\ Given(n, from, c) \in Nat
      BY <1>14, <2>2
    <3>2. Given(n, from, c)' + Refilled(n)' = Given(n, from, c) + Refilled(n)
      BY <1>2, <1>3, <1>15, <3>1
    <3>3. QED
      BY <2>1, <2>3, <3>2
  <2>4. CASE p # n
    <3>1. Given(p, from, c)' = Given(p, from, c) /\ Refilled(p)' = Refilled(p)
      BY <1>14, <1>16, <2>2, <2>4
    <3>2. QED
      BY <2>1, <3>1
  <2>5. QED
    BY <2>3, <2>4
<1>18. ASSUME NEW p \in Limiter, NEW from \in 0 .. c, NEW to \in from .. c
       PROVE  Given(p, from, to)' <= Capacity + Rate * (to - from)
  <2>1. Given(p, from, to) <= Capacity + Rate * (to - from)
    BY <1>1 DEF BucketInv
  <2>2. CASE p # n
    BY <1>14, <2>1, <2>2
  <2>3. CASE p = n /\ to # c
    BY <1>14, <2>1, <2>3
  <2>4. CASE p = n /\ to = c
    <3>1. Given(n, from, c)' + Refilled(n)' <= Capacity + Rate * (c - from)
      BY <1>17
    <3>2. Given(n, from, c)' \in Nat /\ Refilled(n)' \in Nat
      BY <1>2, <1>3, <1>14, <1>15, <2>4
    <3>3. Capacity + Rate * (c - from) \in Int
      BY <1>1, <1>3
    <3>4. Given(n, from, c)' <= Capacity + Rate * (c - from)
      BY <3>1, <3>2, <3>3
    <3>5. QED
      BY <2>4, <3>4
  <2>5. QED
    BY <2>2, <2>3, <2>4
<1>19. \A p \in Limiter : \A from \in 0 .. c :
         Given(p, from, c)' + Refilled(p)' <= Capacity + Rate * (c - from)
  BY <1>17
<1>20. \A p \in Limiter : \A from \in 0 .. c : \A to \in from .. c :
         Given(p, from, to)' <= Capacity + Rate * (to - from)
  BY <1>18
<1>21. clock' = c
  BY <1>1
<1>22. QED
  BY <1>4, <1>5, <1>12, <1>13, <1>19, <1>20, <1>21, SMTT(30) DEF BucketInv

\* Time fills the buckets, and gives out nothing.
LEMMA TimeKeeps ==
    ASSUME BucketInv, TimePasses
    PROVE  BucketInv'
<1>1. PICK c \in 0 .. MaxTime : c = clock
  BY DEF BucketInv
<1>2. c + 1 \in 0 .. MaxTime /\ clock' = c + 1 /\ UNCHANGED <<tokens, lastTime, admitted>>
      /\ Capacity \in Nat /\ Rate \in Nat /\ MaxTime \in Nat
  BY <1>1, BucketAssumption DEF TimePasses
<1>3. lastTime' \in [Limiter -> 0 .. c + 1]
  BY <1>1, <1>2 DEF BucketInv
<1>4. ASSUME NEW n \in Limiter
      PROVE  Refilled(n) \in Nat /\ Refilled(n)' \in Nat /\ Refilled(n)' <= Refilled(n) + Rate
             /\ Refilled(n)' <= Capacity
  <2>1. PICK x \in Nat : /\ x = tokens[n] + (clock - lastTime[n]) * Rate
                         /\ Refilled(n) = IF Capacity <= x THEN Capacity ELSE x
    BY RefilledIs
  <2>2. PICK d \in Nat : d = c - lastTime[n]
    BY <1>1 DEF BucketInv
  <2>3. PICK k \in Nat : k = tokens[n]
    BY DEF BucketInv
  <2>4. x = k + d * Rate
    BY <1>1, <2>1, <2>2, <2>3
  <2>5. (c + 1) - lastTime[n] = d + 1
    <3>1. lastTime[n] \in Nat
      BY <1>1 DEF BucketInv
    <3>2. QED
      BY <1>1, <2>2, <3>1
  <2>6. Refilled(n)' = Min({Capacity, k + (d + 1) * Rate})
    BY <1>2, <2>3, <2>5 DEF Refilled
  <2>7. k + (d + 1) * Rate = x + Rate /\ x + Rate \in Nat
    BY <1>2, <2>4
  <2>8. Min({Capacity, x + Rate}) = IF Capacity <= x + Rate THEN Capacity ELSE x + Rate
    BY <1>2, <2>7, MinOfTwo
  <2>9. PICK y \in Nat : y = x + Rate
    BY <2>7
  <2>10. Refilled(n)' = IF Capacity <= y THEN Capacity ELSE y
    BY <2>6, <2>7, <2>8, <2>9
  <2>11. PICK r \in Nat, q \in Nat : r = Refilled(n) /\ q = Refilled(n)'
    BY <1>2, <2>1, <2>10
  <2>12. q <= r + Rate /\ q <= Capacity
    BY <1>2, <2>1, <2>9, <2>10, <2>11
  <2>13. QED
    BY <2>11, <2>12
<1>5. ASSUME NEW n \in Limiter, NEW from \in 0 .. c + 1
      PROVE  /\ Given(n, from, c + 1) \in Nat
             /\ from <= c => Given(n, from, c + 1) = Given(n, from, c)
             /\ from = c + 1 => Given(n, from, c + 1) = 0
  <2>1. PICK f \in [0 .. MaxTime -> Nat] : f = admitted[n] /\ f[c + 1] = 0
    BY <1>1, <1>2 DEF BucketInv
  <2>2. CASE from <= c
    <3>1. from \in 0 .. MaxTime /\ c \in from .. MaxTime /\ c + 1 <= MaxTime
      BY <1>1, <1>2, <2>2
    <3>2. SumFunctionOnSet(f, from .. c + 1) = SumFunctionOnSet(f, from .. c) + f[c + 1]
          /\ SumFunctionOnSet(f, from .. c) \in Nat
      BY <1>2, <3>1, StretchSums
    <3>3. SumFunctionOnSet(f, from .. c + 1) = SumFunctionOnSet(f, from .. c)
      BY <2>1, <3>2
    <3>4. QED
      BY <1>1, <2>1, <2>2, <3>2, <3>3 DEF Given
  <2>3. CASE from = c + 1
    <3>1. c + 1 \in (c + 1) .. MaxTime
      BY <1>2
    <3>2. SumFunctionOnSet(f, (c + 1) .. (c + 1)) = f[c + 1]
      BY <1>2, <3>1, StretchSums
    <3>3. QED
      BY <1>1, <2>1, <2>3, <3>2 DEF Given
  <2>4. QED
    BY <1>1, <2>2, <2>3
<1>6. ASSUME NEW n \in Limiter, NEW from \in 0 .. c + 1
      PROVE  Given(n, from, c + 1) + Refilled(n)' <= Capacity + Rate * ((c + 1) - from)
  <2>1. CASE from <= c
    <3>1. from \in 0 .. c /\ Given(n, from, c) + Refilled(n) <= Capacity + Rate * (c - from)
      BY <1>1, <2>1 DEF BucketInv
    <3>2. Given(n, from, c) \in Nat /\ Given(n, from, c + 1) = Given(n, from, c)
      BY <1>5, <2>1
    <3>3. PICK e \in Nat : e = c - from
      BY <3>1
    <3>4. (c + 1) - from = e + 1 /\ Rate * (e + 1) = Rate * e + Rate /\ Rate * e \in Nat
      BY <1>1, <1>2, <3>1, <3>3
    <3>5. Given(n, from, c + 1) + Refilled(n)' <= Capacity + Rate * (e + 1)
      BY <1>2, <1>4, <3>1, <3>2, <3>3, <3>4
    <3>6. QED
      BY <3>4, <3>5
  <2>2. CASE from = c + 1
    <3>1. Rate * ((c + 1) - from) = 0
      BY <1>1, <1>2, <2>2
    <3>2. Given(n, from, c + 1) = 0
      BY <1>5, <2>2
    <3>3. QED
      BY <1>2, <1>4, <3>1, <3>2
  <2>3. QED
    BY <1>1, <2>1, <2>2
<1>7. ASSUME NEW n \in Limiter, NEW from \in 0 .. c + 1, NEW to \in from .. c + 1
      PROVE  Given(n, from, to) <= Capacity + Rate * (to - from)
  <2>1. CASE to = c + 1
    <3>1. Given(n, from, c + 1) \in Nat /\ Refilled(n)' \in Nat
          /\ Given(n, from, c + 1) + Refilled(n)' <= Capacity + Rate * ((c + 1) - from)
      BY <1>4, <1>5, <1>6
    <3>2. Capacity + Rate * ((c + 1) - from) \in Int
      BY <1>1, <1>2
    <3>3. Given(n, from, c + 1) <= Capacity + Rate * ((c + 1) - from)
      BY <3>1, <3>2
    <3>4. QED
      BY <2>1, <3>3
  <2>2. CASE to # c + 1
    <3>1. from \in 0 .. c /\ to \in from .. c
      BY <1>1, <2>2
    <3>2. QED
      BY <1>1, <3>1 DEF BucketInv
  <2>3. QED
    BY <2>1, <2>2
<1>8. \A n \in Limiter, from, to \in Nat : Given(n, from, to)' = Given(n, from, to)
  BY <1>2 DEF Given
<1>9. \A n \in Limiter : \A t \in 0 .. MaxTime : t > c + 1 => admitted'[n][t] = 0
  BY <1>1, <1>2 DEF BucketInv
<1>10. \A n \in Limiter : \A from \in 0 .. c + 1 : \A to \in from .. c + 1 :
         Given(n, from, to)' <= Capacity + Rate * (to - from)
  <2> SUFFICES ASSUME NEW n \in Limiter, NEW from \in 0 .. c + 1, NEW to \in from .. c + 1
               PROVE  Given(n, from, to)' <= Capacity + Rate * (to - from)
    OBVIOUS
  <2>1. from \in Nat /\ to \in Nat
    OBVIOUS
  <2>2. QED
    BY <1>7, <1>8, <2>1
<1>11. \A n \in Limiter : \A from \in 0 .. c + 1 :
         Given(n, from, c + 1)' + Refilled(n)' <= Capacity + Rate * ((c + 1) - from)
  <2> SUFFICES ASSUME NEW n \in Limiter, NEW from \in 0 .. c + 1
               PROVE  Given(n, from, c + 1)' + Refilled(n)' <= Capacity + Rate * ((c + 1) - from)
    OBVIOUS
  <2>1. from \in Nat /\ c + 1 \in Nat
    OBVIOUS
  <2>2. QED
    BY <1>6, <1>8, <2>1
<1>12. QED
  BY <1>2, <1>3, <1>9, <1>10, <1>11 DEF BucketInv

\* BucketInv holds at first.
LEMMA BucketStarts ==
    ASSUME BucketInit
    PROVE  BucketInv
<1>1. clock = 0 /\ Capacity \in Nat /\ Rate \in Nat /\ MaxTime \in Nat
  BY BucketAssumption DEF BucketInit
<1>2. /\ clock \in 0 .. MaxTime
      /\ tokens \in [Limiter -> 0 .. Capacity]
      /\ lastTime \in [Limiter -> 0 .. clock]
      /\ admitted \in [Limiter -> [0 .. MaxTime -> Nat]]
      /\ \A n \in Limiter : \A t \in 0 .. MaxTime : admitted[n][t] = 0
  BY <1>1 DEF BucketInit
<1>3. ASSUME NEW n \in Limiter
      PROVE  Given(n, 0, 0) = 0 /\ Refilled(n) = Capacity
  <2>1. PICK f \in [0 .. MaxTime -> Nat] : f = admitted[n] /\ f[0] = 0
    BY <1>1, <1>2
  <2>2. 0 \in 0 .. MaxTime
    BY <1>1
  <2>3. SumFunctionOnSet(f, 0 .. 0) = f[0]
    BY <1>1, <2>2, StretchSums
  <2>4. (0 - 0) * Rate = 0 /\ Capacity + 0 = Capacity
    BY <1>1
  <2>5. Refilled(n) = Min({Capacity, Capacity})
    <3>1. Refilled(n) = Min({Capacity, Capacity + (0 - 0) * Rate})
      BY <1>1 DEF BucketInit, Refilled
    <3>2. QED
      BY <2>4, <3>1
  <2>6. Min({Capacity, Capacity}) = Capacity
    BY <1>1, MinOfTwo
  <2>7. QED
    BY <2>1, <2>3, <2>5, <2>6 DEF Given
<1>4. Rate * (0 - 0) = 0
  BY <1>1
<1>5. ASSUME NEW n \in Limiter, NEW from \in 0 .. 0, NEW to \in from .. 0
      PROVE  Given(n, from, to) <= Capacity + Rate * (to - from)
  <2>1. from = 0 /\ to = 0
    OBVIOUS
  <2>2. Given(n, 0, 0) <= Capacity + Rate * (0 - 0)
    BY <1>1, <1>3, <1>4
  <2>3. QED
    BY <2>1, <2>2
<1>6. ASSUME NEW n \in Limiter, NEW from \in 0 .. 0
      PROVE  Given(n, from, 0) + Refilled(n) <= Capacity + Rate * (0 - from)
  <2>1. from = 0
    OBVIOUS
  <2>2. Given(n, 0, 0) + Refilled(n) <= Capacity + Rate * (0 - 0)
    BY <1>1, <1>3, <1>4
  <2>3. QED
    BY <2>1, <2>2
<1>7. /\ \A n \in Limiter : \A from \in 0 .. 0 : \A to \in from .. 0 :
           Given(n, from, to) <= Capacity + Rate * (to - from)
      /\ \A n \in Limiter : \A from \in 0 .. 0 :
           Given(n, from, 0) + Refilled(n) <= Capacity + Rate * (0 - from)
  BY <1>5, <1>6
<1>8. QED
  BY <1>1, <1>2, <1>7 DEF BucketInv

\* Calls, the passing of time and gossip keep BucketInv.
LEMMA BucketKeeps ==
    ASSUME BucketInv, [BucketNext]_bucketVars
    PROVE  BucketInv'
<1>1. CASE TimePasses
  BY <1>1, TimeKeeps
<1>2. ASSUME NEW n \in Limiter, AllowCost(n, 1)
      PROVE  BucketInv'
  <2>1. PICK r \in Nat : r = Refilled(n)
    BY RefilledIs, BucketAssumption
  <2>2. PICK taken \in 0 .. r : taken = IF r >= 1 THEN 1 ELSE 0
    BY <2>1
  <2>3. /\ tokens' = [tokens EXCEPT ![n] = Refilled(n) - taken]
        /\ lastTime' = [lastTime EXCEPT ![n] = clock]
        /\ admitted' = [admitted EXCEPT ![n][clock] = @ + taken]
        /\ UNCHANGED clock
    BY <1>2, <2>1, <2>2 DEF AllowCost
  <2>4. taken \in 0 .. Refilled(n)
    BY <2>1, <2>2
  <2>5. QED
    BY <2>3, <2>4, TakingKeeps
<1>3. ASSUME NEW n \in Limiter, NEW k \in 1 .. 2, AllowN(n, k)
      PROVE  BucketInv'
  <2>1. PICK r \in Nat : r = Refilled(n)
    BY RefilledIs, BucketAssumption
  <2>2. k \in Nat /\ Min({k, r}) = IF k <= r THEN k ELSE r
    BY <2>1, MinOfTwo
  <2>3. PICK taken \in 0 .. r : taken = Min({k, r})
    BY <2>1, <2>2
  <2>4. /\ tokens' = [tokens EXCEPT ![n] = Refilled(n) - taken]
        /\ lastTime' = [lastTime EXCEPT ![n] = clock]
        /\ admitted' = [admitted EXCEPT ![n][clock] = @ + taken]
        /\ UNCHANGED clock
    BY <1>3, <2>1, <2>3 DEF AllowN
  <2>5. taken \in 0 .. Refilled(n)
    BY <2>1, <2>3
  <2>6. QED
    BY <2>4, <2>5, TakingKeeps
<1>4. ASSUME UNCHANGED <<clock, tokens, lastTime, admitted>>
      PROVE  BucketInv'
  BY <1>4 DEF BucketInv, Given, Refilled
<1>5. ASSUME NEW n \in Limiter, NEW p \in Limiter, UpdatePeerRate(n, p)
      PROVE  BucketInv'
  BY <1>4, <1>5 DEF UpdatePeerRate
<1>6. CASE UNCHANGED bucketVars
  BY <1>4, <1>6 DEF bucketVars
<1>7. QED
  BY <1>1, <1>2, <1>3, <1>5, <1>6 DEF BucketNext

\* The buckets of all nodes together: the sum of what each may give out.
LEMMA BucketsBounded ==
    ASSUME BucketInv
    PROVE  WindowIsBounded
<1> SUFFICES ASSUME NEW from \in 0 .. clock, NEW to \in from .. clock
             PROVE  SumFunction([n \in Limiter |-> Given(n, from, to)])
                      <= Cardinality(Limiter) * (Capacity + Rate * (to - from))
  BY DEF WindowIsBounded
<1>1. PICK g : g = [n \in Limiter |-> Given(n, from, to)]
  OBVIOUS
<1>2. PICK b \in Int : b = Capacity + Rate * (to - from)
  BY BucketAssumption DEF BucketInv
<1>3. ASSUME NEW n \in Limiter
      PROVE  g[n] \in Int /\ g[n] <= b
  <2>1. PICK f \in [0 .. MaxTime -> Nat] : f = admitted[n]
    BY DEF BucketInv
  <2>2. from \in 0 .. MaxTime /\ to \in from .. MaxTime /\ MaxTime \in Nat
    BY BucketAssumption DEF BucketInv
  <2>3. SumFunctionOnSet(f, from .. to) \in Nat
    BY <2>2, StretchSums
  <2>4. g[n] = SumFunctionOnSet(f, from .. to) /\ g[n] = Given(n, from, to)
    BY <1>1, <2>1 DEF Given
  <2>5. Given(n, from, to) <= b
    BY <1>2 DEF BucketInv
  <2>6. QED
    BY <2>3, <2>4, <2>5
<1>4. SumFunctionOnSet(g, Limiter) <= Cardinality(Limiter) * b
  BY <1>3, BucketAssumption, SumBounded
<1>5. SumFunction(g) = SumFunctionOnSet(g, Limiter)
  <2>1. DOMAIN g = Limiter
    BY <1>1
  <2>2. QED
    BY <2>1 DEF SumFunction, SumFunctionOnSet, FoldFunction
<1>6. QED
  BY <1>1, <1>2, <1>4, <1>5

-----------------------------------------------------------------------------
(* SlidingWindowCounter *)

\* Multiplication by a natural is monotone.
LEMMA TimesMonotone ==
    ASSUME NEW a \in Nat, NEW b \in Nat, NEW w \in Nat, a <= b
    PROVE  a * w \in Nat /\ b * w \in Nat /\ a * w <= b * w /\ (a + 1) * w = a * w + w
<1>1. PICK d \in Nat : b = a + d
  <2>1. b - a \in Nat /\ b = a + (b - a)
    OBVIOUS
  <2>2. QED
    BY <2>1
<1>2. b * w = a * w + d * w /\ a * w \in Nat /\ d * w \in Nat
  BY <1>1
<1>3. (a + 1) * w = a * w + w
  OBVIOUS
<1>4. QED
  BY <1>2, <1>3

\* Where a tick lies among the windows.
LEMMA DivIs ==
    ASSUME NEW a \in Nat, NEW w \in Nat \ {0}
    PROVE  a \div w \in Nat /\ (a \div w) * w <= a /\ a < (a \div w) * w + w
OBVIOUS

\* The estimate is no less than the current count.
LEMMA EstimateCovers ==
    ASSUME NEW p \in Nat, NEW c \in Nat, NEW r \in Nat, NEW w \in Nat \ {0}
    PROVE  (p * r + c * w) \div w \in Nat /\ c <= (p * r + c * w) \div w
<1>1. PICK x \in Nat : x = p * r + c * w
  OBVIOUS
<1>2. PICK q \in Nat : q = x \div w /\ x < q * w + w
  BY DivIs
<1>3. p * r \in Nat /\ c * w \in Nat
  OBVIOUS
<1>4. c * w <= x
  BY <1>1, <1>3
<1>5. ASSUME q + 1 <= c PROVE FALSE
  <2>1. w \in Nat /\ q + 1 \in Nat
    OBVIOUS
  <2>2. (q + 1) * w <= c * w /\ (q + 1) * w \in Nat
    BY <1>5, <2>1, TimesMonotone
  <2>3. (q + 1) * w = q * w + w
    OBVIOUS
  <2>4. QED
    BY <1>2, <1>3, <1>4, <2>2, <2>3
<1>6. c <= q
  BY <1>5
<1>7. QED
  BY <1>1, <1>2, <1>6

\* The ticks of the k-th window.
Ticks(k) == {t \in 0 .. MaxTicks : k * Window <= t /\ t < (k + 1) * Window}

\* The current count is what its window let through, and no window lets more than the
\* limit through.
WindowInv ==
    /\ now \in 0 .. MaxTicks
    /\ currCount \in Nat /\ prevCount \in Nat
    /\ passed \in [0 .. MaxTicks -> Nat]
    /\ \E k \in Nat : /\ windowStart = k * Window /\ windowStart <= now
                      /\ currCount = SumFunctionOnSet(passed, Ticks(k))
                      /\ \A t \in 0 .. MaxTicks : t >= (k + 1) * Window => passed[t] = 0
    /\ \A k \in Nat : SumFunctionOnSet(passed, Ticks(k)) <= Limit

\* No tick lies in two windows.
LEMMA TicksApart ==
    ASSUME NEW j \in Nat, NEW k \in Nat, j # k
    PROVE  Ticks(j) \cap Ticks(k) = {}
<1> SUFFICES ASSUME NEW t \in Nat, j * Window <= t, t < (j + 1) * Window,
                    k * Window <= t, t < (k + 1) * Window
             PROVE  FALSE
  BY WindowAssumption DEF Ticks
<1>1. Window \in Nat /\ j + 1 \in Nat /\ k + 1 \in Nat
  BY WindowAssumption
<1>2. CASE j < k
  <2>1. j + 1 <= k
    BY <1>2
  <2>2. (j + 1) * Window <= k * Window /\ (j + 1) * Window \in Nat /\ k * Window \in Nat
    BY <1>1, <2>1, TimesMonotone
  <2>3. QED
    BY <2>2
<1>3. CASE k < j
  <2>1. k + 1 <= j
    BY <1>3
  <2>2. (k + 1) * Window <= j * Window /\ (k + 1) * Window \in Nat /\ j * Window \in Nat
    BY <1>1, <2>1, TimesMonotone
  <2>3. QED
    BY <2>2
<1>4. QED
  BY <1>2, <1>3

\* The ticks of a window are among the ticks counted.
LEMMA TicksFinite ==
    IsFiniteSet(0 .. MaxTicks) /\ \A k \in Nat : Ticks(k) \in SUBSET (0 .. MaxTicks)
<1>1. 0 \in Int /\ MaxTicks \in Int
  BY WindowAssumption
<1>2. IsFiniteSet(0 .. MaxTicks)
  BY <1>1, FS_Interval
<1>3. QED
  BY <1>2 DEF Ticks

\* Nothing adds up to nothing.
LEMMA ZeroSums ==
    ASSUME NEW S, IsFiniteSet(S), NEW f, \A x \in S : f[x] = 0
    PROVE  SumFunctionOnSet(f, S) = 0
<1>1. (\A x \in S : f[x] \in Nat) /\ (\A x \in S : f[x] \in Int /\ f[x] <= 0)
  OBVIOUS
<1>2. S \in SUBSET S /\ 0 \in Int
  OBVIOUS
<1>3. SumFunctionOnSet(f, S) \in Nat
  BY <1>1, <1>2, SumGrows
<1>4. SumFunctionOnSet(f, S) <= Cardinality(S) * 0
  BY <1>1, <1>2, SumBounded
<1>5. Cardinality(S) * 0 = 0
  BY FS_CardinalityType
<1>6. QED
  BY <1>3, <1>4, <1>5

\* WindowInv holds at first.
LEMMA WindowStarts ==
    ASSUME WindowInit
    PROVE  WindowInv
<1>1. /\ now \in 0 .. MaxTicks
      /\ currCount \in Nat /\ prevCount \in Nat
      /\ passed \in [0 .. MaxTicks -> Nat]
      /\ \A t \in 0 .. MaxTicks : passed[t] = 0
      /\ windowStart = 0 /\ currCount = 0 /\ now = 0
  BY WindowAssumption DEF WindowInit
<1>2. ASSUME NEW k \in Nat PROVE SumFunctionOnSet(passed, Ticks(k)) = 0
  <2>1. PICK S : S = Ticks(k)
    OBVIOUS
  <2>2. IsFiniteSet(S) /\ \A t \in S : passed[t] = 0
    BY <1>1, <2>1, TicksFinite, FS_Subset
  <2>3. SumFunctionOnSet(passed, S) = 0
    BY <2>2, ZeroSums
  <2>4. QED
    BY <2>1, <2>3
<1>3. 0 * Window = 0 /\ 0 \in Nat
  BY WindowAssumption
<1>4. \A k \in Nat : SumFunctionOnSet(passed, Ticks(k)) <= Limit
  BY <1>2, WindowAssumption
<1>5. /\ windowStart = 0 * Window /\ windowStart <= now
      /\ currCount = SumFunctionOnSet(passed, Ticks(0))
      /\ \A t \in 0 .. MaxTicks : t >= (0 + 1) * Window => passed[t] = 0
  BY <1>1, <1>2, <1>3
<1>6. QED
  BY <1>1, <1>3, <1>4, <1>5 DEF WindowInv

\* The window that a request falls in, and the count it finds there.
LEMMA RequestFinds ==
    ASSUME WindowInv
    PROVE  \E k \in Nat, curr \in Nat :
             /\ windowStart + ((now - windowStart) \div Window) * Window = k * Window
             /\ k * Window <= now /\ now < (k + 1) * Window
             /\ curr = IF now - windowStart >= Window THEN 0 ELSE currCount
             /\ curr = SumFunctionOnSet(passed, Ticks(k))
             /\ \A t \in 0 .. MaxTicks : t >= (k + 1) * Window => passed[t] = 0
<1>1. PICK j \in Nat : /\ windowStart = j * Window /\ windowStart <= now
                       /\ currCount = SumFunctionOnSet(passed, Ticks(j))
                       /\ \A t \in 0 .. MaxTicks : t >= (j + 1) * Window => passed[t] = 0
  BY DEF WindowInv
<1>2. Window \in Nat \ {0} /\ Window \in Nat /\ now \in Nat /\ currCount \in Nat
  BY WindowAssumption DEF WindowInv
<1>3. PICK s \in Nat : s = j * Window
  BY <1>2
<1>4. PICK e \in Nat : e = now - windowStart /\ now = s + e
  BY <1>1, <1>2, <1>3
<1>5. PICK q \in Nat : q = e \div Window /\ q * Window <= e /\ e < q * Window + Window
  BY <1>2, DivIs
<1>6. PICK k \in Nat : k = j + q
  OBVIOUS
<1>7. PICK p \in Nat : p = q * Window
  BY <1>2
<1>8. k * Window = s + p /\ (k + 1) * Window = s + p + Window
  BY <1>2, <1>3, <1>6, <1>7
<1>9. windowStart + ((now - windowStart) \div Window) * Window = k * Window
  BY <1>1, <1>3, <1>4, <1>5, <1>7, <1>8
<1>10. k * Window <= now /\ now < (k + 1) * Window
  BY <1>2, <1>4, <1>5, <1>7, <1>8
<1>11. k >= j /\ (k + 1) * Window >= (j + 1) * Window /\ (j + 1) * Window = s + Window
  BY <1>2, <1>3, <1>6, <1>7, <1>8
<1>12. \A t \in 0 .. MaxTicks : t >= (k + 1) * Window => passed[t] = 0
  <2> SUFFICES ASSUME NEW t \in 0 .. MaxTicks, t >= (k + 1) * Window PROVE passed[t] = 0
    OBVIOUS
  <2>1. t >= (j + 1) * Window
    BY <1>2, <1>8, <1>11
  <2>2. QED
    BY <1>1, <2>1
<1>13. CASE e >= Window
  <2>1. k >= j + 1
    <3>1. ASSUME q = 0 PROVE FALSE
      <4>1. q * Window = 0
        BY <1>2, <3>1
      <4>2. QED
        BY <1>2, <1>5, <1>13, <4>1
    <3>2. QED
      BY <1>6, <3>1
  <2>2. (j + 1) * Window <= k * Window /\ (j + 1) * Window \in Nat /\ k * Window \in Nat
    BY <1>2, <2>1, TimesMonotone
  <2>3. PICK S : S = Ticks(k)
    OBVIOUS
  <2>4. IsFiniteSet(S)
    BY <2>3, TicksFinite, FS_Subset
  <2>5. \A t \in S : passed[t] = 0
    <3>1. ASSUME NEW t \in 0 .. MaxTicks, k * Window <= t PROVE passed[t] = 0
      <4>1. t >= (j + 1) * Window
        BY <2>2, <3>1
      <4>2. QED
        BY <1>1, <4>1
    <3>2. QED
      BY <2>3, <3>1 DEF Ticks
  <2>6. SumFunctionOnSet(passed, S) = 0
    BY <2>4, <2>5, ZeroSums
  <2>7. PICK curr \in Nat : curr = 0
    OBVIOUS
  <2>8. curr = SumFunctionOnSet(passed, Ticks(k))
        /\ curr = IF now - windowStart >= Window THEN 0 ELSE currCount
    BY <1>4, <1>13, <2>3, <2>6, <2>7
  <2>9. QED
    BY <1>9, <1>10, <1>12, <2>8
<1>14. CASE ~(e >= Window)
  <2>1. k = j
    <3>1. ASSUME q >= 1 PROVE FALSE
      <4>1. 1 * Window <= q * Window /\ 1 * Window = Window
        BY <1>2, <3>1, TimesMonotone
      <4>2. QED
        BY <1>2, <1>5, <1>7, <1>14, <4>1
    <3>2. QED
      BY <1>6, <3>1
  <2>2. currCount = SumFunctionOnSet(passed, Ticks(k))
        /\ currCount = IF now - windowStart >= Window THEN 0 ELSE currCount
    BY <1>1, <1>4, <1>14, <2>1
  <2>3. QED
    BY <1>2, <1>9, <1>10, <1>12, <2>2
<1>15. QED
  BY <1>13, <1>14

\* The previous count is a natural, stale or not.
LEMMA PreviousIsNat ==
    ASSUME WindowInv, NEW e \in Nat
    PROVE  Previous(e) \in Nat
<1>1. currCount \in Nat /\ prevCount \in Nat /\ Window \in Nat
  BY WindowAssumption DEF WindowInv
<1>2. e >= 2 * Window \/ (e >= Window /\ e < 2 * Window) \/ ~(e >= Window)
  BY <1>1
<1>3. QED
  BY <1>1, <1>2 DEF Previous

\* Allow keeps WindowInv: the estimate is at least the count of the current window.
LEMMA RequestKeeps ==
    ASSUME WindowInv, AllowRequest
    PROVE  WindowInv'
<1>1. PICK k \in Nat, curr \in Nat :
             /\ windowStart + ((now - windowStart) \div Window) * Window = k * Window
             /\ k * Window <= now /\ now < (k + 1) * Window
             /\ curr = IF now - windowStart >= Window THEN 0 ELSE currCount
             /\ curr = SumFunctionOnSet(passed, Ticks(k))
             /\ \A t \in 0 .. MaxTicks : t >= (k + 1) * Window => passed[t] = 0
  BY RequestFinds
<1>2. Window \in Nat \ {0} /\ Window \in Nat /\ Limit \in Nat /\ MaxTicks \in Nat
  BY WindowAssumption
<1>3. PICK c \in 0 .. MaxTicks : c = now /\ c = now'
  BY DEF WindowInv, AllowRequest
<1>4. PICK e \in Nat : e = now - windowStart
  BY <1>2 DEF WindowInv
<1>5. PICK p \in Nat : p = Previous(e)
  BY PreviousIsNat
<1>6. PICK r \in Nat : r = Window - (now - k * Window)
  <2>1. PICK s \in Nat : s = k * Window
    BY <1>2
  <2>2. (k + 1) * Window = s + Window
    BY <1>2, <2>1
  <2>3. s <= c /\ c < s + Window
    BY <1>1, <1>3, <2>1, <2>2
  <2>4. Window - (c - s) \in Nat
    BY <1>2, <2>3
  <2>5. QED
    BY <1>3, <2>1, <2>4
<1>7. PICK est \in Nat : est = Estimated(p, curr, now - k * Window) /\ curr <= est
  BY <1>2, <1>6, EstimateCovers DEF Estimated
<1>8. /\ prevCount' = p
      /\ windowStart' = k * Window
      /\ currCount' = IF est + 1 <= Limit THEN curr + 1 ELSE curr
      /\ passed' = IF est + 1 <= Limit THEN [passed EXCEPT ![c] = @ + 1] ELSE passed
  BY <1>1, <1>3, <1>4, <1>5, <1>7 DEF AllowRequest
<1>9. PICK U : U = 0 .. MaxTicks
  OBVIOUS
<1>10. PICK f \in [U -> Nat] : f = passed
  BY <1>9 DEF WindowInv
<1>11. IsFiniteSet(U) /\ \A j \in Nat : Ticks(j) \in SUBSET U
  BY <1>9, TicksFinite
<1>12. c \in Ticks(k)
  BY <1>1, <1>3 DEF Ticks
<1>13. \A j \in Nat : SumFunctionOnSet(f, Ticks(j)) <= Limit
  BY <1>10 DEF WindowInv
<1>14. windowStart' <= now' /\ windowStart' = k * Window /\ currCount' \in Nat /\ prevCount' \in Nat
       /\ now' \in 0 .. MaxTicks
  BY <1>1, <1>3, <1>8
<1>15. CASE est + 1 <= Limit
  <2>1. PICK g \in [U -> Nat] : /\ g = passed' /\ g[c] = f[c] + 1
                                /\ \A t \in U : t # c => g[t] = f[t]
    <3>1. c \in U
      BY <1>9
    <3>2. passed' = [f EXCEPT ![c] = @ + 1]
      BY <1>8, <1>10, <1>15
    <3>3. PICK g : g = [f EXCEPT ![c] = @ + 1]
      OBVIOUS
    <3>4. g \in [U -> Nat] /\ g[c] = f[c] + 1 /\ \A t \in U : t # c => g[t] = f[t]
      BY <3>1, <3>3
    <3>5. QED
      BY <3>2, <3>3, <3>4
  <2>2. IsRaised(U, f, c, 1, g)
    BY <1>9, <1>11, <2>1 DEF IsRaised
  <2>3. ASSUME NEW S \in SUBSET U
        PROVE  /\ SumFunctionOnSet(f, S) \in Nat
               /\ c \in S => SumFunctionOnSet(g, S) = SumFunctionOnSet(f, S) + 1
               /\ c \notin S => SumFunctionOnSet(g, S) = SumFunctionOnSet(f, S)
    BY <2>2, RaisedSums
  <2>4. SumFunctionOnSet(g, Ticks(k)) = curr + 1
    BY <1>1, <1>10, <1>11, <1>12, <2>3
  <2>5. curr + 1 <= Limit
    BY <1>2, <1>7, <1>15
  <2>6. ASSUME NEW j \in Nat PROVE SumFunctionOnSet(g, Ticks(j)) <= Limit
    <3>1. CASE j = k
      BY <2>4, <2>5, <3>1
    <3>2. CASE j # k
      <4>1. c \notin Ticks(j)
        BY <1>12, <3>2, TicksApart
      <4>2. QED
        BY <1>11, <1>13, <2>3, <4>1
    <3>3. QED
      BY <3>1, <3>2
  <2>7. \A t \in 0 .. MaxTicks : t >= (k + 1) * Window => g[t] = 0
    <3> SUFFICES ASSUME NEW t \in 0 .. MaxTicks, t >= (k + 1) * Window PROVE g[t] = 0
      OBVIOUS
    <3>1. t # c
      <4>1. (k + 1) * Window \in Nat
        BY <1>2
      <4>2. QED
        BY <1>1, <1>3, <4>1
    <3>2. QED
      BY <1>1, <1>9, <1>10, <2>1, <3>1
  <2>8. currCount' = curr + 1
    BY <1>8, <1>15
  <2>9. /\ windowStart' = k * Window /\ windowStart' <= now'
        /\ currCount' = SumFunctionOnSet(passed', Ticks(k))
        /\ \A t \in 0 .. MaxTicks : t >= (k + 1) * Window => passed'[t] = 0
    BY <1>14, <2>1, <2>4, <2>7, <2>8
  <2>10. passed' \in [0 .. MaxTicks -> Nat] /\ \A j \in Nat : SumFunctionOnSet(passed', Ticks(j)) <= Limit
    BY <1>9, <2>1, <2>6
  <2>11. \A j \in Nat : Ticks(j)' = Ticks(j)
    BY DEF Ticks
  <2>12. QED
    BY <1>14, <2>9, <2>10, <2>11 DEF WindowInv
<1>16. CASE ~(est + 1 <= Limit)
  <2>1. passed' = passed /\ currCount' = curr
    BY <1>8, <1>16
  <2>2. /\ windowStart' = k * Window /\ windowStart' <= now'
        /\ currCount' = SumFunctionOnSet(passed', Ticks(k))
        /\ \A t \in 0 .. MaxTicks : t >= (k + 1) * Window => passed'[t] = 0
    BY <1>1, <1>14, <2>1
  <2>3. passed' \in [0 .. MaxTicks -> Nat] /\ \A j \in Nat : SumFunctionOnSet(passed', Ticks(j)) <= Limit
    BY <1>9, <1>10, <1>13, <2>1
  <2>4. QED
    BY <1>14, <2>2, <2>3 DEF WindowInv, Ticks
<1>17. QED
  BY <1>15, <1>16

\* Requests and the passing of time keep WindowInv.
LEMMA WindowKeeps ==
    ASSUME WindowInv, [WindowNext]_windowVars
    PROVE  WindowInv'
<1>1. CASE AllowRequest
  BY <1>1, RequestKeeps
<1>2. ASSUME now' \in 0 .. MaxTicks, now <= now',
             UNCHANGED <<currCount, prevCount, windowStart, passed>>
      PROVE  WindowInv'
  <2>1. PICK k \in Nat : /\ windowStart = k * Window /\ windowStart <= now
                         /\ currCount = SumFunctionOnSet(passed, Ticks(k))
                         /\ \A t \in 0 .. MaxTicks : t >= (k + 1) * Window => passed[t] = 0
    BY DEF WindowInv
  <2>2. k * Window \in Nat
    BY WindowAssumption
  <2>3. windowStart' <= now'
    <3>1. windowStart \in Nat /\ now \in Nat /\ now' \in Nat
      BY <1>2, <2>1, <2>2 DEF WindowInv
    <3>2. QED
      BY <1>2, <2>1, <3>1
  <2>4. /\ windowStart' = k * Window /\ windowStart' <= now'
        /\ currCount' = SumFunctionOnSet(passed', Ticks(k))
        /\ \A t \in 0 .. MaxTicks : t >= (k + 1) * Window => passed'[t] = 0
    BY <1>2, <2>1, <2>3
  <2>5. /\ currCount' \in Nat /\ prevCount' \in Nat /\ passed' \in [0 .. MaxTicks -> Nat]
        /\ \A j \in Nat : SumFunctionOnSet(passed', Ticks(j)) <= Limit
    BY <1>2 DEF WindowInv
  <2>6. QED
    BY <1>2, <2>4, <2>5 DEF WindowInv, Ticks
<1>3. CASE WindowTick
  BY <1>2, <1>3, WindowAssumption DEF WindowTick, WindowInv
<1>4. CASE UNCHANGED windowVars
  BY <1>2, <1>4, WindowAssumption DEF windowVars, WindowInv
<1>5. QED
  BY <1>1, <1>3, <1>4 DEF WindowNext

\* Window ticks in a row lie in two windows.
LEMMA WindowsBounded ==
    ASSUME WindowInv
    PROVE  AtMostTwice
<1> SUFFICES ASSUME NEW from \in 0 .. now
             PROVE  PassedIn(from, Min({now, from + Window - 1})) <= 2 * Limit
  BY DEF AtMostTwice
<1>1. Window \in Nat \ {0} /\ Limit \in Nat /\ MaxTicks \in Nat /\ now \in Nat /\ from \in Nat
      /\ now <= MaxTicks
  BY WindowAssumption DEF WindowInv
<1>2. PICK k \in Nat : k * Window <= from /\ from < k * Window + Window
  BY <1>1, DivIs
<1>3. PICK to \in Nat : to = Min({now, from + Window - 1}) /\ to <= now /\ to <= from + Window - 1
  <2>1. PICK a \in Nat : a = from + Window - 1
    BY <1>1
  <2>2. Min({now, a}) = IF now <= a THEN now ELSE a
    BY <1>1, <2>1, MinOfTwo
  <2>3. QED
    BY <1>1, <2>1, <2>2
<1>4. PICK U : U = 0 .. MaxTicks
  OBVIOUS
<1>5. IsFiniteSet(U) /\ passed \in [U -> Nat]
  BY <1>4, TicksFinite DEF WindowInv
<1>6. PICK A \in SUBSET U, B \in SUBSET U : A = Ticks(k) /\ B = Ticks(k + 1)
  <2>1. k + 1 \in Nat
    OBVIOUS
  <2>2. QED
    BY <1>4, <2>1, TicksFinite
<1>7. A \cap B = {}
  <2>1. k + 1 \in Nat /\ k # k + 1
    OBVIOUS
  <2>2. QED
    BY <1>6, <2>1, TicksApart
<1>8. from .. to \subseteq A \cup B
  <2>1. PICK s \in Nat : s = k * Window
    BY <1>1
  <2>2. (k + 1) * Window = s + Window /\ ((k + 1) + 1) * Window = s + Window + Window
    BY <1>1, <2>1
  <2>3. ASSUME NEW t \in from .. to PROVE t \in A \cup B
    <3>1. t \in Nat /\ t <= MaxTicks /\ s <= t /\ t < s + Window + Window
      BY <1>1, <1>2, <1>3, <2>1
    <3>2. t \in 0 .. MaxTicks
      BY <1>1, <3>1
    <3>3. (s <= t /\ t < s + Window) \/ (s + Window <= t /\ t < s + Window + Window)
      BY <1>1, <3>1
    <3>4. QED
      BY <1>6, <2>1, <2>2, <3>2, <3>3 DEF Ticks
  <2>4. QED
    BY <2>3
<1>9. PICK V : V = A \cup B
  OBVIOUS
<1>10. IsFiniteSet(V) /\ (\A t \in V : passed[t] \in Nat) /\ (\A t \in U : passed[t] \in Int)
  BY <1>5, <1>6, <1>9, FS_Subset
<1>11. PICK S \in SUBSET V : S = from .. to
  BY <1>8, <1>9
<1>12. SumFunctionOnSet(passed, S) \in Nat
       /\ SumFunctionOnSet(passed, S) <= SumFunctionOnSet(passed, V)
  BY <1>10, SumGrows
<1>13. SumFunctionOnSet(passed, V) = SumFunctionOnSet(passed, A) + SumFunctionOnSet(passed, B)
  BY <1>5, <1>7, <1>9, <1>10, SumOfUnion
<1>14. SumFunctionOnSet(passed, A) <= Limit /\ SumFunctionOnSet(passed, B) <= Limit
  <2>1. k + 1 \in Nat
    OBVIOUS
  <2>2. QED
    BY <1>6, <2>1 DEF WindowInv
<1>15. SumFunctionOnSet(passed, A) \in Int /\ SumFunctionOnSet(passed, B) \in Int
  BY <1>5, <1>10, SumTakesOut
<1>16. SumFunctionOnSet(passed, S) <= 2 * Limit
  BY <1>1, <1>12, <1>13, <1>14, <1>15
<1>17. QED
  BY <1>3, <1>11, <1>16 DEF PassedIn

\* No limiter lets more through, in any stretch of time, than it promises (TokenBucket,
\* DistributedRateLimiter, SlidingWindowCounter), whatever the number of nodes, the
\* capacities, the rates and the window.
THEOREM RatesBounded == BucketSpec /\ WindowSpec => []RatesAreBounded
<1>1. BucketInit => BucketInv
  BY BucketStarts
<1>2. BucketInv /\ [BucketNext]_bucketVars => BucketInv'
  BY BucketKeeps
<1>3. BucketInv => WindowIsBounded
  BY BucketsBounded
<1>4. WindowInit => WindowInv
  BY WindowStarts
<1>5. WindowInv /\ [WindowNext]_windowVars => WindowInv'
  BY WindowKeeps
<1>6. WindowInv => AtMostTwice
  BY WindowsBounded
<1>7. WindowIsBounded /\ AtMostTwice => RatesAreBounded
  BY DEF RatesAreBounded
<1>8. QED
  BY <1>1, <1>2, <1>3, <1>4, <1>5, <1>6, <1>7, PTL DEF BucketSpec, WindowSpec

-----------------------------------------------------------------------------
(* ShardMap, Rebalancer, Router *)

\* What Without computes for each length of a prefix.
IsFilter(kept, s, gone) ==
    kept = [i \in 0 .. Len(s) |->
              IF i = 0 THEN <<>>
              ELSE IF s[i] \in gone THEN kept[i - 1] ELSE Append(kept[i - 1], s[i])]

\* The sequence without its p-th element.
Cut(s, p) == [i \in 1 .. Len(s) - 1 |-> IF i < p THEN s[i] ELSE s[i + 1]]

\* Without takes one element out, if one is to go.
LEMMA WithoutOne ==
    ASSUME NEW S, NEW s \in Seq(S), NEW p \in 1 .. Len(s), NEW gone,
           \A i \in 1 .. Len(s) : s[i] \in gone <=> i = p
    PROVE  Without(s, gone) = Cut(s, p) /\ Cut(s, p) \in Seq(S) /\ Len(Cut(s, p)) = Len(s) - 1
<1>1. PICK n \in Nat : n = Len(s)
  OBVIOUS
<1>2. PICK g : g = [i \in 0 .. n |-> IF i < p THEN [j \in 1 .. i |-> s[j]]
                                     ELSE [j \in 1 .. i - 1 |-> IF j < p THEN s[j] ELSE s[j + 1]]]
  OBVIOUS
<1>3. ASSUME NEW i \in 1 .. n
      PROVE  g[i] = IF s[i] \in gone THEN g[i - 1] ELSE Append(g[i - 1], s[i])
  <2>0. \A j \in 1 .. n : s[j] \in S
    BY <1>1
  <2>1. CASE i < p
    <3>1. g[i] = [j \in 1 .. i |-> s[j]] /\ g[i - 1] = [j \in 1 .. i - 1 |-> s[j]] /\ s[i] \notin gone
      BY <1>1, <1>2, <2>1
    <3>2. g[i - 1] \in Seq(S) /\ Len(g[i - 1]) = i - 1
      BY <1>1, <2>0, <3>1
    <3>3. Append(g[i - 1], s[i]) = [j \in 1 .. i |-> s[j]]
      BY <1>1, <2>0, <3>1, <3>2
    <3>4. QED
      BY <3>1, <3>3
  <2>2. CASE i = p
    <3>1. g[i] = [j \in 1 .. i - 1 |-> IF j < p THEN s[j] ELSE s[j + 1]]
          /\ g[i - 1] = [j \in 1 .. i - 1 |-> s[j]] /\ s[i] \in gone
      BY <1>1, <1>2, <2>2
    <3>2. \A j \in 1 .. i - 1 : j < p
      BY <1>1, <2>2
    <3>3. QED
      BY <3>1, <3>2
  <2>3. CASE i > p
    <3>1. g[i] = [j \in 1 .. i - 1 |-> IF j < p THEN s[j] ELSE s[j + 1]]
          /\ g[i - 1] = [j \in 1 .. (i - 1) - 1 |-> IF j < p THEN s[j] ELSE s[j + 1]] /\ s[i] \notin gone
      BY <1>1, <1>2, <2>3
    <3>2. \A j \in 1 .. i - 1 : (IF j < p THEN s[j] ELSE s[j + 1]) \in S
      BY <1>1, <2>0
    <3>3. g[i - 1] \in Seq(S) /\ Len(g[i - 1]) = i - 2
      BY <1>1, <2>3, <3>1, <3>2
    <3>4. Append(g[i - 1], s[i]) = [j \in 1 .. i - 1 |-> IF j < p THEN s[j] ELSE s[j + 1]]
      BY <1>1, <2>0, <2>3, <3>1, <3>3
    <3>5. QED
      BY <3>1, <3>4
  <2>4. QED
    BY <1>1, <2>1, <2>2, <2>3
<1>4. g[0] = <<>>
  BY <1>1, <1>2
<1>5. IsFilter(g, s, gone)
  <2>1. g = [i \in 0 .. n |-> g[i]]
    BY <1>2
  <2>2. \A i \in 0 .. n : g[i] = IF i = 0 THEN <<>>
                            ELSE IF s[i] \in gone THEN g[i - 1] ELSE Append(g[i - 1], s[i])
    BY <1>3, <1>4
  <2>3. QED
    BY <1>1, <2>1, <2>2 DEF IsFilter
<1>6. PICK kept : kept = CHOOSE k : IsFilter(k, s, gone)
  OBVIOUS
<1>7. IsFilter(kept, s, gone)
  BY <1>5, <1>6
<1>8. Without(s, gone) = kept[Len(s)]
  BY <1>6 DEF Without, IsFilter
<1>9. \A i \in Nat : i <= n => kept[i] = g[i]
  <2>1. PICK T : T = {i \in Nat : i <= n => kept[i] = g[i]}
    OBVIOUS
  <2>2. kept[0] = <<>> /\ \A i \in 1 .. n : kept[i] = IF s[i] \in gone THEN kept[i - 1]
                                                     ELSE Append(kept[i - 1], s[i])
    <3>1. kept = [i \in 0 .. n |->
              IF i = 0 THEN <<>>
              ELSE IF s[i] \in gone THEN kept[i - 1] ELSE Append(kept[i - 1], s[i])]
      BY <1>1, <1>7 DEF IsFilter
    <3>2. \A i \in 0 .. n : kept[i] = IF i = 0 THEN <<>>
              ELSE IF s[i] \in gone THEN kept[i - 1] ELSE Append(kept[i - 1], s[i])
      BY <3>1
    <3>3. QED
      BY <1>1, <3>2
  <2>3. 0 \in T
    BY <1>4, <2>1, <2>2
  <2>4. ASSUME NEW i \in Nat, i \in T PROVE i + 1 \in T
    <3>1. ASSUME i + 1 <= n PROVE kept[i + 1] = g[i + 1]
      <4>1. PICK k \in 1 .. n : k = i + 1
        BY <3>1
      <4>2. kept[k - 1] = g[k - 1]
        BY <2>1, <2>4, <3>1, <4>1
      <4>3. kept[k] = g[k]
        BY <1>3, <2>2, <4>2
      <4>4. QED
        BY <4>1, <4>3
    <3>2. QED
      BY <2>1, <3>1
  <2>5. \A i \in Nat : i \in T
    BY <2>3, <2>4, SetInduction
  <2>6. QED
    BY <2>1, <2>5
<1>10. kept[n] = Cut(s, p)
  <2>1. kept[n] = g[n]
    BY <1>9
  <2>2. g[n] = [j \in 1 .. n - 1 |-> IF j < p THEN s[j] ELSE s[j + 1]]
    BY <1>1, <1>2
  <2>3. QED
    BY <1>1, <2>1, <2>2 DEF Cut
<1>11. Cut(s, p) \in Seq(S) /\ Len(Cut(s, p)) = Len(s) - 1
  <2>1. \A j \in 1 .. Len(s) - 1 : (IF j < p THEN s[j] ELSE s[j + 1]) \in S
    OBVIOUS
  <2>2. QED
    BY <2>1 DEF Cut
<1>12. QED
  BY <1>1, <1>8, <1>10, <1>11

\* The sequence with e behind its p-th element.
Wedge(s, p, e) == [i \in 1 .. Len(s) + 1 |-> IF i <= p THEN s[i] ELSE IF i = p + 1 THEN e ELSE s[i - 1]]

LEMMA WedgeIs ==
    ASSUME NEW S, NEW s \in Seq(S), NEW p \in 1 .. Len(s), NEW e \in S
    PROVE  /\ SubSeq(s, 1, p) \o <<e>> \o SubSeq(s, p + 1, Len(s)) = Wedge(s, p, e)
           /\ Wedge(s, p, e) \in Seq(S) /\ Len(Wedge(s, p, e)) = Len(s) + 1
<1>1. PICK n \in Nat : n = Len(s)
  OBVIOUS
<1>2. PICK a : a = SubSeq(s, 1, p)
  OBVIOUS
<1>3. a \in Seq(S) /\ Len(a) = p /\ \A i \in 1 .. p : a[i] = s[i]
  BY <1>2
<1>4. PICK b : b = SubSeq(s, p + 1, Len(s))
  OBVIOUS
<1>5. b \in Seq(S) /\ Len(b) = n - p /\ \A i \in 1 .. n - p : b[i] = s[p + i]
  BY <1>1, <1>4
<1>6. PICK c : c = a \o <<e>>
  OBVIOUS
<1>7. c \in Seq(S) /\ Len(c) = p + 1 /\ (\A i \in 1 .. p : c[i] = s[i]) /\ c[p + 1] = e
  BY <1>1, <1>3, <1>6
<1>8. PICK d : d = c \o b
  OBVIOUS
<1>9. d \in Seq(S) /\ Len(d) = n + 1 /\ (\A i \in 1 .. p + 1 : d[i] = c[i])
      /\ (\A i \in p + 2 .. n + 1 : d[i] = b[i - (p + 1)])
  <2>1. d \in Seq(S) /\ Len(d) = n + 1
    <3>0. c \in Seq(S) /\ b \in Seq(S)
      BY <1>5, <1>7
    <3>1. d \in Seq(S) /\ Len(d) = Len(c) + Len(b)
      BY ONLY <1>8, <3>0
    <3>2. Len(c) + Len(b) = n + 1
      BY <1>1, <1>5, <1>7
    <3>3. QED
      BY <3>1, <3>2
  <2>2. \A i \in 1 .. p + 1 : d[i] = c[i]
    BY <1>5, <1>7, <1>8
  <2>3. \A i \in p + 2 .. n + 1 : d[i] = b[i - (p + 1)]
    <3>1. ASSUME NEW i \in p + 2 .. n + 1 PROVE d[i] = b[i - Len(c)]
      BY <1>1, <1>5, <1>7, <1>8
    <3>2. QED
      BY <1>7, <3>1
  <2>4. QED
    BY <2>1, <2>2, <2>3
<1>10. \A i \in 1 .. n + 1 : d[i] = IF i <= p THEN s[i] ELSE IF i = p + 1 THEN e ELSE s[i - 1]
  <2> SUFFICES ASSUME NEW i \in 1 .. n + 1
               PROVE  d[i] = IF i <= p THEN s[i] ELSE IF i = p + 1 THEN e ELSE s[i - 1]
    OBVIOUS
  <2>1. CASE i <= p
    BY <1>1, <1>7, <1>9, <2>1
  <2>2. CASE i = p + 1
    BY <1>1, <1>7, <1>9, <2>2
  <2>3. CASE i > p + 1
    <3>1. PICK k \in 1 .. n - p : k = i - (p + 1)
      BY <1>1, <2>3
    <3>2. d[i] = b[k] /\ b[k] = s[p + k] /\ p + k = i - 1
      BY <1>1, <1>5, <1>9, <2>3, <3>1
    <3>3. QED
      BY <1>1, <2>3, <3>2
  <2>4. QED
    BY <1>1, <2>1, <2>2, <2>3
<1>11. d = [i \in 1 .. n + 1 |-> d[i]]
  BY <1>9
<1>12. d = Wedge(s, p, e)
  BY <1>1, <1>10, <1>11 DEF Wedge
<1>13. QED
  BY <1>1, <1>2, <1>4, <1>6, <1>8, <1>9, <1>12

\* The ranges of the shards follow each other from the first key to the last, and every
\* shard has an id of its own; the first one has the id 0.
Spans(n, st, en, nm) ==
    /\ st \in [1 .. n -> Nat] /\ en \in [1 .. n -> Nat] /\ nm \in [1 .. n -> ID]
    /\ \A i \in 1 .. n : st[i] <= en[i]
    /\ \A i, j \in 1 .. n : i < j => en[i] <= st[j]
    /\ \A i \in 1 .. n : i < n => en[i] = st[i + 1]
    /\ n > 0 => st[1] = 0 /\ en[n] = Top /\ nm[1] = 0
    /\ \A i, j \in 1 .. n : nm[i] = nm[j] => i = j

\* Shards that are to be merged: if others have come between them, the last of those has a key.
Waits(n, st, en, nm, x, y) ==
    /\ y # 0
    /\ \A i, j \in 1 .. n : nm[i] = x /\ nm[j] = y => i < j /\ (j = i + 1 \/ st[j - 1] < en[j - 1])

\* A split of the p-th shard at a key that it has.
IsSplit(n, st, en, nm, p, key, new, st2, en2, nm2) ==
    /\ p \in 1 .. n /\ key \in Nat /\ st[p] <= key /\ key < en[p]
    /\ new \in ID /\ \A i \in 1 .. n : nm[i] # new
    /\ st2 = [i \in 1 .. n + 1 |-> IF i <= p THEN st[i] ELSE IF i = p + 1 THEN key ELSE st[i - 1]]
    /\ en2 = [i \in 1 .. n + 1 |-> IF i < p THEN en[i] ELSE IF i = p THEN key ELSE en[i - 1]]
    /\ nm2 = [i \in 1 .. n + 1 |-> IF i <= p THEN nm[i] ELSE IF i = p + 1 THEN new ELSE nm[i - 1]]

LEMMA SplitSpans ==
    ASSUME NEW n \in Nat, NEW st, NEW en, NEW nm, Spans(n, st, en, nm), NEW p, NEW key, NEW new,
           NEW st2, NEW en2, NEW nm2, IsSplit(n, st, en, nm, p, key, new, st2, en2, nm2)
    PROVE  /\ Spans(n + 1, st2, en2, nm2)
           /\ \A x, y : x # new /\ y # new /\ Waits(n, st, en, nm, x, y)
                          => Waits(n + 1, st2, en2, nm2, x, y)
<1> USE DEF IsSplit
<1>0. /\ st \in [1 .. n -> Nat] /\ en \in [1 .. n -> Nat] /\ nm \in [1 .. n -> ID]
      /\ \A i \in 1 .. n : st[i] <= en[i]
      /\ \A i, j \in 1 .. n : i < j => en[i] <= st[j]
      /\ \A i \in 1 .. n : i < n => en[i] = st[i + 1]
      /\ st[1] = 0 /\ en[n] = Top /\ nm[1] = 0
      /\ \A i, j \in 1 .. n : nm[i] = nm[j] => i = j
  BY DEF Spans
<1>1. /\ st2 \in [1 .. n + 1 -> Nat] /\ en2 \in [1 .. n + 1 -> Nat] /\ nm2 \in [1 .. n + 1 -> ID]
  BY <1>0
<1>2. \A i \in 1 .. n + 1 : st2[i] <= en2[i]
  <2> SUFFICES ASSUME NEW i \in 1 .. n + 1 PROVE st2[i] <= en2[i]
    OBVIOUS
  <2>1. CASE i < p
    BY <1>0, <2>1
  <2>2. CASE i = p
    BY <2>2
  <2>3. CASE i = p + 1
    <3>1. st2[i] = key /\ en2[i] = en[p] /\ en[p] \in Nat
      BY <1>0, <2>3
    <3>2. QED
      BY <3>1
  <2>4. CASE i > p + 1
    <3>1. st2[i] = st[i - 1] /\ en2[i] = en[i - 1] /\ i - 1 \in 1 .. n
      BY <2>4
    <3>2. QED
      BY <1>0, <3>1
  <2>5. QED
    BY <2>1, <2>2, <2>3, <2>4
<1>3. \A i, j \in 1 .. n + 1 : i < j => en2[i] <= st2[j]
  <2> SUFFICES ASSUME NEW i \in 1 .. n + 1, NEW j \in 1 .. n + 1, i < j PROVE en2[i] <= st2[j]
    OBVIOUS
  <2>1. CASE j <= p
    BY <1>0, <2>1
  <2>2. CASE j = p + 1
    BY <1>0, <2>2
  <2>3. CASE j > p + 1 /\ i <= p
    <3>1. PICK v \in 1 .. n : v = j - 1 /\ st2[j] = st[v] /\ p < v /\ i \in 1 .. n /\ i < v
      BY <2>3
    <3>2. en[i] <= st[v] /\ en[p] <= st[v] /\ en[p] \in Nat /\ st[v] \in Nat
      BY <1>0, <3>1
    <3>3. QED
      BY <2>3, <3>1, <3>2
  <2>4. CASE j > p + 1 /\ i > p
    <3>1. j - 1 \in 1 .. n /\ i - 1 \in 1 .. n /\ i - 1 < j - 1 /\ st2[j] = st[j - 1] /\ en2[i] = en[i - 1]
      BY <2>4
    <3>2. QED
      BY <1>0, <3>1
  <2>5. QED
    BY <2>1, <2>2, <2>3, <2>4
<1>4. \A i \in 1 .. n + 1 : i < n + 1 => en2[i] = st2[i + 1]
  <2> SUFFICES ASSUME NEW i \in 1 .. n + 1, i < n + 1 PROVE en2[i] = st2[i + 1]
    OBVIOUS
  <2>1. CASE i < p
    BY <1>0, <2>1
  <2>2. CASE i = p
    BY <1>0, <2>2
  <2>3. CASE i > p
    <3>1. i - 1 \in 1 .. n /\ i - 1 < n /\ (i - 1) + 1 = i /\ en2[i] = en[i - 1] /\ st2[i + 1] = st[i]
      BY <2>3
    <3>2. QED
      BY <1>0, <3>1
  <2>4. QED
    BY <2>1, <2>2, <2>3
<1>5. st2[1] = 0 /\ en2[n + 1] = Top /\ nm2[1] = 0
  BY <1>0
<1>6. \A i, j \in 1 .. n + 1 : nm2[i] = nm2[j] => i = j
  <2>1. \A i \in 1 .. n + 1 : nm2[i] = new <=> i = p + 1
    BY <1>0
  <2>2. ASSUME NEW i \in 1 .. n + 1, NEW j \in 1 .. n + 1, nm2[i] = nm2[j], i # p + 1, j # p + 1
        PROVE  i = j
    <3>1. PICK u \in 1 .. n : u = (IF i <= p THEN i ELSE i - 1) /\ nm2[i] = nm[u]
      BY <2>2
    <3>2. PICK v \in 1 .. n : v = (IF j <= p THEN j ELSE j - 1) /\ nm2[j] = nm[v]
      BY <2>2
    <3>3. u = v
      BY <1>0, <2>2, <3>1, <3>2
    <3>4. QED
      BY <2>2, <3>1, <3>2, <3>3
  <2>3. QED
    BY <2>1, <2>2
<1>7. ASSUME NEW x, NEW y, x # new, y # new, Waits(n, st, en, nm, x, y)
      PROVE  Waits(n + 1, st2, en2, nm2, x, y)
  <2> SUFFICES ASSUME NEW i \in 1 .. n + 1, NEW j \in 1 .. n + 1, nm2[i] = x, nm2[j] = y
               PROVE  i < j /\ (j = i + 1 \/ st2[j - 1] < en2[j - 1])
    BY <1>7 DEF Waits
  <2>1. i # p + 1 /\ j # p + 1
    BY <1>7
  <2>2. PICK u \in 1 .. n : u = (IF i <= p THEN i ELSE i - 1) /\ nm2[i] = nm[u]
    BY <2>1
  <2>3. PICK v \in 1 .. n : v = (IF j <= p THEN j ELSE j - 1) /\ nm2[j] = nm[v]
    BY <2>1
  <2>4. u < v /\ (v = u + 1 \/ st[v - 1] < en[v - 1])
    BY <1>7, <2>2, <2>3 DEF Waits
  <2>5. i < j
    BY <2>1, <2>2, <2>3, <2>4
  <2>6. CASE v = p + 1
    <3>1. j - 1 = p + 1 /\ p + 1 \in 1 .. n + 1 /\ st2[p + 1] = key /\ en2[p + 1] = en[p]
      BY <2>1, <2>3, <2>6
    <3>2. QED
      BY <2>5, <3>1
  <2>7. CASE v # p + 1 /\ v = u + 1
    <3>1. j = i + 1
      BY <2>1, <2>2, <2>3, <2>7
    <3>2. QED
      BY <2>5, <3>1
  <2>8. CASE v # p + 1 /\ v # u + 1
    <3>1. v - 1 \in 1 .. n /\ v - 1 # p /\ j - 1 \in 1 .. n + 1
      BY <2>2, <2>4, <2>5, <2>8
    <3>2. st2[j - 1] = st[v - 1] /\ en2[j - 1] = en[v - 1]
      BY <2>1, <2>3, <2>8, <3>1
    <3>3. QED
      BY <2>4, <2>5, <2>8, <3>2
  <2>9. QED
    BY <2>6, <2>7, <2>8
<1>8. QED
  BY <1>1, <1>2, <1>3, <1>4, <1>5, <1>6, <1>7 DEF Spans

\* A merge of the p-th shard with the one behind it.
IsMerge(n, st, en, nm, p, st2, en2, nm2) ==
    /\ p \in 1 .. n /\ p < n
    /\ st2 = [i \in 1 .. n - 1 |-> IF i <= p THEN st[i] ELSE st[i + 1]]
    /\ en2 = [i \in 1 .. n - 1 |-> IF i < p THEN en[i] ELSE en[i + 1]]
    /\ nm2 = [i \in 1 .. n - 1 |-> IF i <= p THEN nm[i] ELSE nm[i + 1]]

LEMMA MergeSpans ==
    ASSUME NEW n \in Nat, NEW st, NEW en, NEW nm, Spans(n, st, en, nm), NEW p,
           NEW st2, NEW en2, NEW nm2, IsMerge(n, st, en, nm, p, st2, en2, nm2)
    PROVE  /\ Spans(n - 1, st2, en2, nm2)
           /\ \A x, y : Waits(n, st, en, nm, x, y) => Waits(n - 1, st2, en2, nm2, x, y)
<1> USE DEF IsMerge
<1>0. /\ st \in [1 .. n -> Nat] /\ en \in [1 .. n -> Nat] /\ nm \in [1 .. n -> ID]
      /\ \A i \in 1 .. n : st[i] <= en[i]
      /\ \A i, j \in 1 .. n : i < j => en[i] <= st[j]
      /\ \A i \in 1 .. n : i < n => en[i] = st[i + 1]
      /\ st[1] = 0 /\ en[n] = Top /\ nm[1] = 0
      /\ \A i, j \in 1 .. n : nm[i] = nm[j] => i = j
  BY DEF Spans
<1>1. /\ st2 \in [1 .. n - 1 -> Nat] /\ en2 \in [1 .. n - 1 -> Nat] /\ nm2 \in [1 .. n - 1 -> ID]
  BY <1>0
<1>2. \A i \in 1 .. n - 1 : st2[i] <= en2[i]
  <2> SUFFICES ASSUME NEW i \in 1 .. n - 1 PROVE st2[i] <= en2[i]
    OBVIOUS
  <2>1. CASE i = p
    <3>1. st2[i] = st[p] /\ en2[i] = en[p + 1] /\ p + 1 \in 1 .. n
      BY <2>1
    <3>2. st[p] <= en[p] /\ en[p] <= st[p + 1] /\ st[p + 1] <= en[p + 1]
      BY <1>0, <3>1
    <3>3. st[p] \in Nat /\ en[p] \in Nat /\ st[p + 1] \in Nat /\ en[p + 1] \in Nat
      BY <1>0, <3>1
    <3>4. QED
      BY <3>1, <3>2, <3>3
  <2>2. CASE i # p
    BY <1>0, <2>2
  <2>3. QED
    BY <2>1, <2>2
<1>3. \A i, j \in 1 .. n - 1 : i < j => en2[i] <= st2[j]
  <2> SUFFICES ASSUME NEW i \in 1 .. n - 1, NEW j \in 1 .. n - 1, i < j PROVE en2[i] <= st2[j]
    OBVIOUS
  <2>1. PICK u \in 1 .. n : u = (IF i < p THEN i ELSE i + 1) /\ en2[i] = en[u]
    OBVIOUS
  <2>2. PICK v \in 1 .. n : v = (IF j <= p THEN j ELSE j + 1) /\ st2[j] = st[v]
    OBVIOUS
  <2>3. u < v
    BY <2>1, <2>2
  <2>4. QED
    BY <1>0, <2>1, <2>2, <2>3
<1>4. \A i \in 1 .. n - 1 : i < n - 1 => en2[i] = st2[i + 1]
  <2> SUFFICES ASSUME NEW i \in 1 .. n - 1, i < n - 1 PROVE en2[i] = st2[i + 1]
    OBVIOUS
  <2>1. PICK u \in 1 .. n : u = (IF i < p THEN i ELSE i + 1) /\ en2[i] = en[u] /\ u < n
    OBVIOUS
  <2>2. st2[i + 1] = st[u + 1]
    BY <2>1
  <2>3. QED
    BY <1>0, <2>1, <2>2
<1>5. st2[1] = 0 /\ en2[n - 1] = Top /\ nm2[1] = 0
  BY <1>0
<1>6. \A i \in 1 .. n - 1 : \E u \in 1 .. n : u = (IF i <= p THEN i ELSE i + 1) /\ nm2[i] = nm[u]
  OBVIOUS
<1>7. \A i, j \in 1 .. n - 1 : nm2[i] = nm2[j] => i = j
  <2> SUFFICES ASSUME NEW i \in 1 .. n - 1, NEW j \in 1 .. n - 1, nm2[i] = nm2[j] PROVE i = j
    OBVIOUS
  <2>1. PICK u \in 1 .. n : u = (IF i <= p THEN i ELSE i + 1) /\ nm2[i] = nm[u]
    BY <1>6
  <2>2. PICK v \in 1 .. n : v = (IF j <= p THEN j ELSE j + 1) /\ nm2[j] = nm[v]
    BY <1>6
  <2>3. u = v
    BY <1>0, <2>1, <2>2
  <2>4. QED
    BY <2>1, <2>2, <2>3
<1>8. ASSUME NEW x, NEW y, Waits(n, st, en, nm, x, y)
      PROVE  Waits(n - 1, st2, en2, nm2, x, y)
  <2> SUFFICES ASSUME NEW i \in 1 .. n - 1, NEW j \in 1 .. n - 1, nm2[i] = x, nm2[j] = y
               PROVE  i < j /\ (j = i + 1 \/ st2[j - 1] < en2[j - 1])
    BY <1>8 DEF Waits
  <2>1. PICK u \in 1 .. n : u = (IF i <= p THEN i ELSE i + 1) /\ nm2[i] = nm[u]
    BY <1>6
  <2>2. PICK v \in 1 .. n : v = (IF j <= p THEN j ELSE j + 1) /\ nm2[j] = nm[v]
    BY <1>6
  <2>3. u < v /\ (v = u + 1 \/ st[v - 1] < en[v - 1])
    BY <1>8, <2>1, <2>2 DEF Waits
  <2>4. i < j
    BY <2>1, <2>2, <2>3
  <2>5. CASE v = u + 1
    BY <2>1, <2>2, <2>4, <2>5
  <2>6. CASE v # u + 1 /\ v = p + 2
    <3>1. p + 1 \in 1 .. n /\ v - 1 = p + 1 /\ j = p + 1 /\ j - 1 = p /\ p \in 1 .. n - 1
      BY <2>2, <2>6
    <3>2. st2[p] = st[p] /\ en2[p] = en[p + 1]
      BY <3>1
    <3>3. st[p] <= en[p] /\ en[p] <= st[p + 1] /\ st[p + 1] < en[p + 1]
      BY <1>0, <2>3, <2>6, <3>1, SMTT(30)
    <3>4. st[p] \in Nat /\ en[p] \in Nat /\ st[p + 1] \in Nat /\ en[p + 1] \in Nat
      BY <1>0, <3>1
    <3>5. st2[p] < en2[p]
      BY <3>2, <3>3, <3>4
    <3>6. QED
      BY <2>4, <3>1, <3>5
  <2>7. CASE v # u + 1 /\ v # p + 2
    <3>1. v - 1 \in 1 .. n /\ j - 1 \in 1 .. n - 1 /\ v - 1 # p + 1
      BY <2>1, <2>2, <2>3, <2>4, <2>7
    <3>2. CASE j - 1 # p
      <4>1. st2[j - 1] = st[v - 1] /\ en2[j - 1] = en[v - 1]
        BY <2>2, <3>1, <3>2
      <4>2. QED
        BY <2>3, <2>4, <2>7, <4>1
    <3>3. CASE j - 1 = p
      BY <2>2, <2>7, <3>3
    <3>4. QED
      BY <3>2, <3>3
  <2>8. QED
    BY <2>5, <2>6, <2>7
<1>9. QED
  BY <1>1, <1>2, <1>3, <1>4, <1>5, <1>7, <1>8 DEF Spans

\* Shards that are to be merged and that are adjacent are neighbours: the test of the keys
\* is enough, although a shard without a key may have a boundary in common with many.
LEMMA AdjacentAreNeighbours ==
    ASSUME NEW n \in Nat, NEW st, NEW en, NEW nm, Spans(n, st, en, nm), NEW x, NEW y,
           Waits(n, st, en, nm, x, y), NEW i \in 1 .. n, NEW j \in 1 .. n, nm[i] = x, nm[j] = y,
           en[i] = st[j] \/ (en[i] = Top /\ st[j] = 0)
    PROVE  j = i + 1
<1>1. i < j /\ (j = i + 1 \/ st[j - 1] < en[j - 1])
  BY DEF Waits
<1>2. st[i] \in Nat /\ en[i] \in Nat /\ st[j] \in Nat /\ en[i] <= st[j] /\ Top \in Nat /\ Top > 0
  BY <1>1, ShardingAssumption DEF Spans, Top
<1>3. en[i] = st[j]
  BY <1>2
<1>4. ASSUME j # i + 1 PROVE FALSE
  <2>1. j - 1 \in 1 .. n /\ i < j - 1 /\ j - 1 < j
    BY <1>1, <1>4
  <2>2. en[i] <= st[j - 1] /\ en[j - 1] <= st[j] /\ st[j - 1] \in Nat /\ en[j - 1] \in Nat
    BY <2>1 DEF Spans
  <2>3. QED
    BY <1>1, <1>2, <1>3, <1>4, <2>2
<1>5. QED
  BY <1>4

Descriptor == [id : ID, start : Nat, end : Nat, leader : Nat, replica : Nat]
Routing == [pc : {"new", "routed", "redirecting"}, shard : Nat, hint : Nat, attempt : Nat]

Starts == [i \in 1 .. Len(shards) |-> made[shards[i]].start]
Ends == [i \in 1 .. Len(shards) |-> made[shards[i]].end]
Ids == [i \in 1 .. Len(shards) |-> made[shards[i]].id]

\* The shard map: its ranges, its index by id, and the actions that wait.
MapInv ==
    /\ made \in Seq(Descriptor)
    /\ shards \in Seq(1 .. Len(made)) /\ Len(shards) <= Len(made)
    /\ Spans(Len(shards), Starts, Ends, Ids)
    /\ shardsByID \in [ID -> Nat]
    /\ \A i \in 1 .. Len(shards) : shardsByID[Ids[i]] = shards[i]
    /\ \A id \in ID : shardsByID[id] # 0 => \E i \in 1 .. Len(shards) : Ids[i] = id
    /\ \A a \in actions :
         /\ a.id \in ID /\ a.arg \in Nat
         /\ a.type # "split" => a.arg \in ID /\ Waits(Len(shards), Starts, Ends, Ids, a.id, a.arg)
    /\ made = <<>> => shards = <<>> /\ actions = {}

\* The router: unless redirects of a shard overlap, the cache has the last hint or nothing,
\* and the map has it when the redirect is over.
CacheInv ==
    /\ request \in [Request -> Routing]
    /\ \A r \in Request : request[r].pc # "new" => request[r].shard \in 1 .. Len(made)
    /\ leaderCache \in [ID -> Nat] /\ lastHint \in [ID -> Nat] /\ overlap \in [ID -> BOOLEAN]
    /\ made = <<>> => \A id \in ID : lastHint[id] = 0
    /\ \A id \in ID : lastHint[id] # 0 /\ ~overlap[id] =>
         /\ leaderCache[id] = 0 \/ leaderCache[id] = lastHint[id]
         /\ \A r \in Redirecting(id) : request[r].hint = lastHint[id]
         /\ Redirecting(id) = {} /\ shardsByID[id] # 0 => made[shardsByID[id]].leader = lastHint[id]

RouteInv == collided \/ (MapInv /\ CacheInv)

\* What the shard map says of its i-th shard.
LEMMA ShardAt ==
    ASSUME MapInv, NEW i \in 1 .. Len(shards)
    PROVE  /\ shards[i] \in 1 .. Len(made) /\ made[shards[i]] \in Descriptor
           /\ Starts[i] = made[shards[i]].start /\ Ends[i] = made[shards[i]].end /\ Ids[i] = made[shards[i]].id
           /\ Starts[i] \in Nat /\ Ends[i] \in Nat /\ Ids[i] \in ID
<1>1. shards[i] \in 1 .. Len(made) /\ made[shards[i]] \in Descriptor
  BY DEF MapInv
<1>2. QED
  BY <1>1 DEF Starts, Ends, Ids, Descriptor

\* Where a key is looked for.
LEMMA IndexFound ==
    ASSUME MapInv, shards # <<>>, NEW key \in 0 .. Top - 1
    PROVE  /\ IndexOf(key) \in 1 .. Len(shards)
           /\ Starts[IndexOf(key)] <= key /\ key < Ends[IndexOf(key)]
           /\ \A i \in 1 .. Len(shards) : Starts[i] <= key => i <= IndexOf(key)
<1>1. PICK n \in Nat : n = Len(shards) /\ n > 0 /\ DOMAIN shards = 1 .. n
  BY DEF MapInv
<1>2. PICK st, en : st = Starts /\ en = Ends
  OBVIOUS
<1>3. /\ st \in [1 .. n -> Nat] /\ en \in [1 .. n -> Nat] /\ st[1] = 0 /\ en[n] = Top
      /\ \A i \in 1 .. n : i < n => en[i] = st[i + 1]
  BY <1>1, <1>2 DEF MapInv, Spans
<1>4. PICK below : below = {i \in 1 .. n : st[i] <= key}
  OBVIOUS
<1>5. below = {i \in DOMAIN shards : made[shards[i]].start <= key}
  <2>1. \A i \in 1 .. n : st[i] = made[shards[i]].start
    BY <1>1, <1>2 DEF Starts
  <2>2. QED
    BY <1>1, <1>4, <2>1
<1>6. key \in Nat /\ key < Top
  BY ShardingAssumption DEF Top
<1>7. 1 \in below /\ below \in SUBSET (0 .. n)
  BY <1>1, <1>3, <1>4, <1>6
<1>8. PICK m \in below : \A j \in below : j <= m
  BY <1>7, NatMax
<1>9. IndexOf(key) = CHOOSE i \in below : \A j \in below : j <= i
  BY <1>5, <1>7 DEF IndexOf
<1>10. PICK c : c = IndexOf(key)
  OBVIOUS
<1>11. c \in below /\ \A j \in below : j <= c
  BY <1>8, <1>9, <1>10
<1>12. c \in 1 .. n /\ st[c] <= key
  BY <1>4, <1>11
<1>13. key < en[c]
  <2>1. CASE c = n
    BY <1>3, <1>6, <2>1
  <2>2. CASE c # n
    <3>1. c + 1 \in 1 .. n /\ c < n
      BY <1>12, <2>2
    <3>2. c + 1 \notin below
      BY <1>11, <1>12
    <3>3. st[c + 1] \in Nat /\ ~(st[c + 1] <= key) /\ en[c] = st[c + 1]
      BY <1>3, <1>4, <1>12, <3>1, <3>2
    <3>4. QED
      BY <1>6, <3>3
  <2>3. QED
    BY <2>1, <2>2
<1>14. \A i \in 1 .. n : st[i] <= key => i <= c
  BY <1>4, <1>11
<1>15. QED
  BY <1>1, <1>2, <1>10, <1>12, <1>13, <1>14

\* Lookup finds the only shard with the key.
LEMMA LookupFinds ==
    ASSUME MapInv, shards # <<>>, NEW key \in 0 .. Top - 1
    PROVE  /\ Lookup(key) = shards[IndexOf(key)] /\ Lookup(key) \in 1 .. Len(made)
           /\ \A i \in DOMAIN shards : ContainsKey(made[shards[i]], key) <=> Lookup(key) = shards[i]
<1>1. PICK n \in Nat : n = Len(shards) /\ DOMAIN shards = 1 .. n
  BY DEF MapInv
<1>2. PICK st, en : st = Starts /\ en = Ends
  OBVIOUS
<1>3. PICK c \in 1 .. n : /\ c = IndexOf(key) /\ st[c] <= key /\ key < en[c]
                          /\ \A i \in 1 .. n : st[i] <= key => i <= c
  BY <1>1, <1>2, IndexFound
<1>4. \A i \in 1 .. n : ContainsKey(made[shards[i]], key) <=> st[i] <= key /\ key < en[i]
  BY <1>1, <1>2, ShardAt DEF ContainsKey
<1>5. Lookup(key) = shards[c]
  BY <1>3, <1>4 DEF Lookup
<1>6. shards[c] \in 1 .. Len(made)
  BY <1>1, <1>3, ShardAt
<1>7. ASSUME NEW i \in 1 .. n, st[i] <= key, key < en[i] PROVE i = c
  <2>1. i <= c
    BY <1>3, <1>7
  <2>2. ASSUME i < c PROVE FALSE
    <3>1. en[i] <= st[c] /\ en[i] \in Nat /\ st[c] \in Nat
      BY <1>1, <1>2, <1>3, <2>2 DEF MapInv, Spans
    <3>2. key \in Nat
      BY ShardingAssumption DEF Top
    <3>3. QED
      BY <1>3, <1>7, <3>1, <3>2
  <2>3. QED
    BY <2>1, <2>2
<1>8. ASSUME NEW i \in DOMAIN shards PROVE ContainsKey(made[shards[i]], key) <=> Lookup(key) = shards[i]
  <2>1. i \in 1 .. n
    BY <1>1
  <2>2. CASE i = c
    BY <1>3, <1>4, <1>5, <2>2
  <2>3. CASE i # c
    <3>1. ~ContainsKey(made[shards[i]], key)
      BY <1>4, <1>7, <2>1, <2>3
    <3>2. ContainsKey(made[shards[c]], key)
      BY <1>3, <1>4
    <3>3. shards[c] # shards[i]
      BY <3>1, <3>2
    <3>4. QED
      BY <1>5, <3>1, <3>3
  <2>4. QED
    BY <2>2, <2>3
<1>9. QED
  BY <1>3, <1>5, <1>6, <1>8

\* A scan asks every shard that has one of its keys.
LEMMA RangeFound ==
    ASSUME MapInv, shards # <<>>, NEW startKey \in 0 .. Top - 1, NEW endKey \in startKey + 1 .. Top,
           NEW key \in startKey .. endKey - 1
    PROVE  Lookup(key) \in LookupRange(startKey, endKey)
<1>0. Top \in Nat /\ startKey \in Nat /\ endKey \in Nat /\ key \in Nat /\ startKey <= key /\ key < endKey
      /\ endKey <= Top
  BY ShardingAssumption DEF Top
<1>1. key \in 0 .. Top - 1
  BY <1>0
<1>2. PICK n \in Nat : n = Len(shards)
  BY DEF MapInv
<1>3. PICK st, en : st = Starts /\ en = Ends
  OBVIOUS
<1>4. PICK c \in 1 .. n : c = IndexOf(key) /\ st[c] <= key /\ \A i \in 1 .. n : st[i] <= key => i <= c
  BY <1>1, <1>2, <1>3, IndexFound
<1>5. PICK f \in 1 .. n : f = IndexOf(startKey) /\ st[f] <= startKey
  BY <1>2, <1>3, IndexFound
<1>6. st \in [1 .. n -> Nat] /\ en \in [1 .. n -> Nat] /\ (\A i \in 1 .. n : st[i] <= en[i])
      /\ (\A i, j \in 1 .. n : i < j => en[i] <= st[j])
  BY <1>2, <1>3 DEF MapInv, Spans
<1>7. f <= c
  <2>1. st[f] <= key
    BY <1>0, <1>5, <1>6
  <2>2. QED
    BY <1>4, <2>1
<1>8. ASSUME NEW k \in f .. c PROVE ~Beyond(made[shards[k]], endKey)
  <2>1. k \in 1 .. n
    BY <1>4, <1>5
  <2>2. st[k] <= key
    <3>1. CASE k = c
      BY <1>4, <3>1
    <3>2. CASE k # c
      <4>1. k < c
        BY <1>4, <3>2
      <4>2. st[k] <= en[k] /\ en[k] <= st[c] /\ st[k] \in Nat /\ en[k] \in Nat /\ st[c] \in Nat
        BY <1>6, <2>1, <4>1
      <4>3. QED
        BY <1>0, <1>4, <4>2
    <3>3. QED
      BY <3>1, <3>2
  <2>3. st[k] = made[shards[k]].start /\ st[k] \in Nat
    BY <1>2, <1>3, <2>1, ShardAt
  <2>4. QED
    BY <1>0, <2>2, <2>3 DEF Beyond
<1>9. Lookup(key) = shards[c]
  BY <1>1, <1>4, LookupFinds
<1>10. c \in f .. Len(shards)
  BY <1>2, <1>4, <1>5, <1>7
<1>11. QED
  BY <1>5, <1>8, <1>9, <1>10 DEF LookupRange

\* The split of a shard keeps the map in order.
LEMMA SplitKeepsMap ==
    ASSUME MapInv, NEW a \in actions, Split(a), ~collided'
    PROVE  /\ MapInv'
           /\ made # <<>> /\ Len(made') = Len(made) + 1 /\ Len(shards) \in ID
           /\ \A k \in 1 .. Len(made) : made'[k].id = made[k].id /\ made'[k].leader = made[k].leader
           /\ \A id \in ID : id # Len(shards) => shardsByID'[id] = shardsByID[id]
<1>0. PICK n \in Nat, t \in Nat : n = Len(shards) /\ t = Len(made)
  BY DEF MapInv
<1>1. PICK m, s, b : m = made /\ s = shards /\ b = shardsByID /\ n = Len(s) /\ t = Len(m)
  BY <1>0
<1>2. /\ m \in Seq(Descriptor) /\ s \in Seq(1 .. t) /\ n \in Nat /\ t \in Nat /\ n <= t /\ b \in [ID -> Nat]
  BY <1>1 DEF MapInv
<1>3. PICK st, en, nm : st = Starts /\ en = Ends /\ nm = Ids
  OBVIOUS
<1>4. /\ Spans(n, st, en, nm)
      /\ \A i \in 1 .. n : /\ s[i] \in 1 .. t /\ m[s[i]] \in Descriptor
                           /\ st[i] = m[s[i]].start /\ en[i] = m[s[i]].end /\ nm[i] = m[s[i]].id
                           /\ st[i] \in Nat /\ en[i] \in Nat /\ nm[i] \in ID /\ b[nm[i]] = s[i]
  <2>1. Spans(n, st, en, nm) /\ \A i \in 1 .. n : b[nm[i]] = s[i]
    BY <1>1, <1>3 DEF MapInv
  <2>2. ASSUME NEW i \in 1 .. n
        PROVE  /\ s[i] \in 1 .. t /\ m[s[i]] \in Descriptor
               /\ st[i] = m[s[i]].start /\ en[i] = m[s[i]].end /\ nm[i] = m[s[i]].id
               /\ st[i] \in Nat /\ en[i] \in Nat /\ nm[i] \in ID
    BY <1>1, <1>3, ShardAt
  <2>3. QED
    BY <2>1, <2>2
<1>5. PICK x, key : x = a.id /\ key = a.arg
  OBVIOUS
<1>6. x \in ID /\ key \in Nat
  BY <1>5 DEF MapInv
<1>7. b[x] # 0 /\ ContainsKey(m[b[x]], key) /\ t < MaxShards
  BY <1>1, <1>5 DEF Split
<1>8. PICK p \in 1 .. n : nm[p] = x
  BY <1>1, <1>3, <1>6, <1>7 DEF MapInv
<1>9. s[p] = b[x] /\ st[p] <= key /\ key < en[p]
  BY <1>4, <1>7, <1>8 DEF ContainsKey
<1>10. n \in ID /\ n # 0
  BY <1>2, <1>7, ShardingAssumption DEF ID
<1>11. b[n] = 0 /\ \A w \in actions : n \notin Names(w)
  BY <1>1 DEF Split
<1>12. \A i \in 1 .. n : nm[i] # n
  BY <1>2, <1>4, <1>11
<1>13. PICK new \in Descriptor : /\ new = [id |-> n, start |-> key, end |-> en[p], leader |-> 0,
                                           replica |-> (n % NodeCount) + 1]
  <2>1. (n % NodeCount) + 1 \in Nat
    BY <1>2, ShardingAssumption
  <2>2. QED
    BY <1>4, <1>6, <1>10, <2>1 DEF Descriptor
<1>14. PICK m1 : m1 = [m EXCEPT ![s[p]].end = key]
  OBVIOUS
<1>15. PICK m2 : m2 = Append(m1, new)
  OBVIOUS
<1>16. /\ m1 \in Seq(Descriptor) /\ Len(m1) = t
       /\ \A k \in 1 .. t : /\ m1[k].id = m[k].id /\ m1[k].leader = m[k].leader /\ m1[k].start = m[k].start
                            /\ m1[k].end = IF k = s[p] THEN key ELSE m[k].end
  <2>1. s[p] \in 1 .. t /\ m[s[p]] \in Descriptor /\ Len(m) = t
    BY <1>1, <1>4
  <2>2. m1 = [k \in 1 .. t |-> IF k = s[p] THEN [m[k] EXCEPT !.end = key] ELSE m[k]]
    <3>1. PICK o : o = s[p]
      OBVIOUS
    <3>2. DOMAIN m = 1 .. t
      BY <1>2, <2>1
    <3>3. m1 = [k \in DOMAIN m |-> IF k = o THEN [m[k] EXCEPT !.end = key] ELSE m[k]]
      BY <1>14, <2>1, <3>1, <3>2
    <3>4. QED
      BY <3>1, <3>2, <3>3
  <2>3. ASSUME NEW k \in 1 .. t
        PROVE  /\ m1[k] \in Descriptor
               /\ m1[k].id = m[k].id /\ m1[k].leader = m[k].leader /\ m1[k].start = m[k].start
               /\ m1[k].end = IF k = s[p] THEN key ELSE m[k].end
    <3>1. m[k] \in Descriptor
      BY <1>2, <2>1
    <3>2. m1[k] = IF k = s[p] THEN [m[k] EXCEPT !.end = key] ELSE m[k]
      BY <2>2
    <3>3. QED
      BY <1>6, <3>1, <3>2 DEF Descriptor
  <2>4. m1 \in Seq(Descriptor) /\ Len(m1) = t
    <3>1. m1 = [k \in 1 .. t |-> m1[k]]
      BY <2>2
    <3>2. m1 \in [1 .. t -> Descriptor]
      BY <2>3, <3>1
    <3>3. QED
      BY ONLY t \in Nat, <3>2
  <2>5. QED
    BY <2>3, <2>4
<1>17. /\ m2 \in Seq(Descriptor) /\ Len(m2) = t + 1 /\ m2[t + 1] = new
       /\ \A k \in 1 .. t : m2[k] = m1[k]
  BY <1>15, <1>16
<1>18. made' = m2
  <2>1. made' = Append([m EXCEPT ![b[x]].end = key],
                       [id |-> n, start |-> key, end |-> m[b[x]].end, leader |-> 0,
                        replica |-> (n % NodeCount) + 1])
    BY <1>1, <1>5 DEF Split
  <2>2. m[b[x]].end = en[p] /\ b[x] = s[p]
    BY <1>4, <1>9
  <2>3. QED
    BY <1>13, <1>14, <1>15, <2>1, <2>2
<1>19. Cardinality({i \in DOMAIN s : m[s[i]].start <= key}) = p
  <2>1. ASSUME NEW i \in 1 .. n PROVE m[s[i]].start <= key <=> i <= p
    <3>1. st[i] = m[s[i]].start /\ st[i] \in Nat /\ st[p] \in Nat /\ en[i] \in Nat /\ en[p] \in Nat
      BY <1>4
    <3>2. /\ st[i] <= en[i]
          /\ i < p => en[i] <= st[p]
          /\ p < i => en[p] <= st[i]
      BY <1>4 DEF Spans
    <3>3. QED
      BY <1>6, <1>9, <3>1, <3>2
  <2>2. {i \in DOMAIN s : m[s[i]].start <= key} = 1 .. p
    BY <1>1, <1>2, <2>1
  <2>3. 1 \in Int /\ p \in Int
    OBVIOUS
  <2>4. Cardinality(1 .. p) = p
    BY <2>3, FS_Interval
  <2>5. QED
    BY <2>2, <2>4
<1>20. PICK s2 : s2 = Wedge(s, p, t + 1)
  OBVIOUS
<1>21. shards' = s2 /\ s2 \in Seq(1 .. t + 1) /\ Len(s2) = n + 1
  <2>1. PICK U : U = 1 .. t + 1
    OBVIOUS
  <2>2. s \in Seq(U) /\ t + 1 \in U
    BY <1>2, <2>1
  <2>3. p \in 1 .. Len(s)
    BY <1>1
  <2>4. /\ SubSeq(s, 1, p) \o <<t + 1>> \o SubSeq(s, p + 1, Len(s)) = s2
        /\ s2 \in Seq(U) /\ Len(s2) = n + 1
    <3>1. PICK e \in U : e = t + 1
      BY <2>2
    <3>2. /\ SubSeq(s, 1, p) \o <<e>> \o SubSeq(s, p + 1, Len(s)) = Wedge(s, p, e)
          /\ Wedge(s, p, e) \in Seq(U) /\ Len(Wedge(s, p, e)) = Len(s) + 1
      BY <2>2, <2>3, WedgeIs, ZenonT(40)
    <3>3. QED
      BY <1>1, <1>20, <3>1, <3>2
  <2>5. shards' = SubSeq(s, 1, p) \o <<t + 1>> \o SubSeq(s, p + 1, Len(s))
    BY <1>1, <1>5, <1>19 DEF Split
  <2>6. QED
    BY <2>1, <2>4, <2>5
<1>22. \A i \in 1 .. n + 1 : s2[i] = IF i <= p THEN s[i] ELSE IF i = p + 1 THEN t + 1 ELSE s[i - 1]
  BY <1>1, <1>20 DEF Wedge
<1>23. PICK st2, en2, nm2 :
         /\ st2 = [i \in 1 .. n + 1 |-> IF i <= p THEN st[i] ELSE IF i = p + 1 THEN key ELSE st[i - 1]]
         /\ en2 = [i \in 1 .. n + 1 |-> IF i < p THEN en[i] ELSE IF i = p THEN key ELSE en[i - 1]]
         /\ nm2 = [i \in 1 .. n + 1 |-> IF i <= p THEN nm[i] ELSE IF i = p + 1 THEN n ELSE nm[i - 1]]
  OBVIOUS
<1>24. \A i \in 1 .. n + 1 : /\ m2[s2[i]].start = st2[i] /\ m2[s2[i]].end = en2[i] /\ m2[s2[i]].id = nm2[i]
  <2>1. ASSUME NEW i \in 1 .. n
        PROVE  /\ m2[s[i]].start = st[i] /\ m2[s[i]].id = nm[i]
               /\ m2[s[i]].end = IF i = p THEN key ELSE en[i]
    <3>1. s[i] \in 1 .. t /\ m2[s[i]] = m1[s[i]]
      BY <1>4, <1>17
    <3>2. m2[s[i]].start = st[i] /\ m2[s[i]].id = nm[i]
          /\ m2[s[i]].end = IF s[i] = s[p] THEN key ELSE en[i]
      BY <1>4, <1>16, <3>1, SMTT(30)
    <3>3. s[i] = s[p] <=> i = p
      <4>1. s[i] = s[p] => nm[i] = nm[p]
        BY <1>4
      <4>2. nm[i] = nm[p] => i = p
        BY <1>4 DEF Spans
      <4>3. QED
        BY <4>1, <4>2
    <3>4. QED
      BY <3>2, <3>3
  <2> SUFFICES ASSUME NEW i \in 1 .. n + 1
               PROVE  m2[s2[i]].start = st2[i] /\ m2[s2[i]].end = en2[i] /\ m2[s2[i]].id = nm2[i]
    OBVIOUS
  <2>2. CASE i <= p
    <3>1. i \in 1 .. n /\ s2[i] = s[i] /\ st2[i] = st[i] /\ nm2[i] = nm[i]
          /\ en2[i] = IF i = p THEN key ELSE en[i]
      BY <1>22, <1>23, <2>2
    <3>2. QED
      BY <2>1, <3>1
  <2>3. CASE i = p + 1
    <3>1. s2[i] = t + 1 /\ st2[i] = key /\ nm2[i] = n /\ en2[i] = en[p]
      BY <1>22, <1>23, <2>3
    <3>2. QED
      BY <1>13, <1>17, <3>1
  <2>4. CASE i > p + 1
    <3>1. PICK j \in 1 .. n : j = i - 1 /\ j # p
      BY <2>4
    <3>2. s2[i] = s[j] /\ st2[i] = st[j] /\ nm2[i] = nm[j] /\ en2[i] = en[j]
      BY <1>22, <1>23, <2>4, <3>1
    <3>3. QED
      BY <2>1, <3>1, <3>2
  <2>5. QED
    BY <2>2, <2>3, <2>4
<1>25. Starts' = st2 /\ Ends' = en2 /\ Ids' = nm2
  BY <1>18, <1>21, <1>23, <1>24 DEF Starts, Ends, Ids
<1>26. /\ Spans(n + 1, st2, en2, nm2)
       /\ \A u, v : u # n /\ v # n /\ Waits(n, st, en, nm, u, v) => Waits(n + 1, st2, en2, nm2, u, v)
  <2>1. IsSplit(n, st, en, nm, p, key, n, st2, en2, nm2)
    BY <1>6, <1>9, <1>10, <1>12, <1>23 DEF IsSplit
  <2>2. QED
    BY <1>2, <1>4, <2>1, SplitSpans
<1>27. shardsByID' = [b EXCEPT ![n] = t + 1]
  BY <1>1 DEF Split
<1>28. /\ shardsByID' \in [ID -> Nat] /\ shardsByID'[n] = t + 1
       /\ \A id \in ID : id # n => shardsByID'[id] = b[id]
  BY <1>2, <1>10, <1>27
<1>29. \A i \in 1 .. n + 1 : shardsByID'[nm2[i]] = s2[i]
  <2> SUFFICES ASSUME NEW i \in 1 .. n + 1 PROVE shardsByID'[nm2[i]] = s2[i]
    OBVIOUS
  <2>1. CASE i = p + 1
    BY <1>22, <1>23, <1>28, <2>1
  <2>2. CASE i # p + 1
    <3>1. PICK j \in 1 .. n : s2[i] = s[j] /\ nm2[i] = nm[j]
      <4>1. PICK j \in 1 .. n : j = IF i <= p THEN i ELSE i - 1
        BY <2>2
      <4>2. s2[i] = s[j] /\ nm2[i] = nm[j]
        BY <1>22, <1>23, <2>2, <4>1
      <4>3. QED
        BY <4>2
    <3>2. nm[j] \in ID /\ nm[j] # n /\ b[nm[j]] = s[j]
      BY <1>4, <1>12
    <3>3. QED
      BY <1>28, <3>1, <3>2
  <2>3. QED
    BY <2>1, <2>2
<1>30. \A id \in ID : shardsByID'[id] # 0 => \E i \in 1 .. n + 1 : nm2[i] = id
  <2> SUFFICES ASSUME NEW id \in ID, shardsByID'[id] # 0 PROVE \E i \in 1 .. n + 1 : nm2[i] = id
    OBVIOUS
  <2>1. CASE id = n
    <3>1. p + 1 \in 1 .. n + 1 /\ nm2[p + 1] = n
      BY <1>23
    <3>2. QED
      BY <2>1, <3>1
  <2>2. CASE id # n
    <3>1. PICK j \in 1 .. n : nm[j] = id
      BY <1>1, <1>3, <1>28, <2>2 DEF MapInv
    <3>2. \E i \in 1 .. n + 1 : nm2[i] = nm[j]
      <4>1. CASE j <= p
        <5>1. j \in 1 .. n + 1 /\ nm2[j] = nm[j]
          BY <1>23, <4>1
        <5>2. QED
          BY <5>1
      <4>2. CASE j > p
        <5>1. j + 1 \in 1 .. n + 1 /\ nm2[j + 1] = nm[j]
          BY <1>23, <4>2
        <5>2. QED
          BY <5>1
      <4>3. QED
        BY <4>1, <4>2
    <3>3. QED
      BY <3>1, <3>2
  <2>3. QED
    BY <2>1, <2>2
<1>31. ASSUME NEW w \in actions'
       PROVE  /\ w.id \in ID /\ w.arg \in Nat
              /\ w.type # "split" => w.arg \in ID /\ Waits(n + 1, st2, en2, nm2, w.id, w.arg)
  <2>1. w \in actions
    BY <1>31 DEF Split, TakeAction
  <2>2. /\ w.id \in ID /\ w.arg \in Nat
        /\ w.type # "split" => w.arg \in ID /\ Waits(n, st, en, nm, w.id, w.arg)
    BY <1>1, <1>3, <2>1 DEF MapInv
  <2>3. w.type # "split" => w.id # n /\ w.arg # n
    BY <1>11, <2>1 DEF Names
  <2>4. QED
    BY <1>26, <2>2, <2>3
<1>32. made' # <<>> /\ made # <<>>
  BY <1>2, <1>1, <1>8, <1>17, <1>18
<1>33. Len(shards') = n + 1 /\ Len(made') = t + 1 /\ n + 1 <= t + 1
  BY <1>2, <1>17, <1>18, <1>21
<1>34. /\ Spans(Len(shards'), Starts', Ends', Ids')
       /\ \A w \in actions' : /\ w.id \in ID /\ w.arg \in Nat
                              /\ w.type # "split" => /\ w.arg \in ID
                                                     /\ Waits(Len(shards'), Starts', Ends', Ids', w.id, w.arg)
  BY <1>25, <1>26, <1>31, <1>33
<1>35. MapInv'
  <2>1. made' \in Seq(Descriptor) /\ shards' \in Seq(1 .. Len(made')) /\ Len(shards') <= Len(made')
    BY <1>17, <1>18, <1>21, <1>33
  <2>2. /\ \A i \in 1 .. Len(shards') : shardsByID'[Ids'[i]] = shards'[i]
        /\ \A id \in ID : shardsByID'[id] # 0 => \E i \in 1 .. Len(shards') : Ids'[i] = id
    BY <1>21, <1>25, <1>29, <1>30, <1>33
  <2>3. Descriptor' = Descriptor /\ ID' = ID
    BY DEF Descriptor, ID
  <2>4. QED
    BY <1>28, <1>32, <1>34, <2>1, <2>2 DEF MapInv
<1>36. \A k \in 1 .. t : made'[k].id = m[k].id /\ made'[k].leader = m[k].leader
  BY <1>16, <1>17, <1>18
<1>37. QED
  BY <1>1, <1>10, <1>28, <1>32, <1>33, <1>35, <1>36

\* The merge of two shards keeps the map in order.
LEMMA MergeKeepsMap ==
    ASSUME MapInv, NEW a \in actions, a.type # "split", Merge(a)
    PROVE  /\ MapInv'
           /\ made # <<>> /\ Len(made') = Len(made)
           /\ \A k \in 1 .. Len(made) : made'[k].id = made[k].id /\ made'[k].leader = made[k].leader
           /\ \A id \in ID : shardsByID'[id] = 0 \/ shardsByID'[id] = shardsByID[id]
<1>0. PICK n \in Nat, t \in Nat : n = Len(shards) /\ t = Len(made)
  BY DEF MapInv
<1>1. PICK m, s, b : m = made /\ s = shards /\ b = shardsByID /\ n = Len(s) /\ t = Len(m)
  BY <1>0
<1>2. /\ m \in Seq(Descriptor) /\ s \in Seq(1 .. t) /\ n <= t /\ b \in [ID -> Nat]
  BY <1>1 DEF MapInv
<1>3. PICK st, en, nm : st = Starts /\ en = Ends /\ nm = Ids
  OBVIOUS
<1>4. /\ Spans(n, st, en, nm)
      /\ \A i \in 1 .. n : /\ s[i] \in 1 .. t /\ m[s[i]] \in Descriptor
                           /\ st[i] = m[s[i]].start /\ en[i] = m[s[i]].end /\ nm[i] = m[s[i]].id
                           /\ st[i] \in Nat /\ en[i] \in Nat /\ nm[i] \in ID /\ b[nm[i]] = s[i]
  <2>1. Spans(n, st, en, nm) /\ \A i \in 1 .. n : b[nm[i]] = s[i]
    BY <1>1, <1>3 DEF MapInv
  <2>2. ASSUME NEW i \in 1 .. n
        PROVE  /\ s[i] \in 1 .. t /\ m[s[i]] \in Descriptor
               /\ st[i] = m[s[i]].start /\ en[i] = m[s[i]].end /\ nm[i] = m[s[i]].id
               /\ st[i] \in Nat /\ en[i] \in Nat /\ nm[i] \in ID
    BY <1>1, <1>3, ShardAt
  <2>3. QED
    BY <2>1, <2>2
<1>5. PICK x, y : x = a.id /\ y = a.arg
  OBVIOUS
<1>6. x \in ID /\ y \in ID /\ Waits(n, st, en, nm, x, y)
  BY <1>1, <1>3, <1>5 DEF MapInv
<1>7. b[x] # 0 /\ b[y] # 0 /\ Adjacent(b[x], b[y])
  BY <1>1, <1>5 DEF Merge
<1>8. PICK p \in 1 .. n, q \in 1 .. n : nm[p] = x /\ nm[q] = y
  BY <1>1, <1>3, <1>6, <1>7 DEF MapInv
<1>9. s[p] = b[x] /\ s[q] = b[y]
  BY <1>4, <1>8
<1>10. q = p + 1 /\ p < n
  <2>1. en[p] = st[q] \/ (en[p] = Top /\ st[q] = 0)
    BY <1>1, <1>4, <1>7, <1>9 DEF Adjacent
  <2>2. q = p + 1
    BY <1>4, <1>6, <1>8, <2>1, AdjacentAreNeighbours
  <2>3. QED
    BY <2>2
<1>11. PICK m2 : m2 = [m EXCEPT ![s[p]].end = en[q]]
  OBVIOUS
<1>12. made' = m2
  <2>1. made' = [m EXCEPT ![b[x]].end = m[b[y]].end]
    BY <1>1, <1>5 DEF Merge
  <2>2. m[b[y]].end = en[q] /\ b[x] = s[p]
    BY <1>4, <1>9
  <2>3. QED
    BY <1>11, <2>1, <2>2
<1>13. /\ m2 \in Seq(Descriptor) /\ Len(m2) = t
       /\ \A k \in 1 .. t : /\ m2[k].id = m[k].id /\ m2[k].leader = m[k].leader /\ m2[k].start = m[k].start
                            /\ m2[k].end = IF k = s[p] THEN en[q] ELSE m[k].end
  <2>1. s[p] \in 1 .. t /\ m[s[p]] \in Descriptor /\ Len(m) = t /\ en[q] \in Nat
    BY <1>1, <1>4
  <2>2. m2 = [k \in 1 .. t |-> IF k = s[p] THEN [m[k] EXCEPT !.end = en[q]] ELSE m[k]]
    <3>1. PICK o, e : o = s[p] /\ e = en[q]
      OBVIOUS
    <3>2. DOMAIN m = 1 .. t
      BY <1>2, <2>1
    <3>3. m2 = [k \in DOMAIN m |-> IF k = o THEN [m[k] EXCEPT !.end = e] ELSE m[k]]
      BY <1>11, <2>1, <3>1, <3>2
    <3>4. QED
      BY <3>1, <3>2, <3>3
  <2>3. ASSUME NEW k \in 1 .. t
        PROVE  /\ m2[k] \in Descriptor
               /\ m2[k].id = m[k].id /\ m2[k].leader = m[k].leader /\ m2[k].start = m[k].start
               /\ m2[k].end = IF k = s[p] THEN en[q] ELSE m[k].end
    <3>1. m[k] \in Descriptor
      BY <1>2, <2>1
    <3>2. m2[k] = IF k = s[p] THEN [m[k] EXCEPT !.end = en[q]] ELSE m[k]
      BY <2>2
    <3>3. QED
      BY <2>1, <3>1, <3>2 DEF Descriptor
  <2>4. m2 \in Seq(Descriptor) /\ Len(m2) = t
    <3>1. m2 = [k \in 1 .. t |-> m2[k]]
      BY <2>2
    <3>2. m2 \in [1 .. t -> Descriptor]
      BY <2>3, <3>1
    <3>3. QED
      BY ONLY t \in Nat, <3>2
  <2>5. QED
    BY <2>3, <2>4
<1>14. PICK s2 : s2 = Cut(s, q)
  OBVIOUS
<1>15. shards' = s2 /\ s2 \in Seq(1 .. t) /\ Len(s2) = n - 1
  <2>1. PICK gone : gone = {k \in DOMAIN m : m[k].id = y}
    OBVIOUS
  <2>2. \A i \in 1 .. n : s[i] \in gone <=> i = q
    <3>1. \A i \in 1 .. n : s[i] \in DOMAIN m
      BY <1>1, <1>2, <1>4
    <3>2. \A i \in 1 .. n : nm[i] = y <=> i = q
      BY <1>4, <1>8 DEF Spans
    <3>3. QED
      BY <1>4, <2>1, <3>1, <3>2
  <2>3. PICK U : U = 1 .. t
    OBVIOUS
  <2>4. s \in Seq(U) /\ q \in 1 .. Len(s) /\ \A i \in 1 .. Len(s) : s[i] \in gone <=> i = q
    BY <1>1, <1>2, <2>2, <2>3
  <2>5. Without(s, gone) = s2 /\ s2 \in Seq(U) /\ Len(s2) = Len(s) - 1
    BY <1>14, <2>4, WithoutOne
  <2>6. shards' = Without(s, gone)
    BY <1>1, <1>5, <2>1 DEF Merge
  <2>7. QED
    BY <1>1, <2>3, <2>5, <2>6
<1>16. \A i \in 1 .. n - 1 : s2[i] = IF i <= p THEN s[i] ELSE s[i + 1]
  BY <1>1, <1>10, <1>14 DEF Cut
<1>17. PICK st2, en2, nm2 :
         /\ st2 = [i \in 1 .. n - 1 |-> IF i <= p THEN st[i] ELSE st[i + 1]]
         /\ en2 = [i \in 1 .. n - 1 |-> IF i < p THEN en[i] ELSE en[i + 1]]
         /\ nm2 = [i \in 1 .. n - 1 |-> IF i <= p THEN nm[i] ELSE nm[i + 1]]
  OBVIOUS
<1>18. \A i \in 1 .. n - 1 : m2[s2[i]].start = st2[i] /\ m2[s2[i]].end = en2[i] /\ m2[s2[i]].id = nm2[i]
  <2>1. ASSUME NEW i \in 1 .. n
        PROVE  /\ m2[s[i]].start = st[i] /\ m2[s[i]].id = nm[i]
               /\ m2[s[i]].end = IF i = p THEN en[q] ELSE en[i]
    <3>1. m2[s[i]].start = st[i] /\ m2[s[i]].id = nm[i]
          /\ m2[s[i]].end = IF s[i] = s[p] THEN en[q] ELSE en[i]
      BY <1>4, <1>13, ZenonT(40)
    <3>2. s[i] = s[p] <=> i = p
      <4>1. s[i] = s[p] => nm[i] = nm[p]
        BY <1>4
      <4>2. nm[i] = nm[p] => i = p
        BY <1>4 DEF Spans
      <4>3. QED
        BY <4>1, <4>2
    <3>3. QED
      BY <3>1, <3>2
  <2> SUFFICES ASSUME NEW i \in 1 .. n - 1
               PROVE  m2[s2[i]].start = st2[i] /\ m2[s2[i]].end = en2[i] /\ m2[s2[i]].id = nm2[i]
    OBVIOUS
  <2>2. CASE i <= p
    <3>1. i \in 1 .. n /\ s2[i] = s[i] /\ st2[i] = st[i] /\ nm2[i] = nm[i]
          /\ en2[i] = IF i = p THEN en[q] ELSE en[i]
      BY <1>10, <1>16, <1>17, <2>2
    <3>2. QED
      BY <2>1, <3>1
  <2>3. CASE i > p
    <3>1. PICK j \in 1 .. n : j = i + 1 /\ j # p
      BY <2>3
    <3>2. s2[i] = s[j] /\ st2[i] = st[j] /\ nm2[i] = nm[j] /\ en2[i] = en[j]
      BY <1>16, <1>17, <2>3, <3>1
    <3>3. QED
      BY <2>1, <3>1, <3>2
  <2>4. QED
    BY <2>2, <2>3
<1>19. Starts' = st2 /\ Ends' = en2 /\ Ids' = nm2
  BY <1>12, <1>15, <1>17, <1>18 DEF Starts, Ends, Ids
<1>20. /\ Spans(n - 1, st2, en2, nm2)
       /\ \A u, v : Waits(n, st, en, nm, u, v) => Waits(n - 1, st2, en2, nm2, u, v)
  <2>1. IsMerge(n, st, en, nm, p, st2, en2, nm2)
    BY <1>10, <1>17 DEF IsMerge
  <2>2. QED
    BY <1>4, <2>1, MergeSpans
<1>21. shardsByID' = [b EXCEPT ![y] = 0]
  BY <1>1, <1>5 DEF Merge
<1>22. /\ shardsByID' \in [ID -> Nat] /\ shardsByID'[y] = 0
       /\ \A id \in ID : id # y => shardsByID'[id] = b[id]
  BY <1>2, <1>6, <1>21
<1>23. \A i \in 1 .. n - 1 : \E j \in 1 .. n : /\ j = (IF i <= p THEN i ELSE i + 1) /\ j # q
                                               /\ s2[i] = s[j] /\ nm2[i] = nm[j]
  <2> SUFFICES ASSUME NEW i \in 1 .. n - 1
               PROVE  \E j \in 1 .. n : /\ j = (IF i <= p THEN i ELSE i + 1) /\ j # q
                                        /\ s2[i] = s[j] /\ nm2[i] = nm[j]
    OBVIOUS
  <2>1. PICK j \in 1 .. n : j = (IF i <= p THEN i ELSE i + 1) /\ j # q
    BY <1>10
  <2>2. s2[i] = s[j] /\ nm2[i] = nm[j]
    BY <1>16, <1>17, <2>1
  <2>3. QED
    BY <2>1, <2>2
<1>24. \A i \in 1 .. n - 1 : shardsByID'[nm2[i]] = s2[i]
  <2> SUFFICES ASSUME NEW i \in 1 .. n - 1 PROVE shardsByID'[nm2[i]] = s2[i]
    OBVIOUS
  <2>1. PICK j \in 1 .. n : j # q /\ s2[i] = s[j] /\ nm2[i] = nm[j]
    BY <1>23
  <2>2. nm[j] # y /\ nm[j] \in ID /\ b[nm[j]] = s[j]
    BY <1>4, <1>8, <2>1 DEF Spans
  <2>3. QED
    BY <1>22, <2>1, <2>2
<1>25. \A id \in ID : shardsByID'[id] # 0 => \E i \in 1 .. n - 1 : nm2[i] = id
  <2> SUFFICES ASSUME NEW id \in ID, shardsByID'[id] # 0 PROVE \E i \in 1 .. n - 1 : nm2[i] = id
    OBVIOUS
  <2>1. id # y /\ b[id] # 0
    BY <1>22
  <2>2. PICK j \in 1 .. n : nm[j] = id
    BY <1>1, <1>3, <2>1 DEF MapInv
  <2>3. j # q
    BY <1>8, <2>1, <2>2
  <2>4. PICK i \in 1 .. n - 1 : i = IF j <= p THEN j ELSE j - 1
    BY <1>10, <2>3
  <2>5. nm2[i] = nm[j]
    BY <1>10, <1>17, <2>3, <2>4
  <2>6. QED
    BY <2>2, <2>5
<1>26. ASSUME NEW w \in actions'
       PROVE  /\ w.id \in ID /\ w.arg \in Nat
              /\ w.type # "split" => w.arg \in ID /\ Waits(n - 1, st2, en2, nm2, w.id, w.arg)
  <2>1. w \in actions
    BY <1>26 DEF Merge, TakeAction
  <2>2. /\ w.id \in ID /\ w.arg \in Nat
        /\ w.type # "split" => w.arg \in ID /\ Waits(n, st, en, nm, w.id, w.arg)
    BY <1>1, <1>3, <2>1 DEF MapInv
  <2>3. QED
    BY <1>20, <2>2
<1>27. t # 0 /\ made # <<>> /\ made' # <<>>
  BY <1>1, <1>2, <1>8, <1>12, <1>13
<1>28. Len(shards') = n - 1 /\ Len(made') = t /\ n - 1 <= t
  BY <1>2, <1>12, <1>13, <1>15
<1>29. /\ Spans(Len(shards'), Starts', Ends', Ids')
       /\ \A w \in actions' : /\ w.id \in ID /\ w.arg \in Nat
                              /\ w.type # "split" => /\ w.arg \in ID
                                                     /\ Waits(Len(shards'), Starts', Ends', Ids', w.id, w.arg)
  BY <1>19, <1>20, <1>26, <1>28
<1>30. MapInv'
  <2>1. made' \in Seq(Descriptor) /\ shards' \in Seq(1 .. Len(made')) /\ Len(shards') <= Len(made')
    BY <1>12, <1>13, <1>15, <1>28
  <2>2. /\ \A i \in 1 .. Len(shards') : shardsByID'[Ids'[i]] = shards'[i]
        /\ \A id \in ID : shardsByID'[id] # 0 => \E i \in 1 .. Len(shards') : Ids'[i] = id
    BY <1>15, <1>19, <1>24, <1>25, <1>28
  <2>3. QED
    BY <1>22, <1>27, <1>29, <2>1, <2>2 DEF MapInv
<1>31. \A k \in 1 .. t : made'[k].id = m[k].id /\ made'[k].leader = m[k].leader
  BY <1>12, <1>13
<1>32. QED
  BY <1>1, <1>22, <1>27, <1>28, <1>30, <1>31

\* The rebalancer asks for what the map allows.
LEMMA EvaluateKeepsMap ==
    ASSUME MapInv, NEW i \in DOMAIN shards, EvaluateSplit(i) \/ EvaluateMerge(i)
    PROVE  MapInv'
<1>1. PICK n \in Nat : n = Len(shards) /\ DOMAIN shards = 1 .. n
  BY DEF MapInv
<1>2. UNCHANGED <<made, shards, shardsByID>>
  BY DEF EvaluateSplit, EvaluateMerge, shardMapVars
<1>3. PICK st, en, nm : st = Starts /\ en = Ends /\ nm = Ids /\ st = Starts' /\ en = Ends' /\ nm = Ids'
  BY <1>2 DEF Starts, Ends, Ids
<1>4. made # <<>>
  BY <1>1 DEF MapInv
<1>5. Spans(n, st, en, nm) /\ \A j \in 1 .. n : /\ made[shards[j]] \in Descriptor
                                                /\ nm[j] = made[shards[j]].id /\ nm[j] \in ID
  BY <1>1, <1>3, ShardAt DEF MapInv
<1>6. \A w \in actions : /\ w.id \in ID /\ w.arg \in Nat
                         /\ w.type # "split" => w.arg \in ID /\ Waits(n, st, en, nm, w.id, w.arg)
  BY <1>1, <1>3 DEF MapInv
<1>7. ASSUME NEW w \in actions'
      PROVE  /\ w.id \in ID /\ w.arg \in Nat
             /\ w.type # "split" => w.arg \in ID /\ Waits(n, st, en, nm, w.id, w.arg)
  <2>1. CASE EvaluateSplit(i)
    <3>1. PICK d \in Descriptor : d = made[shards[i]]
      BY <1>1, <1>5
    <3>2. w \in actions \/ w = [type |-> "split", id |-> d.id, arg |-> FindSplitKey(d)]
      BY <1>7, <2>1, <3>1 DEF EvaluateSplit, Asks
    <3>3. d.id \in ID /\ FindSplitKey(d) \in Nat
      <4>1. d.id \in ID /\ d.start \in Nat /\ d.end \in Nat /\ FindSplitKey(d) # 0
        BY <2>1, <3>1 DEF Descriptor, EvaluateSplit
      <4>2. CASE d.end = Top
        BY <4>1, <4>2 DEF FindSplitKey
      <4>3. CASE d.end # Top /\ d.start = 0
        <5>1. FindSplitKey(d) = (d.end - 1) \div 2 + 1
          BY <4>3 DEF FindSplitKey
        <5>2. QED
          BY <4>1, <5>1
      <4>4. CASE d.end # Top /\ d.start # 0
        <5>1. FindSplitKey(d) = ((d.start - 1) + (d.end - 1)) \div 2 + 1
          BY <4>4 DEF FindSplitKey
        <5>2. (d.start - 1) + (d.end - 1) \in Int /\ (d.start - 1) + (d.end - 1) >= -1
          BY <4>1, <4>4
        <5>3. ((d.start - 1) + (d.end - 1)) \div 2 \in Int /\ ((d.start - 1) + (d.end - 1)) \div 2 >= -1
          BY <5>2
        <5>4. PICK z \in Int : z = ((d.start - 1) + (d.end - 1)) \div 2 /\ z >= -1
          BY <5>3
        <5>5. z + 1 \in Nat
          BY <5>4
        <5>6. FindSplitKey(d) = z + 1
          BY <5>1, <5>4
        <5>7. QED
          BY <4>1, <5>5, <5>6
      <4>5. QED
        BY <4>2, <4>3, <4>4
    <3>4. QED
      BY <1>6, <3>2, <3>3
  <2>2. CASE EvaluateMerge(i)
    <3>1. i \in 1 .. n /\ i + 1 \in 1 .. n
      BY <1>1, <2>2 DEF EvaluateMerge
    <3>2. w \in actions \/ w = [type |-> "merge", id |-> nm[i], arg |-> nm[i + 1]]
      BY <1>5, <1>7, <2>2, <3>1 DEF EvaluateMerge, Asks
    <3>3. nm[i] \in ID /\ nm[i + 1] \in ID /\ nm[i + 1] \in Nat
      BY <1>5, <3>1, ShardingAssumption DEF ID
    <3>4. Waits(n, st, en, nm, nm[i], nm[i + 1])
      <4>1. \A j, k \in 1 .. n : nm[j] = nm[k] => j = k
        BY <1>5 DEF Spans
      <4>2. nm[1] = 0 /\ 1 \in 1 .. n
        BY <1>5, <3>1 DEF Spans
      <4>3. nm[i + 1] # 0
        BY <3>1, <4>1, <4>2
      <4>4. ASSUME NEW j \in 1 .. n, NEW k \in 1 .. n, nm[j] = nm[i], nm[k] = nm[i + 1]
            PROVE  j < k /\ k = j + 1
        BY <3>1, <4>1, <4>4
      <4>5. QED
        BY <4>3, <4>4 DEF Waits
    <3>5. QED
      BY <1>6, <3>2, <3>3, <3>4
  <2>3. QED
    BY <2>1, <2>2
<1>8. \A w \in actions' : /\ w.id \in ID /\ w.arg \in Nat
                          /\ w.type # "split" => /\ w.arg \in ID
                                                 /\ Waits(Len(shards'), Starts', Ends', Ids', w.id, w.arg)
  BY <1>1, <1>2, <1>3, <1>7
<1>9. /\ made' \in Seq(Descriptor)
      /\ shards' \in Seq(1 .. Len(made')) /\ Len(shards') <= Len(made')
      /\ Spans(Len(shards'), Starts', Ends', Ids')
      /\ shardsByID' \in [ID -> Nat]
      /\ \A j \in 1 .. Len(shards') : shardsByID'[Ids'[j]] = shards'[j]
      /\ \A id \in ID : shardsByID'[id] # 0 => \E j \in 1 .. Len(shards') : Ids'[j] = id
  BY <1>1, <1>2, <1>3, <1>5 DEF MapInv
<1>10. made' # <<>>
  BY <1>2, <1>4
<1>11. QED
  BY <1>8, <1>9, <1>10 DEF MapInv

\* Split points are in order.
LEMMA SplitPointsGrow ==
    ASSUME NEW i \in Nat, NEW j \in Nat, i <= j, j <= NumShards
    PROVE  /\ SplitPoint(i) \in Nat /\ SplitPoint(i) > 0
           /\ SplitPoint(i) <= SplitPoint(j) /\ SplitPoint(j) < Top /\ Top \in Nat
<1>1. ByteRange \in Nat /\ FirstByte \in Nat /\ NumShards \in Nat \ {0} /\ NumShards \in Nat
  BY ShardingAssumption
<1>2. PICK x \in Nat, y \in Nat, z \in Nat : x = ByteRange * i /\ y = ByteRange * j /\ z = ByteRange * NumShards
  BY <1>1
<1>3. x <= y /\ y <= z
  <2>1. i * ByteRange <= j * ByteRange /\ j * ByteRange <= NumShards * ByteRange
    BY <1>1, TimesMonotone
  <2>2. i * ByteRange = x /\ j * ByteRange = y /\ NumShards * ByteRange = z
    BY <1>1, <1>2
  <2>3. QED
    BY <2>1, <2>2
<1>4. PICK a \in Nat : a = x \div NumShards /\ a * NumShards <= x /\ x < a * NumShards + NumShards
  BY <1>1, DivIs
<1>5. PICK b \in Nat : b = y \div NumShards /\ b * NumShards <= y /\ y < b * NumShards + NumShards
  BY <1>1, DivIs
<1>6. a <= b
  <2>1. ASSUME b + 1 <= a PROVE FALSE
    <3>1. b + 1 \in Nat
      OBVIOUS
    <3>2. (b + 1) * NumShards <= a * NumShards /\ (b + 1) * NumShards \in Nat /\ a * NumShards \in Nat
      BY <1>1, <2>1, <3>1, TimesMonotone
    <3>3. (b + 1) * NumShards = b * NumShards + NumShards /\ b * NumShards \in Nat
      BY <1>1
    <3>4. QED
      BY <1>1, <1>3, <1>4, <1>5, <3>2, <3>3
  <2>2. QED
    BY <2>1
<1>7. b <= ByteRange
  <2>1. ASSUME ByteRange + 1 <= b PROVE FALSE
    <3>1. ByteRange + 1 \in Nat
      BY <1>1
    <3>2. (ByteRange + 1) * NumShards <= b * NumShards /\ b * NumShards \in Nat
          /\ (ByteRange + 1) * NumShards \in Nat
      BY <1>1, <2>1, <3>1, TimesMonotone
    <3>3. (ByteRange + 1) * NumShards = z + NumShards
      BY <1>1, <1>2
    <3>4. QED
      BY <1>1, <1>3, <1>5, <3>2, <3>3
  <2>2. QED
    BY <1>1, <2>1
<1>8. SplitPoint(i) = 1 + FirstByte + a /\ SplitPoint(j) = 1 + FirstByte + b
  BY <1>2, <1>4, <1>5 DEF SplitPoint
<1>9. QED
  BY <1>1, <1>6, <1>7, <1>8 DEF Top

\* Initialize makes shards that cover all keys.
LEMMA InitializeKeepsMap ==
    ASSUME MapInv, Initialize
    PROVE  /\ MapInv' /\ made' # <<>>
           /\ \A id \in ID : shardsByID'[id] # 0 => shardsByID'[id] \in 1 .. Len(made')
<1>1. PICK n \in Nat \ {0} : n = NumShards
  BY ShardingAssumption
<1>2. PICK m : m = [i \in 1 .. n |-> FirstShard(i - 1)]
  OBVIOUS
<1>3. PICK s : s = [i \in 1 .. n |-> i]
  OBVIOUS
<1>4. made' = m /\ shards' = s /\ shardsByID' = [id \in ID |-> IF id < n THEN id + 1 ELSE 0]
      /\ actions' = actions /\ actions = {}
  BY <1>1, <1>2, <1>3 DEF Initialize, MapInv
<1>5. PICK st, en, nm : /\ st = [i \in 1 .. n |-> IF i = 1 THEN 0 ELSE SplitPoint(i - 1)]
                        /\ en = [i \in 1 .. n |-> IF i = n THEN Top ELSE SplitPoint(i)]
                        /\ nm = [i \in 1 .. n |-> i - 1]
  OBVIOUS
<1>6. \A i \in 1 .. n : m[i] = [id |-> nm[i], start |-> st[i], end |-> en[i], leader |-> 0,
                                replica |-> ((i - 1) % NodeCount) + 1]
  <2> SUFFICES ASSUME NEW i \in 1 .. n
               PROVE  m[i] = [id |-> nm[i], start |-> st[i], end |-> en[i], leader |-> 0,
                              replica |-> ((i - 1) % NodeCount) + 1]
    OBVIOUS
  <2>1. m[i] = FirstShard(i - 1)
    BY <1>2
  <2>2. (i - 1 = 0 <=> i = 1) /\ (i - 1 = NumShards - 1 <=> i = n) /\ (i - 1) + 1 = i
    BY <1>1
  <2>3. QED
    BY <1>5, <2>1, <2>2 DEF FirstShard
<1>7. \A i \in Nat : i <= n => /\ SplitPoint(i) \in Nat /\ SplitPoint(i) > 0 /\ SplitPoint(i) < Top
                               /\ \A j \in Nat : j <= i => SplitPoint(j) <= SplitPoint(i)
  BY <1>1, SplitPointsGrow
<1>8. Top \in Nat
  BY ShardingAssumption DEF Top
<1>9. st \in [1 .. n -> Nat] /\ en \in [1 .. n -> Nat]
  <2>1. \A i \in 1 .. n : i - 1 \in Nat /\ i - 1 <= n /\ i \in Nat /\ i <= n
    OBVIOUS
  <2>2. \A i \in 1 .. n : SplitPoint(i - 1) \in Nat /\ SplitPoint(i) \in Nat
    BY <1>7, <2>1
  <2>3. QED
    BY <1>5, <1>8, <2>2
<1>10. nm \in [1 .. n -> ID]
  <2>1. \A i \in 1 .. n : i - 1 \in ID
    BY <1>1, ShardingAssumption DEF ID
  <2>2. QED
    BY <1>5, <2>1
<1>11. \A i, j \in 1 .. n : i < j => en[i] <= st[j]
  <2> SUFFICES ASSUME NEW i \in 1 .. n, NEW j \in 1 .. n, i < j PROVE en[i] <= st[j]
    OBVIOUS
  <2>1. PICK k \in Nat : k = j - 1 /\ i <= k /\ k <= n /\ i \in Nat
    OBVIOUS
  <2>2. SplitPoint(i) <= SplitPoint(k)
    BY <1>7, <2>1
  <2>3. en[i] = SplitPoint(i) /\ st[j] = SplitPoint(k)
    BY <1>5, <2>1
  <2>4. QED
    BY <2>2, <2>3
<1>12. \A i \in 1 .. n : st[i] <= en[i]
  <2> SUFFICES ASSUME NEW i \in 1 .. n PROVE st[i] <= en[i]
    OBVIOUS
  <2>1. st[i] \in Nat /\ en[i] \in Nat
    BY <1>9
  <2>2. CASE i = 1
    <3>1. st[i] = 0
      BY <1>5, <2>2
    <3>2. QED
      BY <2>1, <3>1
  <2>3. CASE i # 1
    <3>1. PICK k \in Nat : k = i - 1 /\ k <= i /\ k <= n /\ i \in Nat
      OBVIOUS
    <3>2. st[i] = SplitPoint(k) /\ SplitPoint(k) <= SplitPoint(i) /\ SplitPoint(k) < Top
          /\ SplitPoint(k) \in Nat
      BY <1>5, <1>7, <2>3, <3>1
    <3>3. en[i] = Top \/ en[i] = SplitPoint(i)
      BY <1>5
    <3>4. QED
      BY <1>8, <3>2, <3>3
  <2>4. QED
    BY <2>2, <2>3
<1>13. \A i \in 1 .. n : i < n => en[i] = st[i + 1]
  <2> SUFFICES ASSUME NEW i \in 1 .. n, i < n PROVE en[i] = st[i + 1]
    OBVIOUS
  <2>1. i + 1 \in 1 .. n /\ i + 1 # 1 /\ (i + 1) - 1 = i /\ i # n
    OBVIOUS
  <2>2. QED
    BY <1>5, <2>1
<1>14. st[1] = 0 /\ en[n] = Top /\ nm[1] = 0 /\ \A i, j \in 1 .. n : nm[i] = nm[j] => i = j
  BY <1>5
<1>15. Spans(n, st, en, nm)
  BY <1>9, <1>10, <1>11, <1>12, <1>13, <1>14 DEF Spans
<1>16. m \in Seq(Descriptor) /\ Len(m) = n
  <2>1. ASSUME NEW i \in 1 .. n PROVE m[i] \in Descriptor
    <3>1. ((i - 1) % NodeCount) + 1 \in Nat
      <4>1. i - 1 \in Nat /\ NodeCount \in Nat \ {0}
        BY ShardingAssumption
      <4>2. (i - 1) % NodeCount \in Nat
        BY <4>1
      <4>3. QED
        BY <4>2
    <3>2. nm[i] \in ID /\ st[i] \in Nat /\ en[i] \in Nat
      BY <1>9, <1>10
    <3>3. PICK r \in Nat : r = ((i - 1) % NodeCount) + 1
      BY <3>1
    <3>4. m[i] = [id |-> nm[i], start |-> st[i], end |-> en[i], leader |-> 0, replica |-> r]
      BY <1>6, <3>3
    <3>5. QED
      BY <3>2, <3>4 DEF Descriptor
  <2>2. m = [i \in 1 .. n |-> m[i]]
    BY <1>2
  <2>3. m \in [1 .. n -> Descriptor]
    BY <2>1, <2>2
  <2>4. QED
    BY ONLY n \in Nat \ {0}, <2>3
<1>17. s \in Seq(1 .. n) /\ Len(s) = n /\ \A i \in 1 .. n : s[i] = i
  <2>1. s \in [1 .. n -> 1 .. n] /\ \A i \in 1 .. n : s[i] = i
    BY <1>3
  <2>2. s \in Seq(1 .. n) /\ Len(s) = n
    BY ONLY n \in Nat \ {0}, <2>1
  <2>3. QED
    BY <2>1, <2>2
<1>18. Starts' = st /\ Ends' = en /\ Ids' = nm
  <2>1. ASSUME NEW i \in 1 .. n
        PROVE  m[s[i]].start = st[i] /\ m[s[i]].end = en[i] /\ m[s[i]].id = nm[i]
    <3>1. PICK r : r = ((i - 1) % NodeCount) + 1
      OBVIOUS
    <3>2. m[i] = [id |-> nm[i], start |-> st[i], end |-> en[i], leader |-> 0, replica |-> r]
      BY <1>6, <3>1
    <3>3. s[i] = i
      BY <1>17
    <3>4. QED
      BY <3>2, <3>3
  <2>2. st = [i \in 1 .. n |-> st[i]] /\ en = [i \in 1 .. n |-> en[i]] /\ nm = [i \in 1 .. n |-> nm[i]]
    BY <1>5
  <2>3. QED
    BY <1>4, <1>17, <2>1, <2>2 DEF Starts, Ends, Ids
<1>19. ID \in SUBSET Nat
  BY ShardingAssumption DEF ID
<1>20. /\ shardsByID' \in [ID -> Nat]
       /\ \A id \in ID : shardsByID'[id] = IF id < n THEN id + 1 ELSE 0
  BY <1>4, <1>19
<1>21. \A i \in 1 .. n : shardsByID'[nm[i]] = s[i]
  <2> SUFFICES ASSUME NEW i \in 1 .. n PROVE shardsByID'[nm[i]] = s[i]
    OBVIOUS
  <2>1. nm[i] = i - 1 /\ nm[i] \in ID /\ s[i] = i
    BY <1>5, <1>10, <1>17
  <2>2. shardsByID'[nm[i]] = IF i - 1 < n THEN (i - 1) + 1 ELSE 0
    BY <1>20, <2>1
  <2>3. QED
    BY <2>1, <2>2
<1>22. \A id \in ID : shardsByID'[id] # 0 => /\ shardsByID'[id] \in 1 .. n
                                             /\ \E i \in 1 .. n : nm[i] = id
  <2> SUFFICES ASSUME NEW id \in ID, shardsByID'[id] # 0
               PROVE  shardsByID'[id] \in 1 .. n /\ \E i \in 1 .. n : nm[i] = id
    OBVIOUS
  <2>1. id \in Nat /\ id < n /\ shardsByID'[id] = id + 1
    BY <1>19, <1>20
  <2>2. PICK i \in 1 .. n : i = id + 1
    BY <2>1
  <2>3. nm[i] = id
    BY <1>5, <2>1, <2>2
  <2>4. QED
    BY <2>1, <2>2, <2>3
<1>23. Len(made') = n /\ Len(shards') = n /\ made' # <<>>
  BY <1>4, <1>16, <1>17
<1>24. MapInv'
  <2>1. made' \in Seq(Descriptor) /\ shards' \in Seq(1 .. Len(made')) /\ Len(shards') <= Len(made')
    BY <1>4, <1>16, <1>17, <1>23
  <2>2. Spans(Len(shards'), Starts', Ends', Ids')
    BY <1>15, <1>18, <1>23
  <2>3. /\ \A i \in 1 .. Len(shards') : shardsByID'[Ids'[i]] = shards'[i]
        /\ \A id \in ID : shardsByID'[id] # 0 => \E i \in 1 .. Len(shards') : Ids'[i] = id
    BY <1>4, <1>18, <1>21, <1>22, <1>23
  <2>4. actions' = {}
    BY <1>4
  <2>5. QED
    BY <1>20, <1>23, <2>1, <2>2, <2>3, <2>4 DEF MapInv
<1>25. QED
  BY <1>22, <1>23, <1>24

\* The shard that the map has for an id.
LEMMA ByIDAt ==
    ASSUME MapInv, NEW id \in ID, shardsByID[id] # 0
    PROVE  shardsByID[id] \in 1 .. Len(made) /\ made[shardsByID[id]].id = id
<1>1. PICK i \in 1 .. Len(shards) : Ids[i] = id
  BY DEF MapInv
<1>2. shardsByID[id] = shards[i]
  BY <1>1 DEF MapInv
<1>3. QED
  BY <1>1, <1>2, ShardAt

\* A step that moves no boundary and adds no action keeps the map in order.
LEMMA UnmovedKeepsMap ==
    ASSUME MapInv, made' \in Seq(Descriptor), Len(made') = Len(made),
           \A k \in 1 .. Len(made) : made'[k].id = made[k].id /\ made'[k].start = made[k].start
                                     /\ made'[k].end = made[k].end,
           UNCHANGED <<shards, shardsByID>>, actions' \subseteq actions
    PROVE  MapInv'
<1>1. PICK n \in Nat, t \in Nat : n = Len(shards) /\ t = Len(made)
  BY DEF MapInv
<1>2. PICK st, en, nm : st = Starts /\ en = Ends /\ nm = Ids
  OBVIOUS
<1>3. \A i \in 1 .. n : shards[i] \in 1 .. t
  BY <1>1, ShardAt
<1>4. \A i \in 1 .. n : /\ made'[shards[i]].start = made[shards[i]].start
                        /\ made'[shards[i]].end = made[shards[i]].end
                        /\ made'[shards[i]].id = made[shards[i]].id
  BY <1>1, <1>3
<1>5. st = Starts' /\ en = Ends' /\ nm = Ids'
  BY <1>1, <1>2, <1>4 DEF Starts, Ends, Ids
<1>6. /\ shards' \in Seq(1 .. Len(made')) /\ Len(shards') = n /\ n <= Len(made')
      /\ Spans(n, st, en, nm) /\ shardsByID' \in [ID -> Nat]
      /\ \A i \in 1 .. n : shardsByID'[nm[i]] = shards'[i]
      /\ \A id \in ID : shardsByID'[id] # 0 => \E i \in 1 .. n : nm[i] = id
  BY <1>1, <1>2 DEF MapInv
<1>7. \A a \in actions' : /\ a.id \in ID /\ a.arg \in Nat
                          /\ a.type # "split" => a.arg \in ID /\ Waits(n, st, en, nm, a.id, a.arg)
  BY <1>1, <1>2 DEF MapInv
<1>8. made' = <<>> => shards' = <<>> /\ actions' = {}
  <2>1. made' = <<>> => made = <<>>
    BY <1>1 DEF MapInv
  <2>2. QED
    BY <2>1 DEF MapInv
<1>9. QED
  BY <1>1, <1>5, <1>6, <1>7, <1>8 DEF MapInv

\* A step that leaves the requests and their shards alone, and forgets hints and the cache
\* at most, keeps what the router knows.
LEMMA ForgettingKeepsCache ==
    ASSUME MapInv, CacheInv, request' = request, overlap' = overlap,
           leaderCache' = leaderCache \/ leaderCache' = [id \in ID |-> 0],
           lastHint' \in [ID -> Nat], Len(made') \in Nat, Len(made) <= Len(made'),
           \A k \in 1 .. Len(made) : made'[k].id = made[k].id /\ made'[k].leader = made[k].leader,
           \A id \in ID : lastHint'[id] = 0 \/ (/\ lastHint'[id] = lastHint[id]
                                                /\ shardsByID'[id] = 0 \/ shardsByID'[id] = shardsByID[id])
    PROVE  CacheInv'
<1>1. PICK t \in Nat : t = Len(made) /\ (t = 0 => made = <<>>)
  BY DEF MapInv
<1>2. \A r \in Request : request'[r].pc # "new" => /\ request[r].shard \in 1 .. t
                                                  /\ request'[r].shard \in 1 .. Len(made')
  BY <1>1 DEF CacheInv
<1>3. ASSUME NEW id \in ID PROVE Redirecting(id)' = Redirecting(id)
  <2>1. \A r \in Request : request[r].pc = "redirecting" =>
            made'[request'[r].shard].id = made[request[r].shard].id
    BY <1>1, <1>2
  <2>2. QED
    BY <2>1 DEF Redirecting
<1>4. leaderCache' \in [ID -> Nat] /\ overlap' \in [ID -> BOOLEAN]
  BY DEF CacheInv
<1>5. made' = <<>> => \A id \in ID : lastHint'[id] = 0
  <2>1. ASSUME made' = <<>> PROVE made = <<>>
    BY <1>1, <2>1
  <2>2. QED
    BY <2>1 DEF CacheInv
<1>6. ASSUME NEW id \in ID, lastHint'[id] # 0, ~overlap'[id]
      PROVE  /\ leaderCache'[id] = 0 \/ leaderCache'[id] = lastHint'[id]
             /\ \A r \in Redirecting(id)' : request'[r].hint = lastHint'[id]
             /\ Redirecting(id)' = {} /\ shardsByID'[id] # 0 => made'[shardsByID'[id]].leader = lastHint'[id]
  <2>1. lastHint'[id] = lastHint[id] /\ (shardsByID'[id] = 0 \/ shardsByID'[id] = shardsByID[id])
    BY <1>6
  <2>2. /\ leaderCache[id] = 0 \/ leaderCache[id] = lastHint[id]
        /\ \A r \in Redirecting(id) : request[r].hint = lastHint[id]
        /\ Redirecting(id) = {} /\ shardsByID[id] # 0 => made[shardsByID[id]].leader = lastHint[id]
    BY <1>6, <2>1 DEF CacheInv
  <2>3. leaderCache'[id] = 0 \/ leaderCache'[id] = leaderCache[id]
    OBVIOUS
  <2>4. shardsByID'[id] # 0 => made'[shardsByID'[id]].leader = made[shardsByID[id]].leader
    BY <2>1, ByIDAt
  <2>5. QED
    BY <1>3, <2>1, <2>2, <2>3, <2>4
<1>7. request' \in [Request -> Routing]
  BY DEF CacheInv
<1>8. QED
  BY <1>2, <1>4, <1>5, <1>6, <1>7 DEF CacheInv

\* A request that finds its shard, or is tried again, redirects nothing.
LEMMA QuietKeepsCache ==
    ASSUME MapInv, CacheInv, NEW r \in Request,
           (\E key \in 0 .. Top - 1 : Route(r, key)) \/ NoHint(r)
    PROVE  CacheInv'
<1>1. UNCHANGED <<made, shards, shardsByID, leaderCache, lastHint, overlap>>
  BY DEF Route, NoHint, shardMapVars
<1>2. /\ request' \in [Request -> Routing]
      /\ request'[r].pc = "routed" /\ request'[r].shard \in 1 .. Len(made) /\ request[r].pc # "redirecting"
      /\ \A q \in Request : q # r => request'[q] = request[q]
  <2>1. request \in [Request -> Routing]
    BY DEF CacheInv
  <2>2. ASSUME NEW key \in 0 .. Top - 1, Route(r, key)
        PROVE  /\ request' \in [Request -> Routing]
               /\ request'[r].pc = "routed" /\ request'[r].shard \in 1 .. Len(made)
               /\ request[r].pc # "redirecting" /\ \A q \in Request : q # r => request'[q] = request[q]
    <3>1. shards # <<>>
      BY <2>2 DEF Route, Lookup
    <3>2. PICK s \in 1 .. Len(made) : s = Lookup(key)
      BY <3>1, LookupFinds
    <3>3. request' = [request EXCEPT ![r].pc = "routed", ![r].shard = s] /\ request[r].pc = "new"
      BY <2>2, <3>2 DEF Route
    <3>4. s \in Nat
      BY <3>2 DEF MapInv
    <3>5. PICK old \in Routing : old = request[r]
      BY <2>1
    <3>6. request' = [request EXCEPT ![r] = [old EXCEPT !.pc = "routed", !.shard = s]]
      BY <2>1, <3>3, <3>5
    <3>7. [old EXCEPT !.pc = "routed", !.shard = s] \in Routing
      BY <3>4, <3>5 DEF Routing
    <3>8. /\ request' \in [Request -> Routing]
          /\ request'[r].pc = "routed" /\ request'[r].shard = s
          /\ \A q \in Request : q # r => request'[q] = request[q]
      BY <2>1, <3>5, <3>6, <3>7
    <3>9. QED
      BY <3>2, <3>3, <3>8
  <2>3. CASE NoHint(r)
    <3>1. request' = [request EXCEPT ![r].attempt = @ + 1] /\ request[r].pc = "routed"
      BY <2>3 DEF NoHint
    <3>2. request[r].shard \in 1 .. Len(made)
      BY <3>1 DEF CacheInv
    <3>3. QED
      BY <2>1, <3>1, <3>2 DEF Routing
  <2>4. QED
    BY <2>2, <2>3
<1>3. ASSUME NEW id \in ID
      PROVE  Redirecting(id)' = Redirecting(id) /\ \A q \in Redirecting(id)' : request'[q] = request[q]
  <2>1. \A q \in Request : q = r \/ request'[q] = request[q]
    BY <1>2
  <2>2. r \notin Redirecting(id) /\ r \notin Redirecting(id)'
    BY <1>2 DEF Redirecting
  <2>3. \A q \in Request : q # r => (q \in Redirecting(id)' <=> q \in Redirecting(id))
    BY <1>1, <2>1 DEF Redirecting
  <2>4. Redirecting(id)' \subseteq Request /\ Redirecting(id) \subseteq Request
    BY DEF Redirecting
  <2>5. QED
    BY <2>1, <2>2, <2>3, <2>4
<1>4. \A q \in Request : request'[q].pc # "new" => request'[q].shard \in 1 .. Len(made')
  BY <1>1, <1>2 DEF CacheInv
<1>5. ASSUME NEW id \in ID, lastHint'[id] # 0, ~overlap'[id]
      PROVE  /\ leaderCache'[id] = 0 \/ leaderCache'[id] = lastHint'[id]
             /\ \A q \in Redirecting(id)' : request'[q].hint = lastHint'[id]
             /\ Redirecting(id)' = {} /\ shardsByID'[id] # 0 => made'[shardsByID'[id]].leader = lastHint'[id]
  <2>1. /\ leaderCache[id] = 0 \/ leaderCache[id] = lastHint[id]
        /\ \A q \in Redirecting(id) : request[q].hint = lastHint[id]
        /\ Redirecting(id) = {} /\ shardsByID[id] # 0 => made[shardsByID[id]].leader = lastHint[id]
    BY <1>1, <1>5 DEF CacheInv
  <2>2. QED
    BY <1>1, <1>3, <2>1
<1>6. /\ leaderCache' \in [ID -> Nat] /\ lastHint' \in [ID -> Nat] /\ overlap' \in [ID -> BOOLEAN]
      /\ made' = <<>> => \A id \in ID : lastHint'[id] = 0
  BY <1>1 DEF CacheInv
<1>7. QED
  BY <1>2, <1>4, <1>5, <1>6 DEF CacheInv

\* A redirect: the cache has the hint at once, the map will have it when the redirect ends.
LEMMA NotLeaderKeepsCache ==
    ASSUME MapInv, CacheInv, NEW r \in Request, NEW hint \in 1 .. NodeCount, HandleNotLeader(r, hint)
    PROVE  CacheInv'
<1>1. PICK t \in Nat : t = Len(made) /\ made \in [1 .. t -> Descriptor]
  BY DEF MapInv
<1>2. request[r].pc = "routed" /\ request[r].shard \in 1 .. t /\ request \in [Request -> Routing]
  BY <1>1 DEF CacheInv, HandleNotLeader
<1>3. PICK x \in ID : x = made[request[r].shard].id
  BY <1>1, <1>2 DEF Descriptor
<1>4. /\ UNCHANGED <<made, shards, shardsByID>>
      /\ leaderCache' = [leaderCache EXCEPT ![x] = hint]
      /\ request' = [request EXCEPT ![r].pc = "redirecting", ![r].hint = hint]
      /\ lastHint' = [lastHint EXCEPT ![x] = hint]
      /\ overlap' = [overlap EXCEPT ![x] = Redirecting(x) # {}]
  BY <1>3 DEF HandleNotLeader, shardMapVars
<1>5. hint \in Nat
  BY ShardingAssumption
<1>6. leaderCache \in [ID -> Nat] /\ lastHint \in [ID -> Nat] /\ overlap \in [ID -> BOOLEAN]
  BY DEF CacheInv
<1>7. /\ leaderCache' \in [ID -> Nat] /\ lastHint' \in [ID -> Nat] /\ overlap' \in [ID -> BOOLEAN]
      /\ leaderCache'[x] = hint /\ lastHint'[x] = hint
      /\ \A id \in ID : id # x => leaderCache'[id] = leaderCache[id] /\ lastHint'[id] = lastHint[id]
  BY <1>4, <1>5, <1>6
<1>8. /\ overlap'[x] <=> Redirecting(x) # {}
      /\ \A id \in ID : id # x => (overlap'[id] <=> overlap[id])
  BY <1>4, <1>6
<1>9. /\ request' \in [Request -> Routing]
      /\ request'[r].pc = "redirecting" /\ request'[r].shard = request[r].shard /\ request'[r].hint = hint
      /\ \A q \in Request : q # r => request'[q] = request[q]
  <2>1. PICK old \in Routing : old = request[r]
    BY <1>2
  <2>2. request' = [request EXCEPT ![r] = [old EXCEPT !.pc = "redirecting", !.hint = hint]]
    BY <1>2, <1>4, <2>1
  <2>3. PICK new : new = [old EXCEPT !.pc = "redirecting", !.hint = hint]
    OBVIOUS
  <2>4. new \in Routing /\ new.pc = "redirecting" /\ new.shard = old.shard /\ new.hint = hint
    BY <1>5, <2>1, <2>3 DEF Routing
  <2>5. request' = [request EXCEPT ![r] = new]
    BY <2>2, <2>3
  <2>6. QED
    BY <1>2, <2>1, <2>4, <2>5
<1>10. ASSUME NEW id \in ID
       PROVE  Redirecting(id)' = IF id = x THEN Redirecting(id) \cup {r} ELSE Redirecting(id)
  <2>1. \A q \in Request : q # r => (q \in Redirecting(id)' <=> q \in Redirecting(id))
    BY <1>4, <1>9 DEF Redirecting
  <2>2. r \notin Redirecting(id)
    BY <1>2 DEF Redirecting
  <2>3. r \in Redirecting(id)' <=> id = x
    BY <1>3, <1>4, <1>9 DEF Redirecting
  <2>4. Redirecting(id)' \subseteq Request /\ Redirecting(id) \subseteq Request
    BY DEF Redirecting
  <2>5. QED
    BY <2>1, <2>2, <2>3, <2>4
<1>11. ASSUME NEW id \in ID, lastHint'[id] # 0, ~overlap'[id]
       PROVE  /\ leaderCache'[id] = 0 \/ leaderCache'[id] = lastHint'[id]
              /\ \A q \in Redirecting(id)' : request'[q].hint = lastHint'[id]
              /\ Redirecting(id)' = {} /\ shardsByID'[id] # 0 => made'[shardsByID'[id]].leader = lastHint'[id]
  <2>1. CASE id = x
    <3>1. Redirecting(id)' = {r}
      BY <1>8, <1>10, <1>11, <2>1
    <3>2. QED
      BY <1>7, <1>9, <2>1, <3>1
  <2>2. CASE id # x
    <3>1. /\ lastHint[id] # 0 /\ ~overlap[id] /\ Redirecting(id)' = Redirecting(id)
          /\ lastHint'[id] = lastHint[id] /\ leaderCache'[id] = leaderCache[id]
      BY <1>7, <1>8, <1>10, <1>11, <2>2
    <3>2. /\ leaderCache[id] = 0 \/ leaderCache[id] = lastHint[id]
          /\ \A q \in Redirecting(id) : request[q].hint = lastHint[id]
          /\ Redirecting(id) = {} /\ shardsByID[id] # 0 => made[shardsByID[id]].leader = lastHint[id]
      BY <3>1 DEF CacheInv
    <3>3. \A q \in Redirecting(id) : q \in Request /\ q # r
      BY <1>2 DEF Redirecting
    <3>4. QED
      BY <1>4, <1>9, <3>1, <3>2, <3>3
  <2>3. QED
    BY <2>1, <2>2
<1>12. made' # <<>>
  BY <1>1, <1>2, <1>4
<1>13. \A q \in Request : request'[q].pc # "new" => request'[q].shard \in 1 .. Len(made')
  <2>1. \A q \in Request : q # r /\ request[q].pc # "new" => request[q].shard \in 1 .. t
    BY <1>1 DEF CacheInv
  <2>2. QED
    BY <1>1, <1>2, <1>4, <1>9, <2>1
<1>14. QED
  BY <1>7, <1>9, <1>11, <1>12, <1>13 DEF CacheInv

\* The end of a redirect: the map has the hint.
LEMMA RedirectedKeepsRoutes ==
    ASSUME MapInv, CacheInv, NEW r \in Request, Redirected(r)
    PROVE  MapInv' /\ CacheInv'
<1>1. PICK t \in Nat : t = Len(made) /\ made \in [1 .. t -> Descriptor] /\ DOMAIN made = 1 .. t
  BY DEF MapInv
<1>2. request[r].pc = "redirecting" /\ request[r].shard \in 1 .. t /\ request \in [Request -> Routing]
  BY <1>1 DEF CacheInv, Redirected
<1>3. PICK x \in ID : x = made[request[r].shard].id
  BY <1>1, <1>2 DEF Descriptor
<1>4. PICK h \in Nat : h = request[r].hint
  BY <1>2 DEF Routing
<1>5. /\ UNCHANGED <<shards, shardsByID, actions, leaderCache, lastHint, overlap>>
      /\ request' = [request EXCEPT ![r].pc = "routed", ![r].hint = 0, ![r].attempt = @ + 1]
      /\ shardsByID[x] = 0 => made' = made
      /\ shardsByID[x] # 0 => made' = [made EXCEPT ![shardsByID[x]].leader = h]
  BY <1>3, <1>4 DEF Redirected, UpdateLeader
<1>6. PICK b : b = shardsByID[x] /\ (b # 0 => b \in 1 .. t /\ made[b].id = x)
  BY <1>1, ByIDAt
<1>7. /\ made' \in [1 .. t -> Descriptor]
      /\ b # 0 => made'[b].leader = h
      /\ \A k \in 1 .. t : k # b => made'[k] = made[k]
      /\ \A k \in 1 .. t : made'[k].id = made[k].id /\ made'[k].start = made[k].start /\ made'[k].end = made[k].end
  <2>1. CASE b = 0
    BY <1>1, <1>5, <1>6, <2>1
  <2>2. CASE b # 0
    <3>1. PICK old \in Descriptor : old = made[b] /\ b \in 1 .. t
      BY <1>1, <1>6, <2>2
    <3>2. PICK new : new = [old EXCEPT !.leader = h]
      OBVIOUS
    <3>3. new \in Descriptor /\ new.leader = h /\ new.id = old.id /\ new.start = old.start /\ new.end = old.end
      BY <1>4, <3>1, <3>2 DEF Descriptor
    <3>4. made' = [made EXCEPT ![b] = new]
      BY <1>1, <1>5, <1>6, <2>2, <3>1, <3>2
    <3>5. QED
      BY <1>1, <3>1, <3>3, <3>4
  <2>3. QED
    BY <2>1, <2>2
<1>8. made' \in Seq(Descriptor) /\ Len(made') = t
  <2>1. PICK m \in [1 .. t -> Descriptor] : m = made'
    BY <1>7
  <2>2. m \in Seq(Descriptor) /\ Len(m) = t
    BY ONLY t \in Nat, m \in [1 .. t -> Descriptor]
  <2>3. QED
    BY <2>1, <2>2
<1>9. MapInv'
  BY <1>1, <1>5, <1>7, <1>8, UnmovedKeepsMap
<1>10. /\ request' \in [Request -> Routing]
       /\ request'[r].pc = "routed" /\ request'[r].shard = request[r].shard
       /\ \A q \in Request : q # r => request'[q] = request[q]
  <2>1. PICK old \in Routing : old = request[r]
    BY <1>2
  <2>2. PICK new : new = [old EXCEPT !.pc = "routed", !.hint = 0, !.attempt = @ + 1]
    OBVIOUS
  <2>3. new \in Routing /\ new.pc = "routed" /\ new.shard = old.shard
    <3>1. PICK k \in Nat : k = old.attempt + 1
      BY <2>1 DEF Routing
    <3>2. new = [old EXCEPT !.pc = "routed", !.hint = 0, !.attempt = k]
      BY <2>1, <2>2, <3>1 DEF Routing
    <3>3. QED
      BY <2>1, <3>2 DEF Routing
  <2>4. request' = [request EXCEPT ![r] = new]
    BY <1>2, <1>5, <2>1, <2>2
  <2>5. QED
    BY <1>2, <2>1, <2>3, <2>4
<1>11. \A q \in Request : request'[q].pc # "new" => request'[q].shard \in 1 .. Len(made')
  <2>1. \A q \in Request : q # r /\ request[q].pc # "new" => request[q].shard \in 1 .. t
    BY <1>1 DEF CacheInv
  <2>2. QED
    BY <1>2, <1>8, <1>10, <2>1
<1>12. ASSUME NEW id \in ID
       PROVE  Redirecting(id)' = Redirecting(id) \ {r}
  <2>1. \A q \in Request : q # r /\ request[q].pc # "new" => made'[request[q].shard].id = made[request[q].shard].id
    BY <1>1, <1>7 DEF CacheInv
  <2>2. \A q \in Request : q # r => (q \in Redirecting(id)' <=> q \in Redirecting(id))
    BY <1>10, <2>1 DEF Redirecting
  <2>3. r \notin Redirecting(id)'
    BY <1>10 DEF Redirecting
  <2>4. Redirecting(id)' \subseteq Request /\ Redirecting(id) \subseteq Request
    BY DEF Redirecting
  <2>5. QED
    BY <2>2, <2>3, <2>4
<1>13. ASSUME NEW id \in ID, lastHint'[id] # 0, ~overlap'[id]
       PROVE  /\ leaderCache'[id] = 0 \/ leaderCache'[id] = lastHint'[id]
              /\ \A q \in Redirecting(id)' : request'[q].hint = lastHint'[id]
              /\ Redirecting(id)' = {} /\ shardsByID'[id] # 0 => made'[shardsByID'[id]].leader = lastHint'[id]
  <2>1. /\ leaderCache[id] = 0 \/ leaderCache[id] = lastHint[id]
        /\ \A q \in Redirecting(id) : request[q].hint = lastHint[id]
        /\ Redirecting(id) = {} /\ shardsByID[id] # 0 => made[shardsByID[id]].leader = lastHint[id]
    BY <1>5, <1>13 DEF CacheInv
  <2>2. \A q \in Redirecting(id)' : request'[q] = request[q]
    <3>1. Redirecting(id) \subseteq Request
      BY DEF Redirecting
    <3>2. QED
      BY <1>10, <1>12, <3>1
  <2>3. ASSUME Redirecting(id)' = {}, shardsByID'[id] # 0 PROVE made'[shardsByID'[id]].leader = lastHint'[id]
    <3>1. CASE id = x
      <4>1. r \in Redirecting(id)
        BY <1>2, <1>3, <3>1 DEF Redirecting
      <4>2. h = lastHint[id]
        BY <1>4, <2>1, <4>1
      <4>3. QED
        BY <1>5, <1>6, <1>7, <2>3, <3>1, <4>2
    <3>2. CASE id # x
      <4>1. r \notin Redirecting(id)
        BY <1>3, <3>2 DEF Redirecting
      <4>2. Redirecting(id) = {}
        BY <1>12, <2>3, <4>1
      <4>3. shardsByID[id] \in 1 .. t /\ made[shardsByID[id]].id = id
        BY <1>1, <1>5, <2>3, ByIDAt
      <4>4. shardsByID[id] # b
        BY <1>6, <3>2, <4>3
      <4>5. made'[shardsByID[id]] = made[shardsByID[id]]
        BY <1>7, <4>3, <4>4
      <4>6. QED
        BY <1>5, <2>1, <2>3, <4>2, <4>5
    <3>3. QED
      BY <3>1, <3>2
  <2>4. QED
    BY <1>5, <1>12, <2>1, <2>2, <2>3
<1>14. made' # <<>>
  BY <1>2, <1>8
<1>15. leaderCache' \in [ID -> Nat] /\ lastHint' \in [ID -> Nat] /\ overlap' \in [ID -> BOOLEAN]
  BY <1>5 DEF CacheInv
<1>16. CacheInv'
  BY <1>10, <1>11, <1>13, <1>14, <1>15 DEF CacheInv
<1>17. QED
  BY <1>9, <1>16

\* At the start the map is empty and no request has a shard.
LEMMA RouteInvInit ==
    ASSUME ShardingInit
    PROVE  RouteInv
<1>1. Len(made) = 0 /\ Len(shards) = 0 /\ made = <<>> /\ shards = <<>>
  BY DEF ShardingInit
<1>2. PICK st, en, nm : st = Starts /\ en = Ends /\ nm = Ids
  OBVIOUS
<1>3. st \in [1 .. 0 -> Nat] /\ en \in [1 .. 0 -> Nat] /\ nm \in [1 .. 0 -> ID]
  BY <1>1, <1>2 DEF Starts, Ends, Ids
<1>4. Spans(0, st, en, nm)
  BY <1>3 DEF Spans
<1>5. made \in Seq(Descriptor) /\ shards \in Seq(1 .. Len(made))
  BY <1>1
<1>6. /\ shardsByID \in [ID -> Nat] /\ actions = {}
      /\ \A id \in ID : shardsByID[id] = 0
  BY DEF ShardingInit
<1>7. MapInv
  BY <1>1, <1>2, <1>4, <1>5, <1>6 DEF MapInv
<1>8. /\ request \in [Request -> Routing]
      /\ \A r \in Request : request[r].pc = "new"
  BY DEF ShardingInit, Routing
<1>9. /\ leaderCache \in [ID -> Nat] /\ lastHint \in [ID -> Nat] /\ overlap \in [ID -> BOOLEAN]
      /\ \A id \in ID : lastHint[id] = 0
  BY DEF ShardingInit
<1>10. CacheInv
  BY <1>8, <1>9 DEF CacheInv
<1>11. QED
  BY <1>7, <1>10 DEF RouteInv

\* Every step of the map, the rebalancer and the router keeps RouteInv.
LEMMA RouteInvNext ==
    ASSUME RouteInv, [ShardingNext]_shardingVars
    PROVE  RouteInv'
<1>1. ASSUME collided PROVE RouteInv'
  <2>1. collided'
    BY <1>1 DEF ShardingNext, Initialize, EvaluateSplit, EvaluateMerge, Split, Merge, Rejected, ClearCache, Route,
           HandleNotLeader, Redirected, NoHint, shardingVars
  <2>2. QED
    BY <2>1 DEF RouteInv
<1>2. ASSUME ~collided PROVE RouteInv'
  <2>1. MapInv /\ CacheInv
    BY <1>2 DEF RouteInv
  <2>2. PICK t \in Nat : t = Len(made) /\ made \in Seq(Descriptor)
    BY <2>1 DEF MapInv
  <2>3. lastHint \in [ID -> Nat]
    BY <2>1 DEF CacheInv
  <2>4. ASSUME UNCHANGED <<made, shards, shardsByID, request, overlap, lastHint>>, actions' \subseteq actions,
               leaderCache' = leaderCache \/ leaderCache' = [id \in ID |-> 0]
        PROVE  RouteInv'
    <3>1. MapInv'
      BY <2>1, <2>2, <2>4, UnmovedKeepsMap
    <3>2. CacheInv'
      BY <2>1, <2>2, <2>3, <2>4, ForgettingKeepsCache
    <3>3. QED
      BY <3>1, <3>2 DEF RouteInv
  <2>5. CASE Initialize
    <3>1. MapInv' /\ made' # <<>>
      BY <2>1, <2>5, InitializeKeepsMap
    <3>2. Len(made) = 0 /\ \A id \in ID : lastHint[id] = 0
      BY <2>1, <2>5 DEF Initialize, CacheInv
    <3>3. Len(made') \in Nat
      BY <3>1 DEF MapInv
    <3>4. UNCHANGED <<request, overlap, leaderCache, lastHint>>
      BY <2>5 DEF Initialize, routerVars
    <3>5. \A k \in 1 .. Len(made) : made'[k].id = made[k].id /\ made'[k].leader = made[k].leader
      BY <3>2
    <3>6. Len(made) <= Len(made')
      BY <3>2, <3>3
    <3>7. CacheInv'
      BY <2>1, <2>3, <3>2, <3>3, <3>4, <3>5, <3>6, ForgettingKeepsCache
    <3>8. QED
      BY <3>1, <3>7 DEF RouteInv
  <2>6. ASSUME NEW i \in DOMAIN shards, EvaluateSplit(i) \/ EvaluateMerge(i) PROVE RouteInv'
    <3>1. MapInv'
      BY <2>1, <2>6, EvaluateKeepsMap
    <3>2. UNCHANGED <<made, shards, shardsByID, request, overlap, leaderCache, lastHint>>
      BY <2>6 DEF EvaluateSplit, EvaluateMerge, shardMapVars, routerVars
    <3>3. CacheInv'
      BY <2>1, <2>2, <2>3, <3>2, ForgettingKeepsCache
    <3>4. QED
      BY <3>1, <3>3 DEF RouteInv
  <2>7. ASSUME NEW a \in actions, Split(a) PROVE RouteInv'
    <3>1. CASE collided'
      BY <3>1 DEF RouteInv
    <3>2. CASE ~collided'
      <4>1. /\ MapInv' /\ Len(made') = Len(made) + 1 /\ Len(shards) \in ID
            /\ \A k \in 1 .. Len(made) : made'[k].id = made[k].id /\ made'[k].leader = made[k].leader
            /\ \A id \in ID : id # Len(shards) => shardsByID'[id] = shardsByID[id]
        BY <2>1, <2>7, <3>2, SplitKeepsMap
      <4>2. /\ UNCHANGED <<request, overlap, leaderCache>>
            /\ lastHint' = [lastHint EXCEPT ![Len(shards)] = 0]
        BY <2>7 DEF Split
      <4>3. /\ lastHint' \in [ID -> Nat] /\ lastHint'[Len(shards)] = 0
            /\ \A id \in ID : id # Len(shards) => lastHint'[id] = lastHint[id]
        BY <2>3, <4>1, <4>2
      <4>4. Len(made') \in Nat /\ Len(made) <= Len(made')
        BY <2>2, <4>1
      <4>5. \A id \in ID : lastHint'[id] = 0 \/ (/\ lastHint'[id] = lastHint[id]
                                                 /\ shardsByID'[id] = 0 \/ shardsByID'[id] = shardsByID[id])
        BY <4>1, <4>3
      <4>6. CacheInv'
        BY <2>1, <4>1, <4>2, <4>3, <4>4, <4>5, ForgettingKeepsCache
      <4>7. QED
        BY <4>1, <4>6 DEF RouteInv
    <3>3. QED
      BY <3>1, <3>2
  <2>8. ASSUME NEW a \in actions, Merge(a) PROVE RouteInv'
    <3>1. a.type # "split"
      BY <2>8 DEF Merge
    <3>2. /\ MapInv' /\ Len(made') = Len(made)
          /\ \A k \in 1 .. Len(made) : made'[k].id = made[k].id /\ made'[k].leader = made[k].leader
          /\ \A id \in ID : shardsByID'[id] = 0 \/ shardsByID'[id] = shardsByID[id]
      BY <2>1, <2>8, <3>1, MergeKeepsMap
    <3>3. UNCHANGED <<request, overlap, leaderCache, lastHint>>
      BY <2>8 DEF Merge, routerVars
    <3>4. CacheInv'
      BY <2>1, <2>2, <2>3, <3>2, <3>3, ForgettingKeepsCache
    <3>5. QED
      BY <3>2, <3>4 DEF RouteInv
  <2>9. ASSUME NEW a \in actions, Rejected(a) PROVE RouteInv'
    <3>1. /\ UNCHANGED <<made, shards, shardsByID, request, overlap, lastHint, leaderCache>>
          /\ actions' \subseteq actions
      BY <2>9 DEF Rejected, shardMapVars, routerVars
    <3>2. QED
      BY <2>4, <3>1
  <2>10. CASE ClearCache
    <3>1. /\ UNCHANGED <<made, shards, shardsByID, request, overlap, lastHint, actions>>
          /\ leaderCache' = [id \in ID |-> 0]
      BY <2>10 DEF ClearCache, shardMapVars
    <3>2. QED
      BY <2>4, <3>1
  <2>11. ASSUME NEW r \in Request, (\E key \in 0 .. Top - 1 : Route(r, key)) \/ NoHint(r) PROVE RouteInv'
    <3>1. UNCHANGED <<made, shards, shardsByID, actions>>
      BY <2>11 DEF Route, NoHint, shardMapVars
    <3>2. MapInv'
      BY <2>1, <2>2, <3>1, UnmovedKeepsMap
    <3>3. CacheInv'
      BY <2>1, <2>11, QuietKeepsCache
    <3>4. QED
      BY <3>2, <3>3 DEF RouteInv
  <2>12. ASSUME NEW r \in Request, NEW hint \in 1 .. NodeCount, HandleNotLeader(r, hint) PROVE RouteInv'
    <3>1. UNCHANGED <<made, shards, shardsByID, actions>>
      BY <2>12 DEF HandleNotLeader, shardMapVars
    <3>2. MapInv'
      BY <2>1, <2>2, <3>1, UnmovedKeepsMap
    <3>3. CacheInv'
      BY <2>1, <2>12, NotLeaderKeepsCache
    <3>4. QED
      BY <3>2, <3>3 DEF RouteInv
  <2>13. ASSUME NEW r \in Request, Redirected(r) PROVE RouteInv'
    BY <2>1, <2>13, RedirectedKeepsRoutes DEF RouteInv
  <2>14. CASE UNCHANGED shardingVars
    <3>1. UNCHANGED <<made, shards, shardsByID, request, overlap, lastHint, leaderCache, actions>>
      BY <2>14 DEF shardingVars, shardMapVars, routerVars
    <3>2. QED
      BY <2>4, <3>1
  <2>15. QED
    BY <2>5, <2>6, <2>7, <2>8, <2>9, <2>10, <2>11, <2>12, <2>13, <2>14 DEF ShardingNext
<1>3. QED
  BY <1>1, <1>2

\* A key, a range and a redirected request find their shard where RouteInv holds.
LEMMA RouteInvRoutes ==
    ASSUME RouteInv
    PROVE  RoutesAreRight
<1>1. KeysAreCovered
  <2>1. ASSUME shards # <<>>, ~collided, NEW key \in 0 .. Top - 1
        PROVE  /\ Lookup(key) # 0
               /\ \A i \in DOMAIN shards : ContainsKey(made[shards[i]], key) <=> Lookup(key) = shards[i]
    BY <2>1, LookupFinds DEF RouteInv
  <2>2. QED
    BY <2>1 DEF KeysAreCovered
<1>2. RangeIsCovered
  <2>1. ASSUME shards # <<>>, ~collided, NEW startKey \in 0 .. Top - 1, NEW endKey \in startKey + 1 .. Top,
               NEW key \in startKey .. endKey - 1
        PROVE  key \in 0 .. Top - 1 /\ Lookup(key) \in LookupRange(startKey, endKey)
    <3>1. Top \in Nat
      BY ShardingAssumption DEF Top
    <3>2. key \in 0 .. Top - 1
      BY <2>1, <3>1
    <3>3. QED
      BY <2>1, <3>2, RangeFound DEF RouteInv
  <2>2. QED
    BY <2>1 DEF RangeIsCovered
<1>3. RedirectIsKept
  <2>1. ASSUME ~collided, NEW i \in DOMAIN shards, NEW id, id = made[shards[i]].id,
               lastHint[id] # 0, Redirecting(id) = {}, ~overlap[id]
        PROVE  ResolveLeader(shards[i]) = lastHint[id]
    <3>1. MapInv /\ CacheInv
      BY <2>1 DEF RouteInv
    <3>2. i \in 1 .. Len(shards)
      BY <2>1, <3>1 DEF MapInv
    <3>3. id \in ID /\ shardsByID[id] = shards[i] /\ shards[i] \in 1 .. Len(made)
      <4>1. Ids[i] = id /\ Ids[i] \in ID /\ shards[i] \in 1 .. Len(made)
        BY <2>1, <3>1, <3>2, ShardAt
      <4>2. QED
        BY <3>1, <3>2, <4>1 DEF MapInv
    <3>4. shardsByID[id] # 0
      BY <3>1, <3>3 DEF MapInv
    <3>5. (leaderCache[id] = 0 \/ leaderCache[id] = lastHint[id]) /\ made[shards[i]].leader = lastHint[id]
      BY <2>1, <3>1, <3>3, <3>4 DEF CacheInv
    <3>6. QED
      BY <2>1, <3>5 DEF ResolveLeader
  <2>2. QED
    BY <2>1 DEF RedirectIsKept
<1>4. QED
  BY <1>1, <1>2, <1>3 DEF RoutesAreRight

\* Routing is right whatever splits, merges, cache clears and redirects interleave, however
\* many shards, nodes and requests there are: Lookup finds the one shard of a key, a scan
\* asks every shard of its range, a redirected request goes where the last hint said.
THEOREM RoutesRight == ShardingSpec => []RoutesAreRight
<1>1. ShardingInit => RouteInv
  BY RouteInvInit
<1>2. RouteInv /\ [ShardingNext]_shardingVars => RouteInv'
  BY RouteInvNext
<1>3. RouteInv => RoutesAreRight
  BY RouteInvRoutes
<1>4. QED
  BY <1>1, <1>2, <1>3, PTL DEF ShardingSpec

-----------------------------------------------------------------------------
(* QueryPlanner and ScatterGather.  First the order of keys *)

Str == Seq(Nat)

\* The place where two strings part.
PartAt(a, b, d) ==
    /\ d \in 1 .. Len(b) /\ d <= Len(a) + 1
    /\ \A i \in 1 .. d - 1 : a[i] = b[i]
    /\ d <= Len(a) => a[d] < b[d]

LEMMA BeforeIs ==
    ASSUME NEW a \in Str, NEW b \in Str
    PROVE  Before(a, b) <=> \E d \in Nat : PartAt(a, b, d)
<1>1. DOMAIN b = 1 .. Len(b) /\ Len(b) \in Nat /\ Len(a) \in Nat
  BY DEF Str
<1>2. QED
  BY <1>1 DEF Before, PartAt

LEMMA StrTypes ==
    ASSUME NEW a \in Str
    PROVE  Len(a) \in Nat /\ \A i \in 1 .. Len(a) : a[i] \in Nat
BY DEF Str

\* No string comes before itself.
LEMMA BeforeIrreflexive ==
    ASSUME NEW a \in Str
    PROVE  ~Before(a, a)
<1>1. SUFFICES ASSUME NEW d \in Nat, PartAt(a, a, d) PROVE FALSE
  BY BeforeIs
<1>2. d \in 1 .. Len(a) /\ Len(a) \in Nat /\ a[d] \in Nat
  BY <1>1, StrTypes DEF PartAt
<1>3. a[d] < a[d]
  BY <1>1, <1>2 DEF PartAt
<1>4. QED
  BY <1>2, <1>3

LEMMA BeforeTransitive ==
    ASSUME NEW a \in Str, NEW b \in Str, NEW c \in Str, Before(a, b), Before(b, c)
    PROVE  Before(a, c)
<1>1. PICK d \in Nat : PartAt(a, b, d)
  BY BeforeIs
<1>2. PICK e \in Nat : PartAt(b, c, e)
  BY BeforeIs
<1>3. Len(a) \in Nat /\ Len(b) \in Nat /\ Len(c) \in Nat
  BY StrTypes
<1>4. /\ \A i \in 1 .. Len(a) : a[i] \in Nat
      /\ \A i \in 1 .. Len(b) : b[i] \in Nat
      /\ \A i \in 1 .. Len(c) : c[i] \in Nat
  BY StrTypes
<1>5. CASE d < e
  <2>1. PartAt(a, c, d)
    <3>1. d \in 1 .. Len(c) /\ d <= Len(a) + 1
      BY <1>1, <1>2, <1>3, <1>5 DEF PartAt
    <3>2. ASSUME NEW i \in 1 .. d - 1 PROVE a[i] = c[i]
      <4>1. a[i] = b[i]
        BY <1>1 DEF PartAt
      <4>2. i \in 1 .. e - 1
        BY <1>5
      <4>3. QED
        BY <1>2, <4>1, <4>2 DEF PartAt
    <3>3. d <= Len(a) => a[d] < c[d]
      <4>1. d \in 1 .. e - 1
        BY <1>1, <1>5 DEF PartAt
      <4>2. b[d] = c[d]
        BY <1>2, <4>1 DEF PartAt
      <4>3. QED
        BY <1>1, <4>2 DEF PartAt
    <3>4. QED
      BY <3>1, <3>2, <3>3 DEF PartAt
  <2>2. QED
    BY <2>1, BeforeIs
<1>6. CASE e <= d
  <2>1. PartAt(a, c, e)
    <3>1. e \in 1 .. Len(c) /\ e <= Len(a) + 1
      BY <1>1, <1>2, <1>3, <1>6 DEF PartAt
    <3>2. ASSUME NEW i \in 1 .. e - 1 PROVE a[i] = c[i]
      <4>1. b[i] = c[i]
        BY <1>2 DEF PartAt
      <4>2. i \in 1 .. d - 1
        BY <1>6
      <4>3. QED
        BY <1>1, <4>1, <4>2 DEF PartAt
    <3>3. ASSUME e <= Len(a) PROVE a[e] < c[e]
      <4>1. e <= Len(b) /\ e \in 1 .. Len(a) /\ e \in 1 .. Len(b) /\ e \in 1 .. Len(c)
        BY <1>1, <1>2, <1>3, <1>6, <3>3 DEF PartAt
      <4>2. b[e] < c[e]
        BY <1>2, <4>1 DEF PartAt
      <4>3. CASE e = d
        BY <1>1, <1>4, <3>3, <4>1, <4>2, <4>3 DEF PartAt
      <4>4. CASE e < d
        <5>1. e \in 1 .. d - 1
          BY <4>1, <4>4
        <5>2. a[e] = b[e]
          BY <1>1, <5>1 DEF PartAt
        <5>3. QED
          BY <4>2, <5>2
      <4>5. QED
        BY <1>6, <4>3, <4>4
    <3>4. QED
      BY <3>1, <3>2, <3>3 DEF PartAt
  <2>2. QED
    BY <2>1, BeforeIs
<1>7. QED
  BY <1>5, <1>6

LEMMA BeforeTotal ==
    ASSUME NEW a \in Str, NEW b \in Str, a # b
    PROVE  Before(a, b) \/ Before(b, a)
<1>1. Len(a) \in Nat /\ Len(b) \in Nat
  BY StrTypes
<1>2. /\ \A i \in 1 .. Len(a) : a[i] \in Nat
      /\ \A i \in 1 .. Len(b) : b[i] \in Nat
  BY StrTypes
<1>3. PICK T : T = {i \in Nat : i # 0 /\ (i > Len(a) \/ i > Len(b) \/ a[i] # b[i])}
  OBVIOUS
<1>4. Len(a) + 1 \in T
  BY <1>1, <1>3
<1>5. PICK d \in T : \A e \in T : d <= e
  BY <1>3, <1>4, NatMin
<1>6. d \in Nat /\ d # 0
  BY <1>3
<1>7. ASSUME NEW i \in 1 .. d - 1 PROVE i <= Len(a) /\ i <= Len(b) /\ a[i] = b[i]
  <2>1. i \in Nat /\ i # 0 /\ ~(d <= i)
    BY <1>6
  <2>2. i \notin T
    BY <1>5, <2>1
  <2>3. QED
    BY <1>1, <1>3, <2>1, <2>2
<1>8. d <= Len(a) + 1 /\ d <= Len(b) + 1
  <2>1. d = 1 \/ d - 1 \in 1 .. d - 1
    BY <1>6
  <2>2. QED
    BY <1>1, <1>6, <1>7, <2>1
<1>9. CASE d > Len(a) /\ d > Len(b)
  <2>1. Len(a) = Len(b) /\ Len(a) = d - 1
    BY <1>1, <1>6, <1>8, <1>9
  <2>2. \A i \in 1 .. Len(a) : a[i] = b[i]
    BY <1>7, <2>1
  <2>3. a = b
    BY <2>1, <2>2, SeqEqual DEF Str
  <2>4. QED
    BY <2>3
<1>10. CASE d <= Len(b) /\ (d > Len(a) \/ a[d] < b[d])
  <2>1. PartAt(a, b, d)
    BY <1>1, <1>6, <1>7, <1>8, <1>10 DEF PartAt
  <2>2. QED
    BY <1>6, <2>1, BeforeIs
<1>11. CASE d <= Len(a) /\ (d > Len(b) \/ b[d] < a[d])
  <2>1. PartAt(b, a, d)
    BY <1>1, <1>6, <1>7, <1>8, <1>11 DEF PartAt
  <2>2. QED
    BY <1>6, <2>1, BeforeIs
<1>12. ASSUME d <= Len(a), d <= Len(b) PROVE a[d] < b[d] \/ b[d] < a[d]
  <2>1. d \in 1 .. Len(a) /\ d \in 1 .. Len(b)
    BY <1>1, <1>6, <1>12
  <2>2. a[d] # b[d]
    BY <1>1, <1>3, <1>5, <1>6, <1>12
  <2>3. QED
    BY <1>2, <2>1, <2>2
<1>13. QED
  BY <1>1, <1>6, <1>9, <1>10, <1>11, <1>12

\* Nothing comes before the empty string, and it before everything else.
LEMMA EmptyFirst ==
    ASSUME NEW a \in Str
    PROVE  ~Before(a, <<>>) /\ (a # <<>> => Before(<<>>, a))
<1>1. <<>> \in Str /\ Len(<<>>) = 0
  BY DEF Str
<1>2. ~Before(a, <<>>)
  BY DEF Before
<1>3. QED
  BY <1>1, <1>2, BeforeTotal

\* A string that lies between a prefix and what it is a prefix of has it too.
LEMMA PrefixBetween ==
    ASSUME NEW p \in Str, NEW s \in Str, NEW k \in Str,
           HasPrefix(k, p), NotAfter(p, s), NotAfter(s, k)
    PROVE  HasPrefix(s, p)
<1>1. Len(p) \in Nat /\ Len(s) \in Nat /\ Len(k) \in Nat
  BY StrTypes
<1>2. /\ \A i \in 1 .. Len(p) : p[i] \in Nat
      /\ \A i \in 1 .. Len(s) : s[i] \in Nat
      /\ \A i \in 1 .. Len(k) : k[i] \in Nat
  BY StrTypes
<1>3. Len(p) <= Len(k) /\ \A i \in 1 .. Len(p) : k[i] = p[i]
  <2>1. Len(p) <= Len(k) /\ SubSeq(k, 1, Len(p)) = p
    BY DEF HasPrefix
  <2>2. \A i \in 1 .. Len(p) : SubSeq(k, 1, Len(p))[i] = k[i]
    BY <1>1, <2>1 DEF Str
  <2>3. QED
    BY <2>1, <2>2
<1>4. ASSUME Len(p) <= Len(s), \A i \in 1 .. Len(p) : s[i] = p[i] PROVE HasPrefix(s, p)
  <2>1. SubSeq(s, 1, Len(p)) \in Str /\ Len(SubSeq(s, 1, Len(p))) = Len(p)
    BY <1>1, <1>4 DEF Str
  <2>2. \A i \in 1 .. Len(p) : SubSeq(s, 1, Len(p))[i] = p[i]
    BY <1>1, <1>4 DEF Str
  <2>3. SubSeq(s, 1, Len(p)) = p
    BY <2>1, <2>2 DEF Str
  <2>4. QED
    BY <1>4, <2>3 DEF HasPrefix
<1>5. CASE p = s
  BY <1>1, <1>4, <1>5
<1>6. CASE s = k
  BY <1>6
<1>7. CASE p # s /\ s # k
  <2>1. PICK d \in Nat : PartAt(p, s, d)
    BY <1>7, BeforeIs DEF NotAfter
  <2>2. PICK e \in Nat : PartAt(s, k, e)
    BY <1>7, BeforeIs DEF NotAfter
  <2>3. d \in 1 .. Len(s) /\ e \in 1 .. Len(k) /\ e <= Len(s) + 1
    BY <2>1, <2>2 DEF PartAt
  <2>4. ASSUME d <= Len(p) PROVE FALSE
    <3>1. d \in 1 .. Len(p) /\ p[d] < s[d] /\ k[d] = p[d]
      BY <1>1, <1>3, <2>1, <2>3, <2>4 DEF PartAt
    <3>2. CASE e < d
      <4>1. e \in 1 .. d - 1 /\ e \in 1 .. Len(p) /\ e \in 1 .. Len(s) /\ e <= Len(s)
        BY <1>1, <2>3, <2>4, <3>2
      <4>2. s[e] < k[e] /\ k[e] = p[e] /\ p[e] = s[e]
        BY <1>3, <2>1, <2>2, <4>1 DEF PartAt
      <4>3. QED
        BY <1>2, <4>1, <4>2
    <3>3. CASE e = d
      <4>1. s[d] < k[d]
        BY <1>1, <2>2, <2>3, <3>3 DEF PartAt
      <4>2. QED
        BY <1>2, <2>3, <3>1, <4>1
    <3>4. CASE e > d
      <4>1. d \in 1 .. e - 1
        BY <2>3, <3>4
      <4>2. s[d] = k[d]
        BY <2>2, <4>1 DEF PartAt
      <4>3. QED
        BY <1>2, <2>3, <3>1, <4>2
    <3>5. QED
      BY <3>2, <3>3, <3>4
  <2>5. d = Len(p) + 1
    BY <1>1, <2>1, <2>4 DEF PartAt
  <2>6. Len(p) <= Len(s) /\ \A i \in 1 .. Len(p) : s[i] = p[i]
    BY <1>1, <2>1, <2>3, <2>5 DEF PartAt
  <2>7. QED
    BY <1>4, <2>6
<1>8. QED
  BY <1>5, <1>6, <1>7

\* A prefix does not come after what it is a prefix of.
LEMMA PrefixFirst ==
    ASSUME NEW p \in Str, NEW k \in Str, HasPrefix(k, p)
    PROVE  NotAfter(p, k)
<1>1. Len(p) \in Nat /\ Len(k) \in Nat
  BY StrTypes
<1>2. Len(p) <= Len(k) /\ SubSeq(k, 1, Len(p)) = p
  BY DEF HasPrefix
<1>3. \A i \in 1 .. Len(p) : p[i] = k[i]
  <2>1. \A i \in 1 .. Len(p) : SubSeq(k, 1, Len(p))[i] = k[i]
    BY <1>1, <1>2 DEF Str
  <2>2. QED
    BY <1>2, <2>1
<1>4. CASE Len(p) = Len(k)
  <2>1. p = k
    BY <1>3, <1>4 DEF Str
  <2>2. QED
    BY <2>1 DEF NotAfter
<1>5. CASE Len(p) < Len(k)
  <2>1. PartAt(p, k, Len(p) + 1)
    BY <1>1, <1>3, <1>5 DEF PartAt
  <2>2. QED
    BY <1>1, <2>1, BeforeIs DEF NotAfter
<1>6. QED
  BY <1>1, <1>2, <1>4, <1>5

LEMMA NotAfterIs ==
    ASSUME NEW a \in Str, NEW b \in Str
    PROVE  NotAfter(a, b) <=> ~Before(b, a)
<1>1. Before(a, b) => ~Before(b, a)
  BY BeforeTransitive, BeforeIrreflexive
<1>2. QED
  BY <1>1, BeforeTotal, BeforeIrreflexive DEF NotAfter

LEMMA NotAfterTransitive ==
    ASSUME NEW a \in Str, NEW b \in Str, NEW c \in Str, NotAfter(a, b), NotAfter(b, c)
    PROVE  NotAfter(a, c)
BY BeforeTransitive DEF NotAfter

\* What comes no later than something before c comes before c.
LEMMA NotAfterBefore ==
    ASSUME NEW a \in Str, NEW b \in Str, NEW c \in Str, NotAfter(a, b), Before(b, c)
    PROVE  Before(a, c)
BY BeforeTransitive DEF NotAfter

-----------------------------------------------------------------------------
(* The ranges of the shards *)

LEMMA ShardTypes ==
    /\ ShardCount \in Nat /\ ShardCount >= 1
    /\ StartKey(1) = <<>> /\ EndKey(ShardCount) = <<>>
    /\ \A i \in 1 .. ShardCount : StartKey(i) \in Str /\ EndKey(i) \in Str
    /\ \A i \in 2 .. ShardCount : StartKey(i) = SplitKeys[i - 1] /\ StartKey(i) # <<>>
    /\ \A i \in 1 .. ShardCount : i # ShardCount => EndKey(i) = SplitKeys[i] /\ EndKey(i) # <<>>
    /\ \A i \in 1 .. ShardCount : i # ShardCount => i + 1 \in 2 .. ShardCount /\ EndKey(i) = StartKey(i + 1)
<1>1. SplitKeys \in Seq(Str) /\ Len(SplitKeys) \in Nat /\ DOMAIN SplitKeys = 1 .. Len(SplitKeys)
  BY QueryAssumption DEF Str
<1>2. \A i \in 1 .. Len(SplitKeys) : SplitKeys[i] \in Str /\ SplitKeys[i] # <<>>
  BY <1>1, QueryAssumption, ElementOfSeq
<1>3. <<>> \in Str
  BY DEF Str
<1>4. ShardCount \in Nat /\ ShardCount >= 1 /\ ShardCount = Len(SplitKeys) + 1
  BY <1>1 DEF ShardCount
<1>5. ASSUME NEW i \in 1 .. ShardCount, i # 1
      PROVE  i - 1 \in 1 .. Len(SplitKeys) /\ StartKey(i) = SplitKeys[i - 1]
  BY <1>1, <1>4, <1>5 DEF StartKey
<1>6. ASSUME NEW i \in 1 .. ShardCount, i # ShardCount
      PROVE  i \in 1 .. Len(SplitKeys) /\ EndKey(i) = SplitKeys[i]
  BY <1>1, <1>4, <1>6 DEF EndKey
<1>7. StartKey(1) = <<>> /\ EndKey(ShardCount) = <<>>
  BY DEF StartKey, EndKey
<1>8. \A i \in 1 .. ShardCount : StartKey(i) \in Str /\ EndKey(i) \in Str
  BY <1>2, <1>3, <1>5, <1>6, <1>7
<1>9. \A i \in 2 .. ShardCount : StartKey(i) = SplitKeys[i - 1] /\ StartKey(i) # <<>>
  <2>1. \A i \in 2 .. ShardCount : i \in 1 .. ShardCount /\ i # 1
    BY <1>4
  <2>2. QED
    BY <1>2, <1>5, <2>1
<1>10. \A i \in 1 .. ShardCount : i # ShardCount => EndKey(i) = SplitKeys[i] /\ EndKey(i) # <<>>
  BY <1>2, <1>6
<1>11. ASSUME NEW i \in 1 .. ShardCount, i # ShardCount
       PROVE  i + 1 \in 2 .. ShardCount /\ EndKey(i) = StartKey(i + 1)
  <2>1. i + 1 \in 2 .. ShardCount /\ i + 1 \in 1 .. ShardCount /\ i + 1 # 1 /\ (i + 1) - 1 = i
    BY <1>4, <1>11
  <2>2. QED
    BY <1>6, <1>5, <1>11, <2>1
<1>12. QED
  BY <1>4, <1>7, <1>8, <1>9, <1>10, <1>11

Holds(i, k) == InRange(k, StartKey(i), EndKey(i))

\* A shard ends no later than any later one starts.
LEMMA ShardsAscend ==
    ASSUME NEW i \in 1 .. ShardCount, NEW j \in 1 .. ShardCount, i < j
    PROVE  EndKey(i) # <<>> /\ NotAfter(EndKey(i), StartKey(j))
<1>1. ShardCount \in Nat /\ i # ShardCount /\ j \in 2 .. ShardCount
  BY ShardTypes
<1>2. EndKey(i) = SplitKeys[i] /\ EndKey(i) # <<>> /\ StartKey(j) = SplitKeys[j - 1]
  BY <1>1, ShardTypes
<1>3. i = j - 1 \/ Before(SplitKeys[i], SplitKeys[j - 1])
  <2>1. Len(SplitKeys) \in Nat /\ DOMAIN SplitKeys = 1 .. Len(SplitKeys) /\ ShardCount = Len(SplitKeys) + 1
    BY QueryAssumption DEF ShardCount
  <2>2. i \in DOMAIN SplitKeys /\ j - 1 \in DOMAIN SplitKeys /\ (i = j - 1 \/ i < j - 1)
    BY <1>1, <2>1
  <2>3. QED
    BY <2>2, QueryAssumption
<1>4. QED
  BY <1>2, <1>3 DEF NotAfter

\* Every key belongs to one shard.
LEMMA OneShard ==
    ASSUME NEW k \in Str
    PROVE  /\ \E i \in 1 .. ShardCount : Holds(i, k)
           /\ \A i, j \in 1 .. ShardCount : Holds(i, k) /\ Holds(j, k) => i = j
<1>1. ShardCount \in Nat /\ ShardCount >= 1 /\ 1 \in 1 .. ShardCount
  BY ShardTypes
<1>2. PICK T : T = {i \in 1 .. ShardCount : NotAfter(StartKey(i), k)}
  OBVIOUS
<1>3. 1 \in T
  <2>1. NotAfter(<<>>, k)
    BY EmptyFirst DEF NotAfter
  <2>2. QED
    BY <1>1, <1>2, <2>1, ShardTypes
<1>4. PICK i \in T : \A j \in T : j <= i
  <2>1. T \in SUBSET (0 .. ShardCount) /\ T # {}
    BY <1>1, <1>2, <1>3
  <2>2. QED
    BY <1>1, <2>1, NatMax
<1>5. i \in 1 .. ShardCount /\ NotAfter(StartKey(i), k)
  BY <1>2
<1>6. Holds(i, k)
  <2>1. CASE i = ShardCount
    BY <1>5, <2>1, ShardTypes DEF Holds, InRange
  <2>2. CASE i # ShardCount
    <3>1. i + 1 \in 1 .. ShardCount /\ EndKey(i) = StartKey(i + 1) /\ StartKey(i + 1) \in Str
      <4>1. i + 1 \in 2 .. ShardCount /\ EndKey(i) = StartKey(i + 1)
        BY <1>5, <2>2, ShardTypes
      <4>2. i + 1 \in 1 .. ShardCount
        BY <1>1, <4>1
      <4>3. QED
        BY <4>1, <4>2, ShardTypes
    <3>2. i + 1 \notin T
      BY <1>1, <1>4, <1>5
    <3>3. ~NotAfter(StartKey(i + 1), k)
      BY <1>2, <3>1, <3>2
    <3>4. Before(k, EndKey(i))
      BY <3>1, <3>3, NotAfterIs
    <3>5. QED
      BY <1>5, <3>4 DEF Holds, InRange
  <2>3. QED
    BY <2>1, <2>2
<1>7. ASSUME NEW m \in 1 .. ShardCount, NEW n \in 1 .. ShardCount, Holds(m, k), Holds(n, k), m < n
      PROVE  FALSE
  <2>1. EndKey(m) # <<>> /\ NotAfter(EndKey(m), StartKey(n))
    BY <1>7, ShardsAscend
  <2>2. Before(k, EndKey(m)) /\ NotAfter(StartKey(n), k)
    BY <1>7, <2>1 DEF Holds, InRange
  <2>3. EndKey(m) \in Str /\ StartKey(n) \in Str
    BY ShardTypes
  <2>4. NotAfter(EndKey(m), k)
    BY <2>1, <2>2, <2>3, NotAfterTransitive
  <2>5. QED
    BY <2>2, <2>3, <2>4, NotAfterIs
<1>8. \A m, n \in 1 .. ShardCount : Holds(m, k) /\ Holds(n, k) => m = n
  <2>1. \A m, n \in 1 .. ShardCount : m < n \/ n < m \/ m = n
    BY <1>1
  <2>2. QED
    BY <1>7, <2>1
<1>9. QED
  BY <1>5, <1>6, <1>8

\* The range of a sub-query is what its shard and the query have in common.
LEMMA RangesMeet ==
    ASSUME NEW k \in Str, NEW s \in Str, NEW e \in Str, NEW t \in Str, NEW f \in Str
    PROVE  InRange(k, s, e) /\ InRange(k, t, f)
               <=> InRange(k, t, f) /\ InRange(k, MaxStr(s, t), MinStr(e, f))
<1>1. ASSUME NotAfter(s, k), NotAfter(t, k) PROVE NotAfter(MaxStr(s, t), k)
  BY <1>1 DEF MaxStr
<1>2. ASSUME NotAfter(MaxStr(s, t), k) PROVE NotAfter(s, k)
  <2>1. CASE Before(t, s)
    BY <1>2, <2>1 DEF MaxStr
  <2>2. CASE ~Before(t, s)
    BY <1>2, <2>2, NotAfterIs, NotAfterTransitive DEF MaxStr
  <2>3. QED
    BY <2>1, <2>2
<1>3. ASSUME e = <<>> \/ Before(k, e), f = <<>> \/ Before(k, f)
      PROVE  MinStr(e, f) = <<>> \/ Before(k, MinStr(e, f))
  BY <1>3 DEF MinStr
<1>4. ASSUME f = <<>> \/ Before(k, f), MinStr(e, f) = <<>> \/ Before(k, MinStr(e, f))
      PROVE  e = <<>> \/ Before(k, e)
  <2>1. CASE e = <<>>
    BY <2>1
  <2>2. CASE e # <<>> /\ f = <<>>
    BY <1>4, <2>2 DEF MinStr
  <2>3. CASE e # <<>> /\ f # <<>> /\ Before(e, f)
    BY <1>4, <2>3 DEF MinStr
  <2>4. CASE e # <<>> /\ f # <<>> /\ ~Before(e, f)
    <3>1. MinStr(e, f) = f
      BY <2>4 DEF MinStr
    <3>2. Before(k, f)
      BY <1>4, <2>4
    <3>3. f = e \/ Before(f, e)
      BY <2>4, BeforeTotal
    <3>4. QED
      BY <3>2, <3>3, BeforeTransitive
  <2>5. QED
    BY <2>1, <2>2, <2>3, <2>4
<1>5. QED
  BY <1>1, <1>2, <1>3, <1>4 DEF InRange

\* pruneShards leaves out no shard that has a key of the range.
LEMMA PrunedHaveNoKey ==
    ASSUME NEW q, q.start \in Str, q.end \in Str, NEW i \in 1 .. ShardCount, OutsideRange(q, i),
           NEW k \in Str, InRange(k, q.start, q.end)
    PROVE  ~Holds(i, k)
<1>1. SUFFICES ASSUME Holds(i, k) PROVE FALSE
  OBVIOUS
<1>2. PICK s \in Str, e \in Str, t \in Str, f \in Str :
        s = q.start /\ e = q.end /\ t = StartKey(i) /\ f = EndKey(i)
  BY ShardTypes
<1>3. NotAfter(s, k) /\ (e = <<>> \/ Before(k, e)) /\ NotAfter(t, k) /\ (f = <<>> \/ Before(k, f))
  BY <1>1, <1>2 DEF Holds, InRange
<1>4. CASE f # <<>> /\ NotAfter(f, s)
  <2>1. NotAfter(f, k)
    BY <1>3, <1>4, NotAfterTransitive
  <2>2. QED
    BY <1>3, <1>4, <2>1, NotAfterIs
<1>5. CASE e # <<>> /\ NotAfter(e, t)
  <2>1. NotAfter(e, k)
    BY <1>3, <1>5, NotAfterTransitive
  <2>2. QED
    BY <1>3, <1>5, <2>1, NotAfterIs
<1>6. QED
  BY <1>2, <1>4, <1>5 DEF OutsideRange

\* Nor one that has a key with the prefix.
LEMMA PrunedHaveNoPrefix ==
    ASSUME NEW p \in Str, NEW i \in 1 .. ShardCount, OutsidePrefix(p, i),
           NEW k \in Str, HasPrefix(k, p)
    PROVE  ~Holds(i, k)
<1>1. SUFFICES ASSUME Holds(i, k) PROVE FALSE
  OBVIOUS
<1>2. PICK t \in Str, f \in Str : t = StartKey(i) /\ f = EndKey(i)
  BY ShardTypes
<1>3. NotAfter(t, k) /\ (f = <<>> \/ Before(k, f)) /\ NotAfter(p, k)
  BY <1>1, <1>2, PrefixFirst DEF Holds, InRange
<1>4. CASE f # <<>> /\ Before(f, p)
  <2>1. Before(k, f) /\ Before(k, p)
    BY <1>3, <1>4, BeforeTransitive
  <2>2. QED
    BY <1>3, <2>1, NotAfterIs
<1>5. CASE Before(p, t) /\ ~HasPrefix(t, p)
  <2>1. NotAfter(p, t)
    BY <1>5 DEF NotAfter
  <2>2. QED
    BY <1>3, <1>5, <2>1, PrefixBetween
<1>6. QED
  BY <1>2, <1>4, <1>5 DEF OutsidePrefix

-----------------------------------------------------------------------------
(* The first entries *)

KeysBefore(k, keys) == {j \in keys : Before(j, k)}

LEMMA FirstOfIs ==
    ASSUME NEW keys, NEW limit
    PROVE  /\ limit = 0 => FirstOf(keys, limit) = keys
           /\ limit # 0 => FirstOf(keys, limit) = {k \in keys : Cardinality(KeysBefore(k, keys)) < limit}
BY DEF FirstOf, KeysBefore

LEMMA SubsetSmaller ==
    ASSUME NEW A, NEW B, IsFiniteSet(B), A \subseteq B
    PROVE  Cardinality(A) \in Nat /\ Cardinality(B) \in Nat /\ Cardinality(A) <= Cardinality(B)
BY FS_Subset, FS_CardinalityType

\* A finite set of strings has a first one.
LEMMA FirstString ==
    ASSUME NEW E \in SUBSET Str, IsFiniteSet(E), E # {}
    PROVE  \E m \in E : \A j \in E : ~Before(j, m)
<1>1. PICK T : T = {Cardinality(KeysBefore(m, E)) : m \in E}
  OBVIOUS
<1>2. \A m \in E : IsFiniteSet(KeysBefore(m, E)) /\ Cardinality(KeysBefore(m, E)) \in Nat
  BY FS_Subset, FS_CardinalityType DEF KeysBefore
<1>3. PICK x \in T : \A y \in T : x <= y
  <2>1. T \in SUBSET Nat /\ T # {}
    BY <1>1, <1>2
  <2>2. QED
    BY <2>1, NatMin
<1>4. PICK m \in E : x = Cardinality(KeysBefore(m, E))
  BY <1>1
<1>5. ASSUME NEW j \in E, Before(j, m) PROVE FALSE
  <2>1. KeysBefore(j, E) \subseteq KeysBefore(m, E) \ {j}
    BY <1>5, BeforeTransitive, BeforeIrreflexive DEF KeysBefore
  <2>2. j \in KeysBefore(m, E)
    BY <1>5 DEF KeysBefore
  <2>3. Cardinality(KeysBefore(m, E) \ {j}) = x - 1 /\ IsFiniteSet(KeysBefore(m, E) \ {j})
    BY <1>2, <1>4, <2>2, FS_RemoveElement
  <2>4. Cardinality(KeysBefore(j, E)) <= x - 1
    BY <2>1, <2>3, SubsetSmaller
  <2>5. Cardinality(KeysBefore(j, E)) \in T /\ Cardinality(KeysBefore(j, E)) \in Nat /\ x \in Nat
    BY <1>1, <1>2, <1>4
  <2>6. QED
    BY <1>3, <2>4, <2>5
<1>6. QED
  BY <1>5

\* The first entries of the parts' first entries are those of the whole.
LEMMA FirstsMerge ==
    ASSUME NEW D \in SUBSET Str, IsFiniteSet(D), NEW limit \in Nat, NEW I, NEW part,
           \A i \in I : part[i] \subseteq D,
           \A k \in D : \E i \in I : k \in part[i]
    PROVE  FirstOf(UNION {FirstOf(part[i], limit) : i \in I}, limit) = FirstOf(D, limit)
<1>1. PICK U : U = UNION {FirstOf(part[i], limit) : i \in I}
  OBVIOUS
<1>2. \A i \in I : FirstOf(part[i], limit) \subseteq part[i]
  BY FirstOfIs
<1>3. \A k \in U : \E i \in I : k \in FirstOf(part[i], limit)
  BY <1>1
<1>4. \A i \in I : \A k \in FirstOf(part[i], limit) : k \in U
  BY <1>1
<1>5. U \subseteq D
  BY <1>2, <1>3
<1>6. CASE limit = 0
  <2>1. U = D
    <3>1. \A i \in I : FirstOf(part[i], limit) = part[i]
      BY <1>6, FirstOfIs
    <3>2. QED
      BY <1>4, <1>5, <3>1
  <2>2. QED
    BY <1>1, <2>1
<1>7. CASE limit # 0
  <2>1. ASSUME NEW k \in D, Cardinality(KeysBefore(k, D)) < limit
        PROVE  k \in U /\ Cardinality(KeysBefore(k, U)) < limit
    <3>1. PICK i \in I : k \in part[i]
      OBVIOUS
    <3>2. /\ KeysBefore(k, part[i]) \subseteq KeysBefore(k, D)
          /\ KeysBefore(k, U) \subseteq KeysBefore(k, D)
          /\ KeysBefore(k, D) \subseteq D
      BY <1>5 DEF KeysBefore
    <3>3. IsFiniteSet(KeysBefore(k, D))
      BY <3>2, FS_Subset
    <3>4. /\ Cardinality(KeysBefore(k, part[i])) \in Nat /\ Cardinality(KeysBefore(k, D)) \in Nat
          /\ Cardinality(KeysBefore(k, part[i])) <= Cardinality(KeysBefore(k, D))
      BY <3>2, <3>3, SubsetSmaller
    <3>5. /\ Cardinality(KeysBefore(k, U)) \in Nat
          /\ Cardinality(KeysBefore(k, U)) <= Cardinality(KeysBefore(k, D))
      BY <3>2, <3>3, SubsetSmaller
    <3>6. k \in FirstOf(part[i], limit)
      BY <1>7, <2>1, <3>1, <3>4, FirstOfIs
    <3>7. QED
      BY <1>4, <2>1, <3>4, <3>5, <3>6
  <2>2. ASSUME NEW k \in U, Cardinality(KeysBefore(k, U)) < limit
        PROVE  k \in D /\ Cardinality(KeysBefore(k, D)) < limit
    <3>1. PICK E : E = {m \in D : Before(m, k) /\ m \notin U}
      OBVIOUS
    <3>2. E \in SUBSET Str /\ IsFiniteSet(E) /\ k \in Str /\ IsFiniteSet(U)
      BY <1>5, <3>1, FS_Subset
    <3>3. CASE E = {}
      <4>1. KeysBefore(k, D) = KeysBefore(k, U)
        BY <1>5, <3>1, <3>3 DEF KeysBefore
      <4>2. QED
        BY <1>5, <2>2, <4>1
    <3>4. CASE E # {}
      <4>1. PICK m \in E : \A j \in E : ~Before(j, m)
        BY <3>2, <3>4, FirstString
      <4>2. m \in D /\ m \in Str /\ Before(m, k) /\ m \notin U
        BY <3>1
      <4>3. PICK i \in I : m \in part[i]
        BY <4>2
      <4>4. m \notin FirstOf(part[i], limit)
        BY <1>4, <4>2
      <4>5. ~(Cardinality(KeysBefore(m, part[i])) < limit)
        BY <1>7, <4>3, <4>4, FirstOfIs
      <4>6. ASSUME NEW j \in KeysBefore(m, part[i]) PROVE j \in KeysBefore(k, U)
        <5>1. j \in D /\ j \in Str /\ Before(j, m)
          BY DEF KeysBefore
        <5>2. Before(j, k)
          BY <3>2, <4>2, <5>1, BeforeTransitive
        <5>3. j \in U
          BY <3>1, <4>1, <5>1, <5>2
        <5>4. QED
          BY <5>2, <5>3 DEF KeysBefore
      <4>7. IsFiniteSet(KeysBefore(k, U))
        BY <3>2, FS_Subset DEF KeysBefore
      <4>8. /\ Cardinality(KeysBefore(m, part[i])) \in Nat /\ Cardinality(KeysBefore(k, U)) \in Nat
            /\ Cardinality(KeysBefore(m, part[i])) <= Cardinality(KeysBefore(k, U))
        BY <4>6, <4>7, SubsetSmaller
      <4>9. QED
        BY <2>2, <4>5, <4>8
    <3>5. QED
      BY <3>3, <3>4
  <2>3. FirstOf(U, limit) = FirstOf(D, limit)
    <3>1. FirstOf(U, limit) = {k \in U : Cardinality(KeysBefore(k, U)) < limit}
      BY <1>7, FirstOfIs
    <3>2. FirstOf(D, limit) = {k \in D : Cardinality(KeysBefore(k, D)) < limit}
      BY <1>7, FirstOfIs
    <3>3. QED
      BY <2>1, <2>2, <3>1, <3>2
  <2>4. QED
    BY <1>1, <2>3
<1>8. QED
  BY <1>6, <1>7

-----------------------------------------------------------------------------
(* Aggregates *)

\* Sums over the parts add up to the sum over the whole.
LEMMA SumOfParts ==
    ASSUME NEW U, IsFiniteSet(U), NEW f, \A x \in U : f[x] \in Int,
           NEW I, IsFiniteSet(I), NEW part,
           \A i \in I : part[i] \subseteq U,
           \A i, j \in I : i # j => part[i] \cap part[j] = {},
           NEW g, \A i \in I : g[i] = SumFunctionOnSet(f, part[i])
    PROVE  SumFunctionOnSet(g, I) = SumFunctionOnSet(f, UNION {part[i] : i \in I})
<1>1. PICK T : T = {s \in SUBSET I :
                      SumFunctionOnSet(g, s) = SumFunctionOnSet(f, UNION {part[i] : i \in s})}
  OBVIOUS
<1>2. \A i \in I : g[i] \in Int
  BY SumAdds
<1>3. {} \in T
  <2>1. UNION {part[i] : i \in {}} = {}
    OBVIOUS
  <2>2. SumFunctionOnSet(g, {}) = 0
    BY <1>2, SumAdds
  <2>3. SumFunctionOnSet(f, {}) = 0
    BY SumAdds
  <2>4. QED
    BY <1>1, <2>1, <2>2, <2>3
<1>4. ASSUME NEW s \in SUBSET I, NEW x \in I \ s, s \in T PROVE s \cup {x} \in T
  <2>1. PICK A : A = UNION {part[i] : i \in s}
    OBVIOUS
  <2>2. A \in SUBSET U /\ part[x] \in SUBSET U /\ A \cap part[x] = {}
    BY <2>1
  <2>3. UNION {part[i] : i \in s \cup {x}} = A \cup part[x]
    BY <2>1
  <2>4. SumFunctionOnSet(f, A \cup part[x]) = SumFunctionOnSet(f, A) + SumFunctionOnSet(f, part[x])
    BY <2>2, SumOfUnion
  <2>5. SumFunctionOnSet(g, s \cup {x}) = g[x] + SumFunctionOnSet(g, s)
    BY <1>2, SumAdds
  <2>6. SumFunctionOnSet(g, s) = SumFunctionOnSet(f, A)
    BY <1>1, <1>4, <2>1
  <2>7. SumFunctionOnSet(f, A) \in Int /\ SumFunctionOnSet(f, part[x]) \in Int
    BY <2>2, SumAdds
  <2>8. SumFunctionOnSet(g, s \cup {x}) = SumFunctionOnSet(f, A \cup part[x])
    BY <2>4, <2>5, <2>6, <2>7
  <2>9. QED
    BY <1>1, <2>3, <2>8
<1>5. \A s \in SUBSET I : s \in T
  BY ONLY <1>3, <1>4, IsFiniteSet(I), SubsetInduction
<1>6. QED
  BY <1>1, <1>5

\* A cardinality is a sum of ones.
LEMMA CardinalityIsSum ==
    ASSUME NEW U, IsFiniteSet(U), NEW ones, \A x \in U : ones[x] = 1
    PROVE  \A S \in SUBSET U : SumFunctionOnSet(ones, S) = Cardinality(S)
<1>1. PICK T : T = {s \in SUBSET U : SumFunctionOnSet(ones, s) = Cardinality(s)}
  OBVIOUS
<1>2. \A x \in U : ones[x] \in Int
  OBVIOUS
<1>3. {} \in T
  BY <1>1, <1>2, SumAdds, FS_EmptySet
<1>4. ASSUME NEW s \in SUBSET U, NEW x \in U \ s, s \in T PROVE s \cup {x} \in T
  <2>1. SumFunctionOnSet(ones, s \cup {x}) = 1 + SumFunctionOnSet(ones, s)
    BY <1>2, SumAdds
  <2>2. IsFiniteSet(s) /\ Cardinality(s) \in Nat
    BY FS_Subset, FS_CardinalityType
  <2>3. Cardinality(s \cup {x}) = Cardinality(s) + 1
    BY <2>2, FS_AddElement
  <2>4. QED
    BY <1>1, <1>4, <2>1, <2>2, <2>3
<1>5. \A s \in SUBSET U : s \in T
  BY ONLY <1>3, <1>4, IsFiniteSet(U), SubsetInduction
<1>6. QED
  BY <1>1, <1>5

\* A finite set of integers has a least and a greatest one.
LEMMA MinMaxExist ==
    ASSUME NEW S \in SUBSET Int, IsFiniteSet(S), S # {}
    PROVE  /\ Min(S) \in S /\ \A y \in S : Min(S) <= y
           /\ Max(S) \in S /\ \A y \in S : y <= Max(S)
<1>1. PICK T : T = {s \in SUBSET S : s = {} \/ \E x, z \in s : \A y \in s : x <= y /\ y <= z}
  OBVIOUS
<1>2. {} \in T
  BY <1>1
<1>3. ASSUME NEW s \in SUBSET S, NEW w \in S \ s, s \in T PROVE s \cup {w} \in T
  <2>1. CASE s = {}
    BY <1>1, <2>1
  <2>2. CASE s # {}
    <3>1. PICK x \in s, z \in s : \A y \in s : x <= y /\ y <= z
      BY <1>1, <1>3, <2>2
    <3>2. PICK a \in s \cup {w} : a <= x /\ a <= w
      <4>1. x \in Int /\ w \in Int /\ (x <= w \/ w <= x)
        OBVIOUS
      <4>2. QED
        BY <4>1
    <3>3. PICK b \in s \cup {w} : z <= b /\ w <= b
      <4>1. z \in Int /\ w \in Int /\ (z <= w \/ w <= z)
        OBVIOUS
      <4>2. QED
        BY <4>1
    <3>4. \A y \in s \cup {w} : a <= y /\ y <= b
      BY <3>1, <3>2, <3>3
    <3>5. QED
      BY <1>1, <3>4
  <2>3. QED
    BY <2>1, <2>2
<1>4. \A s \in SUBSET S : s \in T
  BY ONLY <1>2, <1>3, IsFiniteSet(S), SubsetInduction
<1>5. PICK x \in S, z \in S : \A y \in S : x <= y /\ y <= z
  BY <1>1, <1>4
<1>6. Min(S) \in S /\ \A y \in S : Min(S) <= y
  BY <1>5 DEF Min
<1>7. Max(S) \in S /\ \A y \in S : Max(S) >= y
  <2>1. \A y \in S : z >= y
    BY <1>5
  <2>2. QED
    BY <2>1 DEF Max
<1>8. QED
  BY <1>6, <1>7

-----------------------------------------------------------------------------
(* Queries *)

\* A result is merged when every shard that was not left out has answered.
QueryInv ==
    /\ DOMAIN dataset \subseteq StoredKeys /\ \A k \in DOMAIN dataset : dataset[k] \in QueryValues
    /\ query.start \in Str /\ query.end \in Str /\ query.prefix \in Str /\ query.limit \in Nat
    /\ query.prefix # <<>> => query.start = <<>> /\ query.end = <<>> /\ query.limit = 0
    /\ outcome # "idle" => query.shards = PruneShards(query)
    /\ query.shards \subseteq 1 .. ShardCount
    /\ answers \in [1 .. ShardCount -> {"pending", "ok", "err"}]
    /\ outcome = "done" => Answered("pending") = {}

LEMMA QueryInvInit == QueryInit => QueryInv
<1>1. <<>> \in Str
  BY DEF Str
<1>2. QED
  BY <1>1 DEF QueryInit, QueryInv

\* Every step of the planner and of the gathering keeps QueryInv.
LEMMA QueryInvNext ==
    ASSUME QueryInv, [QueryNext]_queryVars
    PROVE  QueryInv'
<1>1. ASSUME NEW q \in Queries, Execute(q) PROVE QueryInv'
  <2>1. PICK keys \in SUBSET StoredKeys : \E data \in [keys -> QueryValues] : dataset' = data
    BY <1>1 DEF Execute
  <2>2. DOMAIN dataset' \subseteq StoredKeys /\ \A k \in DOMAIN dataset' : dataset'[k] \in QueryValues
    BY <2>1
  <2>3. /\ q.start \in Str /\ q.end \in Str /\ q.prefix \in Str /\ q.limit \in Nat
        /\ q.prefix # <<>> => q.start = <<>> /\ q.end = <<>> /\ q.limit = 0
    <3>1. QueryKeys \subseteq Str /\ QueryLimits \subseteq Nat /\ <<>> \in Str
      BY QueryAssumption DEF Str
    <3>2. CASE q \in [start : QueryKeys, end : QueryKeys, prefix : {<<>>}, limit : QueryLimits]
      BY <3>1, <3>2
    <3>3. CASE q \in [start : {<<>>}, end : {<<>>}, prefix : QueryKeys, limit : {0}]
      BY <3>1, <3>3
    <3>4. QED
      BY <3>2, <3>3 DEF Queries
  <2>4. /\ query'.start = q.start /\ query'.end = q.end /\ query'.prefix = q.prefix
        /\ query'.limit = q.limit /\ query'.shards = PruneShards(q)
    BY <1>1 DEF Execute
  <2>5. PruneShards(query') = PruneShards(q) /\ PruneShards(q) \subseteq 1 .. ShardCount
    BY <2>4 DEF PruneShards, OutsideRange
  <2>6. answers' = answers /\ (outcome' = "done" => PruneShards(q) = {})
    BY <1>1 DEF Execute
  <2>7. outcome' = "done" => Answered("pending")' = {}
    BY <2>4, <2>6 DEF Answered
  <2>8. QED
    BY <2>2, <2>3, <2>4, <2>5, <2>6, <2>7 DEF QueryInv
<1>2. ASSUME NEW i \in 1 .. ShardCount, NEW status \in {"ok", "err"}, Collect(i, status) PROVE QueryInv'
  <2>1. dataset' = dataset /\ query' = query /\ outcome = "waiting"
    BY <1>2 DEF Collect
  <2>2. answers' \in [1 .. ShardCount -> {"pending", "ok", "err"}]
    BY <1>2 DEF Collect, QueryInv
  <2>3. ASSUME outcome' = "done" PROVE Answered("pending")' = {}
    <3>1. Answered("pending") = {i}
      BY <1>2, <2>3 DEF Collect
    <3>2. \A j \in query.shards : answers'[j] = "pending" => answers[j] = "pending" /\ j # i
      BY <1>2 DEF Collect, QueryInv
    <3>3. QED
      BY <2>1, <3>1, <3>2 DEF Answered
  <2>4. QED
    BY <2>1, <2>2, <2>3 DEF QueryInv
<1>3. CASE QueryTimeout
  BY <1>3 DEF QueryTimeout, QueryInv, Answered
<1>4. CASE UNCHANGED queryVars
  BY <1>4 DEF queryVars, QueryInv, Answered
<1>5. QED
  BY <1>1, <1>2, <1>3, <1>4 DEF QueryNext

LEMMA DatasetTypes ==
    ASSUME QueryInv
    PROVE  /\ DOMAIN dataset \subseteq Str /\ IsFiniteSet(DOMAIN dataset)
           /\ \A k \in DOMAIN dataset : dataset[k] \in Int
           /\ Wanted \subseteq DOMAIN dataset /\ IsFiniteSet(Wanted)
<1>1. DOMAIN dataset \subseteq Str /\ IsFiniteSet(DOMAIN dataset)
  BY QueryAssumption, FS_Subset DEF QueryInv, Str
<1>2. \A k \in DOMAIN dataset : dataset[k] \in Int
  BY QueryAssumption DEF QueryInv
<1>3. Wanted \subseteq DOMAIN dataset
  BY DEF Wanted
<1>4. QED
  BY <1>1, <1>2, <1>3, FS_Subset

\* A sub-query asks for the keys of the range that its shard has.
LEMMA AskedIs ==
    ASSUME QueryInv, NEW i \in 1 .. ShardCount
    PROVE  Asked(query, i) = {k \in Wanted : Holds(i, k)}
<1>1. StartKey(i) \in Str /\ EndKey(i) \in Str /\ query.start \in Str /\ query.end \in Str
  BY ShardTypes DEF QueryInv
<1>2. ASSUME NEW k \in DOMAIN dataset
      PROVE  k \in Asked(query, i) <=> InRange(k, query.start, query.end) /\ Holds(i, k)
  <2>1. k \in Str
    BY DatasetTypes
  <2>2. QED
    BY <1>1, <2>1, RangesMeet DEF Asked, Holds
<1>3. Asked(query, i) \subseteq DOMAIN dataset
  BY DEF Asked
<1>4. QED
  BY <1>2, <1>3 DEF Wanted

\* No key of the range is left out, and none is asked for twice.
LEMMA AskedOnce ==
    ASSUME QueryInv, outcome = "done"
    PROVE  /\ \A i \in query.shards : Asked(query, i) \subseteq Wanted
           /\ query.prefix = <<>> => \A k \in Wanted : \E i \in query.shards : k \in Asked(query, i)
           /\ \A i, j \in query.shards : i # j => Asked(query, i) \cap Asked(query, j) = {}
<1>1. query.shards = PruneShards(query) /\ query.shards \subseteq 1 .. ShardCount
  BY DEF QueryInv
<1>2. \A i \in query.shards : Asked(query, i) = {k \in Wanted : Holds(i, k)}
  BY <1>1, AskedIs
<1>3. \A k \in Wanted : k \in Str /\ InRange(k, query.start, query.end)
  BY DatasetTypes DEF Wanted
<1>4. ASSUME query.prefix = <<>>, NEW k \in Wanted PROVE \E i \in query.shards : k \in Asked(query, i)
  <2>1. PICK i \in 1 .. ShardCount : Holds(i, k)
    BY <1>3, OneShard
  <2>2. ~OutsideRange(query, i)
    BY <1>3, <2>1, PrunedHaveNoKey DEF QueryInv
  <2>3. i \in query.shards
    BY <1>1, <1>4, <2>2 DEF PruneShards
  <2>4. QED
    BY <1>2, <2>1, <2>3
<1>5. ASSUME NEW i \in query.shards, NEW j \in query.shards, i # j
      PROVE  Asked(query, i) \cap Asked(query, j) = {}
  <2>1. SUFFICES ASSUME NEW k \in Wanted, Holds(i, k), Holds(j, k) PROVE FALSE
    BY <1>2
  <2>2. QED
    BY <1>1, <1>3, <1>5, <2>1, OneShard
<1>6. QED
  BY <1>2, <1>4, <1>5

\* What a shard returns.
LEMMA ShardResultIs ==
    ASSUME NEW i
    PROVE  LET keys == FirstOf(Asked(query, i), query.limit)
               r == ShardResult(query, i)
           IN  /\ r.entries = keys /\ r.count = Cardinality(keys)
               /\ r.sum = SumFunctionOnSet(dataset, keys)
               /\ keys # {} => r.min = Min({dataset[k] : k \in keys})
               /\ r.max = Max({dataset[k] : k \in keys} \cup {0})
BY DEF ShardResult

\* All that were asked have answered, unless the result is partial.
LEMMA AllAnswered ==
    ASSUME QueryInv, outcome = "done", ~PartialResult
    PROVE  Answered("ok") = query.shards
<1>1. Answered("pending") = {} /\ Answered("err") = {}
  BY DEF QueryInv, PartialResult
<1>2. \A i \in query.shards : answers[i] \in {"pending", "ok", "err"}
  BY DEF QueryInv
<1>3. QED
  BY <1>1, <1>2 DEF Answered

LEMMA ScansExact == QueryInv => ScanIsExact
<1> SUFFICES ASSUME QueryInv, outcome = "done", query.prefix = <<>>
             PROVE  IF PartialResult THEN MergedEntries \subseteq Wanted
                    ELSE MergedEntries = FirstOf(Wanted, query.limit)
  BY DEF ScanIsExact
<1>1. \A i : ShardResult(query, i).entries = FirstOf(Asked(query, i), query.limit)
  BY ShardResultIs
<1>2. PICK R : R = UNION {ShardResult(query, i).entries : i \in Answered("ok")}
  OBVIOUS
<1>3. MergedEntries = FirstOf(R, query.limit)
  BY <1>2 DEF MergedEntries
<1>4. MergedEntries \subseteq Wanted
  <2>1. MergedEntries \subseteq R
    BY <1>3, FirstOfIs
  <2>2. ASSUME NEW k \in R PROVE k \in Wanted
    <3>1. PICK i \in query.shards : k \in FirstOf(Asked(query, i), query.limit)
      BY <1>1, <1>2 DEF Answered
    <3>2. k \in Asked(query, i)
      BY <3>1, FirstOfIs
    <3>3. QED
      BY <3>2, AskedOnce
  <2>3. QED
    BY <2>1, <2>2
<1>5. ASSUME ~PartialResult PROVE MergedEntries = FirstOf(Wanted, query.limit)
  <2>1. PICK part : part = [i \in query.shards |-> Asked(query, i)]
    OBVIOUS
  <2>2. R = UNION {FirstOf(part[i], query.limit) : i \in query.shards}
    <3>1. R = UNION {FirstOf(Asked(query, i), query.limit) : i \in query.shards}
      BY <1>1, <1>2, <1>5, AllAnswered
    <3>2. \A i \in query.shards : part[i] = Asked(query, i)
      BY <2>1
    <3>3. QED
      BY <3>1, <3>2
  <2>3. Wanted \in SUBSET Str /\ IsFiniteSet(Wanted) /\ query.limit \in Nat
    BY DatasetTypes DEF QueryInv
  <2>4. /\ \A i \in query.shards : part[i] \subseteq Wanted
        /\ \A k \in Wanted : \E i \in query.shards : k \in part[i]
    BY <2>1, AskedOnce
  <2>5. FirstOf(R, query.limit) = FirstOf(Wanted, query.limit)
    <3>1. PICK D, limit, I : D = Wanted /\ limit = query.limit /\ I = query.shards
      OBVIOUS
    <3>2. D \in SUBSET Str /\ IsFiniteSet(D) /\ limit \in Nat
      BY <2>3, <3>1
    <3>3. (\A i \in I : part[i] \subseteq D) /\ (\A k \in D : \E i \in I : k \in part[i])
      BY <2>4, <3>1
    <3>4. FirstOf(UNION {FirstOf(part[i], limit) : i \in I}, limit) = FirstOf(D, limit)
      BY ONLY <3>2, <3>3, FirstsMerge, SMTT(30)
    <3>5. QED
      BY <2>2, <3>1, <3>4
  <2>6. QED
    BY <1>3, <2>5
<1>6. QED
  BY <1>4, <1>5

LEMMA PrefixesCovered == QueryInv => PrefixIsCovered
<1> SUFFICES ASSUME QueryInv, outcome = "done", query.prefix # <<>>, ~PartialResult,
                    NEW k \in DOMAIN dataset, HasPrefix(k, query.prefix)
             PROVE  k \in MergedEntries
  BY DEF PrefixIsCovered
<1>1. query.start = <<>> /\ query.end = <<>> /\ query.limit = 0 /\ query.shards = PruneShards(query)
  BY DEF QueryInv
<1>2. k \in Str /\ query.prefix \in Str
  BY DatasetTypes DEF QueryInv
<1>3. PICK i \in 1 .. ShardCount : Holds(i, k)
  BY <1>2, OneShard
<1>4. i \in query.shards
  <2>1. ~OutsidePrefix(query.prefix, i)
    BY <1>2, <1>3, PrunedHaveNoPrefix
  <2>2. ~OutsideRange(query, i)
    BY <1>1 DEF OutsideRange
  <2>3. QED
    BY <1>1, <2>1, <2>2 DEF PruneShards
<1>5. k \in Asked(query, i)
  <2>1. k \in Wanted
    BY <1>1, <1>2, EmptyFirst DEF Wanted, InRange, NotAfter
  <2>2. QED
    BY <1>3, <2>1, AskedIs
<1>6. i \in Answered("ok")
  BY <1>4, AllAnswered
<1>7. k \in ShardResult(query, i).entries
  <2>1. ShardResult(query, i).entries = FirstOf(Asked(query, i), query.limit)
    BY ShardResultIs
  <2>2. FirstOf(Asked(query, i), query.limit) = Asked(query, i)
    BY <1>1, FirstOfIs
  <2>3. QED
    BY <1>5, <2>1, <2>2
<1>8. k \in UNION {ShardResult(query, j).entries : j \in Answered("ok")}
  BY <1>6, <1>7
<1>9. QED
  BY <1>1, <1>8, FirstOfIs DEF MergedEntries

\* Counts and sums of the shards add up to those of the range.
LEMMA CountsAndSumsAgree ==
    ASSUME QueryInv, outcome = "done", query.prefix = <<>>, query.limit = 0, ~PartialResult
    PROVE  MergedCount = Cardinality(Wanted) /\ MergedSum = SumFunctionOnSet(dataset, Wanted)
<1>1. PICK W, I, f : W = Wanted /\ I = query.shards /\ f = dataset
  OBVIOUS
<1>2. PICK part : part = [i \in I |-> Asked(query, i)]
  OBVIOUS
<1>3. IsFiniteSet(W) /\ \A k \in W : f[k] \in Int
  BY <1>1, DatasetTypes
<1>4. /\ \A i \in I : part[i] \subseteq W
      /\ \A i, j \in I : i # j => part[i] \cap part[j] = {}
      /\ \A k \in W : \E i \in I : k \in part[i]
  BY <1>1, <1>2, AskedOnce
<1>5. UNION {part[i] : i \in I} = W
  BY <1>4
<1>6. IsFiniteSet(I)
  <2>1. ShardCount \in Nat /\ I \subseteq 1 .. ShardCount
    BY <1>1, ShardTypes DEF QueryInv
  <2>2. IsFiniteSet(1 .. ShardCount)
    BY <2>1, FS_Interval
  <2>3. QED
    BY <2>1, <2>2, FS_Subset
<1>7. \A i \in I : FirstOf(Asked(query, i), query.limit) = part[i]
  BY <1>2, FirstOfIs
<1>8. Answered("ok") = I
  BY <1>1, AllAnswered
<1>9. MergedSum = SumFunctionOnSet(f, W)
  <2>1. PICK g : g = [i \in I |-> ShardResult(query, i).sum]
    OBVIOUS
  <2>2. \A i \in I : g[i] = SumFunctionOnSet(f, part[i])
    BY <1>1, <1>7, <2>1, ShardResultIs
  <2>3. SumFunctionOnSet(g, I) = SumFunctionOnSet(f, UNION {part[i] : i \in I})
    BY ONLY <1>3, <1>4, <1>6, <2>2, SumOfParts
  <2>4. MergedSum = SumFunctionOnSet(g, I)
    BY <1>8, <2>1 DEF MergedSum, SumFunction
  <2>5. QED
    BY <1>5, <2>3, <2>4
<1>10. MergedCount = Cardinality(W)
  <2>1. PICK g : g = [i \in I |-> ShardResult(query, i).count]
    OBVIOUS
  <2>2. PICK ones : ones = [k \in W |-> 1]
    OBVIOUS
  <2>3. (\A k \in W : ones[k] = 1) /\ (\A k \in W : ones[k] \in Int)
    BY <2>2
  <2>4. \A S \in SUBSET W : SumFunctionOnSet(ones, S) = Cardinality(S)
    BY ONLY <1>3, <2>3, CardinalityIsSum
  <2>5. \A i \in I : g[i] = SumFunctionOnSet(ones, part[i])
    <3>1. \A i \in I : g[i] = Cardinality(part[i])
      BY <1>7, <2>1, ShardResultIs
    <3>2. QED
      BY <1>4, <2>4, <3>1
  <2>6. SumFunctionOnSet(g, I) = SumFunctionOnSet(ones, UNION {part[i] : i \in I})
    <3>1. IsFiniteSet(W)
      BY <1>3
    <3>2. \A k \in W : ones[k] \in Int
      BY <2>3
    <3>3. QED
      BY ONLY <1>4, <1>6, <2>5, <3>1, <3>2, SumOfParts, SMTT(30)
  <2>7. MergedCount = SumFunctionOnSet(g, I)
    BY <1>8, <2>1 DEF MergedCount, SumFunction
  <2>8. QED
    BY <1>5, <2>4, <2>6, <2>7
<1>11. QED
  BY <1>1, <1>9, <1>10

ValuesOf(f, S) == {f[k] : k \in S}

\* The values of a finite set of keys.
LEMMA ValuesFinite ==
    ASSUME NEW f, NEW S, IsFiniteSet(S), \A k \in S : f[k] \in Int
    PROVE  IsFiniteSet({f[k] : k \in S}) /\ {f[k] : k \in S} \in SUBSET Int
<1>1. IsFiniteSet({f[k] : k \in S})
  <2>1. PICK g : g = [k \in S |-> f[k]]
    OBVIOUS
  <2>2. g \in Surjection(S, {f[k] : k \in S})
    BY <2>1 DEF Surjection
  <2>3. QED
    BY <2>2, FS_Surjection
<1>2. QED
  BY <1>1

\* A set of keys with integer values, and parts that cover it.
Divided(W, f, I, part) ==
    /\ IsFiniteSet(W) /\ \A k \in W : f[k] \in Int
    /\ \A i \in I : part[i] \subseteq W
    /\ \A k \in W : \E i \in I : k \in part[i]

\* The least value, from those of parts of which none is empty.
LEMMA MinOfParts ==
    ASSUME NEW W, NEW f, NEW I, NEW part, Divided(W, f, I, part), W # {},
           \A i \in I : part[i] # {},
           NEW g, \A i \in I : g[i] = Min(ValuesOf(f, part[i]))
    PROVE  Min(ValuesOf(g, I)) = Min(ValuesOf(f, W))
<1> USE DEF Divided
<1>1. PICK V : V = {f[k] : k \in W}
  OBVIOUS
<1>2. V \in SUBSET Int /\ IsFiniteSet(V) /\ V # {}
  BY <1>1, ValuesFinite
<1>3. ASSUME NEW i \in I PROVE g[i] \in V /\ \A k \in part[i] : g[i] <= f[k]
  <2>1. PICK P : P = {f[k] : k \in part[i]}
    OBVIOUS
  <2>2. P \subseteq V /\ P # {}
    BY <1>1, <2>1
  <2>3. P \in SUBSET Int /\ IsFiniteSet(P)
    BY <1>2, <2>2, FS_Subset
  <2>4. Min(P) \in P /\ \A y \in P : Min(P) <= y
    BY <2>2, <2>3, MinMaxExist
  <2>5. QED
    BY <2>1, <2>2, <2>4 DEF ValuesOf
<1>4. PICK G : G = {g[i] : i \in I}
  OBVIOUS
<1>5. G \subseteq V /\ G # {}
  BY <1>3, <1>4
<1>6. G \in SUBSET Int /\ IsFiniteSet(G)
  BY <1>2, <1>5, FS_Subset
<1>7. Min(G) \in G /\ \A y \in G : Min(G) <= y
  BY <1>5, <1>6, MinMaxExist
<1>8. Min(V) \in V /\ \A y \in V : Min(V) <= y
  BY <1>2, MinMaxExist
<1>9. Min(G) <= Min(V)
  <2>1. PICK k \in W : Min(V) = f[k]
    BY <1>1, <1>8
  <2>2. PICK i \in I : k \in part[i]
    OBVIOUS
  <2>3. g[i] <= f[k] /\ g[i] \in G
    BY <1>3, <1>4, <2>2
  <2>4. Min(G) <= g[i]
    BY <1>7, <2>3
  <2>5. Min(G) \in Int /\ g[i] \in Int /\ f[k] \in Int
    BY <1>2, <1>3, <1>5, <1>7
  <2>6. QED
    BY <2>1, <2>3, <2>4, <2>5
<1>10. Min(V) <= Min(G)
  BY <1>5, <1>7, <1>8
<1>11. Min(G) \in Int /\ Min(V) \in Int
  BY <1>2, <1>6, <1>7, <1>8
<1>12. QED
  BY <1>1, <1>4, <1>9, <1>10, <1>11 DEF ValuesOf

MaxOrZero(S) == Max(S \cup {0})

\* The greatest value, if it is not negative, from those of the parts and zero.
LEMMA MaxOfParts ==
    ASSUME NEW W, NEW f, NEW I, NEW part, Divided(W, f, I, part),
           NEW z \in W, f[z] >= 0, NEW g, \A i \in I : g[i] = MaxOrZero(ValuesOf(f, part[i]))
    PROVE  MaxOrZero(ValuesOf(g, I)) = Max(ValuesOf(f, W))
<1> USE DEF Divided
<1>1. PICK V : V = {f[k] : k \in W}
  OBVIOUS
<1>2. V \in SUBSET Int /\ IsFiniteSet(V) /\ V # {}
  BY <1>1, ValuesFinite
<1>3. V \cup {0} \in SUBSET Int /\ IsFiniteSet(V \cup {0})
  BY <1>2, FS_AddElement
<1>4. ASSUME NEW i \in I PROVE g[i] \in V \cup {0} /\ \A k \in part[i] : f[k] <= g[i]
  <2>1. PICK P : P = {f[k] : k \in part[i]} \cup {0}
    OBVIOUS
  <2>2. P \subseteq V \cup {0} /\ P # {}
    BY <1>1, <2>1
  <2>3. P \in SUBSET Int /\ IsFiniteSet(P)
    BY <1>3, <2>2, FS_Subset
  <2>4. Max(P) \in P /\ \A y \in P : y <= Max(P)
    BY <2>2, <2>3, MinMaxExist
  <2>5. QED
    BY <2>1, <2>2, <2>4 DEF ValuesOf, MaxOrZero
<1>5. PICK G : G = {g[i] : i \in I} \cup {0}
  OBVIOUS
<1>6. G \subseteq V \cup {0} /\ G # {}
  BY <1>4, <1>5
<1>7. G \in SUBSET Int /\ IsFiniteSet(G)
  BY <1>3, <1>6, FS_Subset
<1>8. Max(G) \in G /\ \A y \in G : y <= Max(G)
  BY <1>6, <1>7, MinMaxExist
<1>9. Max(V) \in V /\ \A y \in V : y <= Max(V)
  BY <1>2, MinMaxExist
<1>10. Max(G) \in Int /\ Max(V) \in Int
  BY <1>2, <1>7, <1>8, <1>9
<1>11. Max(V) <= Max(G)
  <2>1. PICK k \in W : Max(V) = f[k]
    BY <1>1, <1>9
  <2>2. PICK i \in I : k \in part[i]
    OBVIOUS
  <2>3. f[k] <= g[i] /\ g[i] \in G
    BY <1>4, <1>5, <2>2
  <2>4. g[i] <= Max(G) /\ g[i] \in Int
    BY <1>7, <1>8, <2>3
  <2>5. QED
    BY <1>10, <2>1, <2>3, <2>4
<1>12. Max(G) <= Max(V)
  <2>1. f[z] <= Max(V) /\ f[z] \in Int
    BY <1>1, <1>9
  <2>2. 0 <= Max(V)
    BY <1>10, <2>1
  <2>3. QED
    BY <1>6, <1>8, <1>9, <2>2
<1>13. QED
  BY <1>1, <1>5, <1>10, <1>11, <1>12 DEF ValuesOf, MaxOrZero

LEMMA AggregatesExact == QueryInv => AggregatesAgree
<1> SUFFICES ASSUME QueryInv, outcome = "done", query.prefix = <<>>, query.limit = 0, ~PartialResult
             PROVE  /\ MergedCount = Cardinality(Wanted)
                    /\ MergedSum = SumFunctionOnSet(dataset, Wanted)
                    /\ (\A i \in query.shards : Asked(query, i) # {}) /\ Wanted # {}
                           => MergedMin = Min({dataset[k] : k \in Wanted})
                    /\ (\E k \in Wanted : dataset[k] >= 0) => MergedMax = Max({dataset[k] : k \in Wanted})
  BY DEF AggregatesAgree
<1>1. PICK W, I, f : W = Wanted /\ I = query.shards /\ f = dataset
  OBVIOUS
<1>2. PICK part : part = [i \in I |-> Asked(query, i)]
  OBVIOUS
<1>3. IsFiniteSet(W) /\ \A k \in W : f[k] \in Int
  BY <1>1, DatasetTypes
<1>4. (\A i \in I : part[i] \subseteq W) /\ (\A k \in W : \E i \in I : k \in part[i])
  BY <1>1, <1>2, AskedOnce
<1>5. Divided(W, f, I, part)
  BY <1>3, <1>4 DEF Divided
<1>6. \A i \in I : FirstOf(Asked(query, i), query.limit) = part[i]
  BY <1>2, FirstOfIs
<1>7. Answered("ok") = I
  BY <1>1, AllAnswered
<1>8. ASSUME \A i \in I : part[i] # {}, W # {} PROVE MergedMin = Min({f[k] : k \in W})
  <2>1. PICK g : g = [i \in I |-> ShardResult(query, i).min]
    OBVIOUS
  <2>2. ASSUME NEW i \in I PROVE g[i] = Min(ValuesOf(f, part[i]))
    <3>1. FirstOf(Asked(query, i), query.limit) = part[i] /\ part[i] # {}
      BY <1>6, <1>8
    <3>2. ShardResult(query, i).min = Min({dataset[k] : k \in part[i]})
      BY <3>1, ShardResultIs
    <3>3. QED
      BY <1>1, <2>1, <3>2 DEF ValuesOf
  <2>3. Min(ValuesOf(g, I)) = Min(ValuesOf(f, W))
    <3>1. \A i \in I : g[i] = Min(ValuesOf(f, part[i]))
      BY <2>2
    <3>2. QED
      BY ONLY <1>5, <1>8, <3>1, MinOfParts
  <2>4. I # {}
    BY <1>4, <1>8
  <2>5. {ShardResult(query, i).min : i \in I} = {g[i] : i \in I}
    BY <2>1
  <2>6. MergedMin = Min({g[i] : i \in I})
    BY <1>7, <2>4, <2>5 DEF MergedMin
  <2>7. QED
    BY <2>3, <2>6 DEF ValuesOf
<1>9. ASSUME \E k \in W : f[k] >= 0 PROVE MergedMax = Max({f[k] : k \in W})
  <2>1. PICK g : g = [i \in I |-> ShardResult(query, i).max]
    OBVIOUS
  <2>2. ASSUME NEW i \in I PROVE g[i] = MaxOrZero(ValuesOf(f, part[i]))
    <3>1. FirstOf(Asked(query, i), query.limit) = part[i]
      BY <1>6
    <3>2. ShardResult(query, i).max = Max({dataset[k] : k \in part[i]} \cup {0})
      BY <3>1, ShardResultIs
    <3>3. QED
      BY <1>1, <2>1, <3>2 DEF ValuesOf, MaxOrZero
  <2>3. MaxOrZero(ValuesOf(g, I)) = Max(ValuesOf(f, W))
    <3>1. \A i \in I : g[i] = MaxOrZero(ValuesOf(f, part[i]))
      BY <2>2
    <3>2. PICK z \in W : f[z] >= 0
      BY <1>9
    <3>3. QED
      BY ONLY <1>5, <3>1, <3>2, MaxOfParts
  <2>4. {ShardResult(query, i).max : i \in I} = {g[i] : i \in I}
    BY <2>1
  <2>5. MergedMax = Max({g[i] : i \in I} \cup {0})
    BY <1>7, <2>4 DEF MergedMax
  <2>6. QED
    BY <2>3, <2>5 DEF ValuesOf, MaxOrZero
<1>10. (\A i \in query.shards : Asked(query, i) # {}) => \A i \in I : part[i] # {}
  BY <1>1, <1>2
<1>11. QED
  BY <1>1, <1>8, <1>9, <1>10, CountsAndSumsAgree

\* Whatever the shards' ranges, the keys and the values, what ScatterGather merges from the
\* shards that pruneShards leaves, in whatever order they answer, is what one store would
\* answer: scans up to their limit, prefixes and aggregates.
THEOREM ResultsExact == QuerySpec => []ResultsAreExact
<1>1. QueryInit => QueryInv
  BY QueryInvInit
<1>2. QueryInv /\ [QueryNext]_queryVars => QueryInv'
  BY QueryInvNext
<1>3. QueryInv => ResultsAreExact
  BY ScansExact, PrefixesCovered, AggregatesExact DEF ResultsAreExact
<1>4. QED
  BY <1>1, <1>2, <1>3, PTL DEF QuerySpec
=============================================================================
