---------------------------- MODULE ServerProofs ----------------------------
(***************************************************************************)
(* Proofs about the services of a node that are built on the log: reads and *)
(* writes of the key-value service, the change feed, the snapshots of the   *)
(* cluster; and about the start and the stop of a node.                     *)
(***************************************************************************)
EXTENDS KVServer, ChangeFeed, Snapshot, NodeLifecycle, TLAPS, SequenceTheorems

-----------------------------------------------------------------------------
(* The key-value service *)

\* A server's store is what the committed commands up to its applied index make of it.
StoresInv ==
    /\ chosen \in Seq(Nat)
    /\ log \in [Server -> Seq(Nat)]
    /\ proposeCh \in [Server -> Seq(Nat)]
    /\ proposed \in Nat
    /\ commitIndex \in [Server -> Nat] /\ appliedIndex \in [Server -> Nat]
    /\ DOMAIN store = Server
    /\ \A n \in Server : /\ appliedIndex[n] <= commitIndex[n]
                         /\ commitIndex[n] <= Len(chosen)
                         /\ store[n] = ValueAfter(appliedIndex[n])

GetCall == [pc : {"new", "entered", "reading", "done"}, at : Server \cup {NoServer}, index : Nat,
            settled : BOOLEAN, start : Nat, value : Nat]

\* How far a call has come, and what it knows by then.
CallInv(c) ==
    /\ c.start <= Len(chosen)
    /\ c.pc \in {"entered", "reading"} => c.at \in Server
    /\ c.pc = "entered" /\ c.settled => c.start <= commitIndex[c.at]
    /\ c.pc = "reading" /\ c.settled => c.start <= c.index
    /\ c.pc = "done" => \E i \in (IF c.settled THEN c.start ELSE 0) .. Len(chosen) :
                            c.value = ValueAfter(i)

CallsInv == get \in [Read -> GetCall] /\ \A r \in Read : CallInv(get[r])

LEMMA ValueIsNat ==
    ASSUME chosen \in Seq(Nat), NEW i \in 0..Len(chosen)
    PROVE  ValueAfter(i) \in Nat
  <1>1. Len(chosen) \in Nat
    BY LenProperties
  <1>2. CASE i = 0
    BY <1>2 DEF ValueAfter
  <1>3. CASE i # 0
    <2>1. i \in 1..Len(chosen)
      BY <1>1, <1>3
    <2>2. chosen[i] \in Nat
      BY <2>1, ElementOfSeq
    <2>3. QED
      BY <1>3, <2>2 DEF ValueAfter
  <1>4. QED
    BY <1>2, <1>3

\* What is committed stays.
ChosenGrows == /\ Len(chosen) <= Len(chosen')
               /\ \A i \in 1..Len(chosen) : chosen'[i] = chosen[i]

LEMMA CommitStep ==
    ASSUME StoresInv, NEW n \in Server, NEW k \in 0..Len(log[n]),
           chosen' = chosen \o SubSeq(log[n], 1, k)
    PROVE  /\ chosen' \in Seq(Nat) /\ Len(chosen') = Len(chosen) + k /\ ChosenGrows
           /\ SubSeq(log[n], k + 1, Len(log[n])) \in Seq(Nat)
           /\ chosen' \o SubSeq(log[n], k + 1, Len(log[n])) = chosen \o log[n]
  <1>1. PICK l : l = log[n]
    OBVIOUS
  <1>2. l \in Seq(Nat) /\ Len(l) \in Nat /\ chosen \in Seq(Nat) /\ Len(chosen) \in Nat
        /\ k \in Nat /\ k <= Len(l)
    BY <1>1, LenProperties DEF StoresInv
  <1>3. PICK a, b : a = SubSeq(l, 1, k) /\ b = SubSeq(l, k + 1, Len(l))
    OBVIOUS
  <1>4. a \in Seq(Nat) /\ Len(a) = k /\ a = [i \in 1..k |-> l[i]]
    <2>1. a = [i \in 1..k |-> l[i]]
      BY <1>2, <1>3
    <2>2. \A i \in 1..k : l[i] \in Nat
      BY <1>2, ElementOfSeq
    <2>3. QED
      BY <1>2, <2>1, <2>2
  <1>5. b \in Seq(Nat) /\ Len(b) = Len(l) - k /\ b = [i \in 1..Len(l) - k |-> l[i + k]]
    <2>1. b = [i \in 1..(1 + Len(l) - (k + 1)) |-> l[(k + 1) + i - 1]]
      BY <1>2, <1>3
    <2>2. 1 + Len(l) - (k + 1) = Len(l) - k /\ Len(l) - k \in Nat
      BY <1>2
    <2>3. \A i \in 1..Len(l) - k : (k + 1) + i - 1 = i + k /\ i + k \in 1..Len(l)
      BY <1>2
    <2>4. \A i \in 1..Len(l) - k : l[i + k] \in Nat
      BY <1>2, <2>3, ElementOfSeq
    <2>5. b = [i \in 1..Len(l) - k |-> l[i + k]]
      BY <2>1, <2>2, <2>3
    <2>6. QED
      BY <2>2, <2>4, <2>5
  <1>6. /\ chosen' \in Seq(Nat) /\ Len(chosen') = Len(chosen) + k
        /\ \A i \in 1..Len(chosen) + k :
              chosen'[i] = IF i <= Len(chosen) THEN chosen[i] ELSE a[i - Len(chosen)]
    <2>1. chosen' = chosen \o a
      BY <1>1, <1>3
    <2>2. chosen \in Seq(Nat) /\ a \in Seq(Nat)
      BY <1>2, <1>4
    <2>3. /\ chosen \o a \in Seq(Nat) /\ Len(chosen \o a) = Len(chosen) + Len(a)
          /\ \A i \in 1..Len(chosen) + Len(a) :
                (chosen \o a)[i] = IF i <= Len(chosen) THEN chosen[i] ELSE a[i - Len(chosen)]
      BY <2>2, ConcatProperties
    <2>4. QED
      BY <1>4, <2>1, <2>3
  <1>7. ChosenGrows
    BY <1>2, <1>6 DEF ChosenGrows
  <1>8. a \o b = l
    <2>1. /\ a \o b \in Seq(Nat) /\ Len(a \o b) = Len(l)
          /\ \A i \in 1..Len(a) + Len(b) : (a \o b)[i] = IF i <= Len(a) THEN a[i] ELSE b[i - Len(a)]
      <3>1. Len(a) + Len(b) = Len(l)
        BY <1>2, <1>4, <1>5
      <3>2. a \in Seq(Nat) /\ b \in Seq(Nat)
        BY <1>4, <1>5
      <3>3. /\ a \o b \in Seq(Nat) /\ Len(a \o b) = Len(a) + Len(b)
            /\ \A i \in 1..Len(a) + Len(b) : (a \o b)[i] = IF i <= Len(a) THEN a[i] ELSE b[i - Len(a)]
        BY <3>2, ConcatProperties
      <3>4. QED
        BY <3>1, <3>3
    <2>2. ASSUME NEW i \in 1..Len(l) PROVE (a \o b)[i] = l[i]
      <3>1. i \in 1..Len(a) + Len(b)
        BY <1>2, <1>4, <1>5
      <3>2. CASE i <= k
        <4>1. i \in 1..k
          BY <1>2, <3>2
        <4>2. QED
          BY <1>4, <2>1, <3>1, <3>2, <4>1
      <3>3. CASE ~(i <= k)
        <4>1. i - k \in 1..Len(l) - k /\ (i - k) + k = i
          BY <1>2, <3>3
        <4>2. QED
          BY <1>4, <1>5, <2>1, <3>1, <3>3, <4>1
      <3>4. QED
        BY <3>2, <3>3
    <2>3. QED
      BY <1>2, <2>1, <2>2, SeqEqual
  <1>9. (chosen \o a) \o b = chosen \o (a \o b)
    BY <1>2, <1>4, <1>5, ConcatAssociative, SMTT(30)
  <1>10. QED
    BY <1>1, <1>3, <1>5, <1>6, <1>7, <1>8, <1>9

\* What a call knows stays true as more is committed and applied.
LEMMA CallStays ==
    ASSUME StoresInv, StoresInv', ChosenGrows, NEW c \in GetCall, CallInv(c),
           \A n \in Server : commitIndex[n] <= commitIndex'[n]
    PROVE  CallInv(c)'
  <1>1. /\ c.start \in Nat /\ c.index \in Nat /\ Len(chosen) \in Nat /\ Len(chosen') \in Nat
        /\ Len(chosen) <= Len(chosen')
    BY LenProperties DEF GetCall, StoresInv, ChosenGrows
  <1>2. c.start <= Len(chosen')
    BY <1>1 DEF CallInv
  <1>3. c.pc \in {"entered", "reading"} => c.at \in Server
    BY DEF CallInv
  <1>4. c.pc = "entered" /\ c.settled => c.start <= commitIndex'[c.at]
    <2>1. SUFFICES ASSUME c.pc = "entered", c.settled PROVE c.start <= commitIndex'[c.at]
      OBVIOUS
    <2>2. c.at \in Server /\ c.start <= commitIndex[c.at]
      BY <2>1 DEF CallInv
    <2>3. commitIndex[c.at] \in Nat /\ commitIndex'[c.at] \in Nat /\ commitIndex[c.at] <= commitIndex'[c.at]
      BY <2>2 DEF StoresInv
    <2>4. QED
      BY <1>1, <2>2, <2>3
  <1>5. c.pc = "reading" /\ c.settled => c.start <= c.index
    BY DEF CallInv
  <1>6. ASSUME c.pc = "done"
        PROVE  \E i \in (IF c.settled THEN c.start ELSE 0) .. Len(chosen') : c.value = ValueAfter(i)'
    <2>1. PICK i \in (IF c.settled THEN c.start ELSE 0) .. Len(chosen) : c.value = ValueAfter(i)
      BY <1>6 DEF CallInv
    <2>2. i \in (IF c.settled THEN c.start ELSE 0) .. Len(chosen') /\ i \in 0..Len(chosen)
      BY <1>1
    <2>3. ValueAfter(i)' = ValueAfter(i)
      <3>1. CASE i = 0
        BY <3>1 DEF ValueAfter
      <3>2. CASE i # 0
        <4>1. i \in 1..Len(chosen)
          BY <1>1, <2>2, <3>2
        <4>2. QED
          BY <3>2, <4>1 DEF ValueAfter, ChosenGrows
      <3>3. QED
        BY <3>1, <3>2
    <2>4. QED
      BY <2>1, <2>2, <2>3
  <1>7. QED
    BY <1>2, <1>3, <1>4, <1>5, <1>6 DEF CallInv

\* The steps that concern calls of Get leave everything else alone.
LEMMA StoresStep ==
    ASSUME StoresInv, ServerNext, ServerAssumption
    PROVE  /\ StoresInv' /\ ChosenGrows
           /\ \A n \in Server : commitIndex[n] <= commitIndex'[n]
  <1> DEFINE Goal == /\ StoresInv' /\ ChosenGrows
                     /\ \A n \in Server : commitIndex[n] <= commitIndex'[n]
  <1>1. /\ chosen \in Seq(Nat) /\ Len(chosen) \in Nat /\ log \in [Server -> Seq(Nat)]
        /\ proposeCh \in [Server -> Seq(Nat)] /\ proposed \in Nat /\ DOMAIN store = Server
        /\ commitIndex \in [Server -> Nat] /\ appliedIndex \in [Server -> Nat]
    BY LenProperties DEF StoresInv
  <1>2. CASE UNCHANGED raftSide /\ UNCHANGED <<proposeCh, proposed>>
    BY <1>1, <1>2 DEF raftSide, StoresInv, ChosenGrows, ValueAfter
  <1>3. CASE UNCHANGED <<chosen, commitIndex, appliedIndex, store>>
             /\ log' \in [Server -> Seq(Nat)] /\ proposeCh' \in [Server -> Seq(Nat)] /\ proposed' \in Nat
    BY <1>1, <1>3 DEF StoresInv, ChosenGrows, ValueAfter
  <1>4. ASSUME NEW n \in Server, Elect(n) PROVE Goal
    <2>1. PICK m \in Server, k \in Nat : k <= Len(log[m]) /\ log' = [log EXCEPT ![n] = SubSeq(log[m], 1, k)]
      <3>1. PICK m \in Server : \E k \in 0..Len(log[m]) : log' = [log EXCEPT ![n] = SubSeq(log[m], 1, k)]
        BY <1>4 DEF Elect
      <3>2. Len(log[m]) \in Nat
        BY <1>1, LenProperties
      <3>3. PICK k \in 0..Len(log[m]) : log' = [log EXCEPT ![n] = SubSeq(log[m], 1, k)]
        BY <3>1
      <3>4. k \in Nat /\ k <= Len(log[m])
        BY <3>2
      <3>5. QED
        BY <3>3, <3>4
    <2>2. SubSeq(log[m], 1, k) \in Seq(Nat)
      <3>1. PICK l : l = log[m]
        OBVIOUS
      <3>2. l \in Seq(Nat) /\ Len(l) \in Nat /\ k <= Len(l)
        BY <1>1, <2>1, <3>1, LenProperties
      <3>3. SubSeq(l, 1, k) = [i \in 1..k |-> l[i]] /\ \A i \in 1..k : i \in 1..Len(l)
        BY <3>2
      <3>4. \A i \in 1..k : l[i] \in Nat
        BY <3>2, <3>3, ElementOfSeq
      <3>5. QED
        BY <3>1, <3>3, <3>4
    <2>3. log' \in [Server -> Seq(Nat)]
      BY <1>1, <2>1, <2>2
    <2>4. UNCHANGED <<chosen, commitIndex, appliedIndex, store, proposeCh, proposed>>
      BY <1>4 DEF Elect, writeSide
    <2>5. QED
      BY <1>1, <1>3, <2>3, <2>4
  <1>5. ASSUME NEW n \in Server, Hear(n) PROVE Goal
    BY <1>1, <1>3, <1>5 DEF Hear, writeSide
  <1>6. ASSUME NEW n \in Server, Commit(n) PROVE Goal
    <2>1. PICK k \in 0..Len(log[n]) :
             /\ chosen' = chosen \o SubSeq(log[n], 1, k)
             /\ commitIndex[n] < Len(chosen')
             /\ commitIndex' = [commitIndex EXCEPT ![n] = Len(chosen')]
             /\ log' = [m \in Server |-> IF m = n THEN SubSeq(log[n], k + 1, Len(log[n])) ELSE <<>>]
      BY <1>6 DEF Commit
    <2>2. /\ chosen' \in Seq(Nat) /\ Len(chosen') = Len(chosen) + k /\ ChosenGrows
          /\ SubSeq(log[n], k + 1, Len(log[n])) \in Seq(Nat)
      BY <2>1, CommitStep
    <2>3. Len(chosen') \in Nat /\ Len(chosen) <= Len(chosen')
      BY <2>2, LenProperties DEF ChosenGrows
    <2>4. UNCHANGED <<appliedIndex, store, proposeCh, proposed>>
      BY <1>6 DEF Commit, writeSide
    <2>5. log' \in [Server -> Seq(Nat)] /\ commitIndex' \in [Server -> Nat]
      BY <1>1, <2>1, <2>2, <2>3
    <2>6. ASSUME NEW m \in Server
          PROVE  /\ commitIndex[m] <= commitIndex'[m] /\ commitIndex'[m] <= Len(chosen')
                 /\ appliedIndex[m] <= commitIndex'[m] /\ store[m] = ValueAfter(appliedIndex[m])'
      <3>1. /\ commitIndex[m] \in Nat /\ appliedIndex[m] \in Nat /\ appliedIndex[m] <= commitIndex[m]
            /\ commitIndex[m] <= Len(chosen) /\ store[m] = ValueAfter(appliedIndex[m])
        BY <1>1 DEF StoresInv
      <3>2. commitIndex'[m] = IF m = n THEN Len(chosen') ELSE commitIndex[m]
        BY <1>1, <2>1
      <3>3. commitIndex[m] <= commitIndex'[m] /\ commitIndex'[m] <= Len(chosen')
            /\ appliedIndex[m] <= commitIndex'[m] /\ appliedIndex[m] <= Len(chosen)
        BY <1>1, <2>3, <3>1, <3>2
      <3>4. ValueAfter(appliedIndex[m])' = ValueAfter(appliedIndex[m])
        <4>1. CASE appliedIndex[m] = 0
          BY <2>4, <4>1 DEF ValueAfter
        <4>2. CASE appliedIndex[m] # 0
          <5>1. appliedIndex[m] \in 1..Len(chosen)
            BY <1>1, <3>1, <3>3, <4>2
          <5>2. QED
            BY <2>2, <2>4, <4>2, <5>1 DEF ValueAfter, ChosenGrows
        <4>3. QED
          BY <4>1, <4>2
      <3>5. QED
        BY <3>1, <3>3, <3>4
    <2>7. QED
      BY <1>1, <2>2, <2>4, <2>5, <2>6 DEF StoresInv
  <1>7. ASSUME NEW n \in Server, FollowerCommits(n) PROVE Goal
    <2>1. /\ commitIndex[n] < Len(chosen) /\ commitIndex' = [commitIndex EXCEPT ![n] = commitIndex[n] + 1]
          /\ UNCHANGED <<chosen, log, appliedIndex, store, proposeCh, proposed>>
      BY <1>7 DEF FollowerCommits, writeSide
    <2>2. commitIndex' \in [Server -> Nat]
      BY <1>1, <2>1
    <2>3. ASSUME NEW m \in Server
          PROVE  /\ commitIndex[m] <= commitIndex'[m] /\ commitIndex'[m] <= Len(chosen)
                 /\ appliedIndex[m] <= commitIndex'[m]
      BY <1>1, <2>1 DEF StoresInv
    <2>4. \A m \in Server : store'[m] = ValueAfter(appliedIndex[m])'
      BY <2>1 DEF StoresInv, ValueAfter
    <2>5. QED
      BY <1>1, <2>1, <2>2, <2>3, <2>4 DEF StoresInv, ChosenGrows
  <1>8. ASSUME NEW n \in Server, Applies(n) PROVE Goal
    <2>1. /\ appliedIndex[n] < commitIndex[n]
          /\ appliedIndex' = [appliedIndex EXCEPT ![n] = appliedIndex[n] + 1]
          /\ store' = [store EXCEPT ![n] = ValueAfter(appliedIndex'[n])]
          /\ UNCHANGED <<chosen, log, commitIndex, proposeCh, proposed>>
      BY <1>8 DEF Applies, writeSide
    <2>2. appliedIndex' \in [Server -> Nat] /\ DOMAIN store' = Server
      BY <1>1, <2>1
    <2>3. ASSUME NEW m \in Server
          PROVE  appliedIndex'[m] <= commitIndex[m]
      BY <1>1, <2>1 DEF StoresInv
    <2>4. ASSUME NEW m \in Server
          PROVE  store'[m] = ValueAfter(appliedIndex[m])'
      <3>1. CASE m = n
        BY <1>1, <2>1, <3>1 DEF ValueAfter
      <3>2. CASE m # n
        <4>1. store'[m] = store[m] /\ appliedIndex'[m] = appliedIndex[m]
          BY <1>1, <2>1, <3>2
        <4>2. QED
          BY <2>1, <4>1 DEF StoresInv, ValueAfter
      <3>3. QED
        BY <3>1, <3>2
    <2>5. \A m \in Server : commitIndex[m] \in Nat /\ commitIndex[m] <= Len(chosen)
      BY <1>1 DEF StoresInv
    <2>6. QED
      BY <1>1, <2>1, <2>2, <2>3, <2>4, <2>5 DEF StoresInv, ChosenGrows
  <1>9. ASSUME NEW n \in Server, Put(n) PROVE Goal
    <2>1. /\ proposed' = proposed + 1 /\ proposeCh' = [proposeCh EXCEPT ![n] = Append(proposeCh[n], proposed')]
          /\ UNCHANGED <<chosen, commitIndex, appliedIndex, store, log>>
      BY <1>9 DEF Put, raftSide
    <2>2. proposed' \in Nat /\ Append(proposeCh[n], proposed') \in Seq(Nat)
      BY <1>1, <2>1, AppendProperties
    <2>3. proposeCh' \in [Server -> Seq(Nat)]
      BY <1>1, <2>1, <2>2
    <2>4. QED
      BY <1>1, <1>3, <2>1, <2>2, <2>3
  <1>10. ASSUME NEW n \in Server, Propose(n) PROVE Goal
    <2>1. /\ proposeCh[n] # <<>> /\ proposeCh' = [proposeCh EXCEPT ![n] = Tail(proposeCh[n])]
          /\ log' = [log EXCEPT ![n] = IF IsLeader(n) THEN Append(log[n], Head(proposeCh[n])) ELSE log[n]]
          /\ UNCHANGED <<chosen, commitIndex, appliedIndex, store, proposed>>
      BY <1>10 DEF Propose
    <2>2. Head(proposeCh[n]) \in Nat /\ Tail(proposeCh[n]) \in Seq(Nat)
      BY <1>1, <2>1, HeadTailProperties
    <2>3. Append(log[n], Head(proposeCh[n])) \in Seq(Nat)
      BY <1>1, <2>2, AppendProperties
    <2>4. proposeCh' \in [Server -> Seq(Nat)] /\ log' \in [Server -> Seq(Nat)]
      BY <1>1, <2>1, <2>2, <2>3
    <2>5. QED
      BY <1>1, <1>3, <2>1, <2>4
  <1>11. ASSUME NEW n \in Server, OnLeaderChange(n) \/ LeaseExpires(n) \/ \E r \in Read : GetBegins(r, n)
         PROVE  Goal
    BY <1>2, <1>11 DEF OnLeaderChange, LeaseExpires, GetBegins, writeSide
  <1>12. ASSUME NEW r \in Read, TakeIndex(r) \/ SkipReadIndex(r) \/ GetReads(r) PROVE Goal
    BY <1>2, <1>12 DEF TakeIndex, SkipReadIndex, GetReads, writeSide
  <1> HIDE DEF Goal
  <1>13. Goal
    BY <1>4, <1>5, <1>6, <1>7, <1>8, <1>9, <1>10, <1>11, <1>12 DEF ServerNext
  <1>14. QED
    BY <1>13 DEF Goal

LEMMA CallsStep ==
    ASSUME StoresInv, StoresInv', CallsInv, ServerNext, ChosenGrows,
           \A n \in Server : commitIndex[n] <= commitIndex'[n], ServerAssumption
    PROVE  CallsInv'
  <1>1. /\ get \in [Read -> GetCall] /\ \A r \in Read : CallInv(get[r])
        /\ Len(chosen) \in Nat
    BY LenProperties DEF CallsInv, StoresInv
  <1>2. \A c \in GetCall : CallInv(c) => CallInv(c)'
    BY CallStays
  <1>3. CASE UNCHANGED get
    <2>1. ASSUME NEW r \in Read PROVE CallInv(get[r])'
      <3>1. PICK c : c = get[r]
        OBVIOUS
      <3>2. CallInv(c)'
        BY <1>1, <1>2, <3>1
      <3>3. QED
        BY <1>3, <3>1, <3>2
    <2>2. QED
      BY <1>1, <1>3, <2>1 DEF CallsInv
  <1>4. ASSUME NEW r \in Read, NEW d \in GetCall, get' = [get EXCEPT ![r] = d], CallInv(d)'
        PROVE  CallsInv'
    <2>1. ASSUME NEW q \in Read PROVE CallInv(get[q])'
      <3>1. PICK c : c = get'[q]
        OBVIOUS
      <3>2. CallInv(c)'
        <4>1. CASE q = r
          BY <1>1, <1>4, <3>1, <4>1
        <4>2. CASE q # r
          BY <1>1, <1>2, <1>4, <3>1, <4>2
        <4>3. QED
          BY <4>1, <4>2
      <3>3. QED
        BY <3>1, <3>2
    <2>2. QED
      BY <1>1, <1>4, <2>1 DEF CallsInv
  <1>5. ASSUME NEW n \in Server, NEW r \in Read, GetBegins(r, n) PROVE CallsInv'
    <2>1. PICK d : d = [NoGet EXCEPT !.pc = "entered", !.at = n, !.start = Len(chosen),
                  !.settled = (n = leader /\ IsLeader(n) /\ commitIndex[n] = Len(chosen))]
      OBVIOUS
    <2>2. get' = [get EXCEPT ![r] = d] /\ UNCHANGED <<chosen, commitIndex>>
      BY <1>5, <2>1 DEF GetBegins, raftSide
    <2>3. /\ d.pc = "entered" /\ d.at = n /\ d.index = 0 /\ d.start = Len(chosen) /\ d.value = 0
          /\ d.settled => commitIndex[n] = Len(chosen)
          /\ d \in GetCall
      BY <1>1, <2>1 DEF NoGet, GetCall
    <2>4. CallInv(d)'
      <3>1. d.start <= Len(chosen') /\ (d.settled => d.start <= commitIndex'[d.at])
        BY <1>1, <2>2, <2>3
      <3>2. QED
        BY <2>3, <3>1 DEF CallInv
    <2>5. QED
      BY <1>4, <2>2, <2>3, <2>4
  <1>6. ASSUME NEW r \in Read, TakeIndex(r) PROVE CallsInv'
    <2>1. PICK c : c = get[r]
      OBVIOUS
    <2>2. /\ c \in GetCall /\ CallInv(c) /\ c.pc = "entered" /\ c.at \in Server
      BY <1>1, <1>6, <2>1 DEF TakeIndex, CallInv
    <2>3. PICK d : d = [c EXCEPT !.pc = "reading", !.index = commitIndex[c.at]]
      OBVIOUS
    <2>4. get' = [get EXCEPT ![r] = d] /\ UNCHANGED <<chosen, commitIndex>>
      BY <1>1, <1>6, <2>1, <2>3 DEF TakeIndex, IndexToRead, raftSide
    <2>5. /\ commitIndex[c.at] \in Nat /\ d \in GetCall /\ d.pc = "reading" /\ d.index = commitIndex[c.at]
          /\ d.start = c.start /\ d.settled = c.settled /\ d.at = c.at
      BY <2>2, <2>3 DEF GetCall, StoresInv
    <2>6. CallInv(d)'
      BY <2>2, <2>4, <2>5 DEF CallInv
    <2>7. QED
      BY <1>4, <2>4, <2>5, <2>6
  <1>7. ASSUME NEW r \in Read, SkipReadIndex(r) PROVE CallsInv'
    <2>1. PICK c : c = get[r]
      OBVIOUS
    <2>2. /\ c \in GetCall /\ CallInv(c) /\ c.pc = "entered" /\ c.at \in Server
      BY <1>1, <1>7, <2>1 DEF SkipReadIndex, CallInv
    <2>3. PICK d : d = [c EXCEPT !.pc = "reading", !.settled = FALSE]
      OBVIOUS
    <2>4. get' = [get EXCEPT ![r] = d] /\ UNCHANGED <<chosen, commitIndex>>
      BY <1>1, <1>7, <2>1, <2>3 DEF SkipReadIndex, raftSide
    <2>5. /\ d \in GetCall /\ d.pc = "reading" /\ d.start = c.start /\ ~d.settled /\ d.at = c.at
      BY <2>2, <2>3 DEF GetCall
    <2>6. CallInv(d)'
      BY <2>2, <2>4, <2>5 DEF CallInv
    <2>7. QED
      BY <1>4, <2>4, <2>5, <2>6
  <1>8. ASSUME NEW r \in Read, GetReads(r) PROVE CallsInv'
    <2>1. PICK c : c = get[r]
      OBVIOUS
    <2>2. /\ c \in GetCall /\ CallInv(c) /\ c.pc = "reading" /\ c.at \in Server
      BY <1>1, <1>8, <2>1 DEF GetReads, CallInv
    <2>3. PICK d : d = [c EXCEPT !.pc = "done", !.value = store[c.at], !.index = 0,
                                 !.settled = @ /\ appliedIndex[c.at] >= c.index]
      OBVIOUS
    <2>4. get' = [get EXCEPT ![r] = d] /\ UNCHANGED chosen
      BY <1>1, <1>8, <2>1, <2>3 DEF GetReads, raftSide
    <2>5. /\ appliedIndex[c.at] \in Nat /\ appliedIndex[c.at] <= Len(chosen)
          /\ store[c.at] = ValueAfter(appliedIndex[c.at])
      <3>1. /\ appliedIndex[c.at] \in Nat /\ commitIndex[c.at] \in Nat
            /\ appliedIndex[c.at] <= commitIndex[c.at] /\ commitIndex[c.at] <= Len(chosen)
        BY <2>2 DEF StoresInv
      <3>2. QED
        BY <1>1, <2>2, <3>1 DEF StoresInv
    <2>6. store[c.at] \in Nat
      <3>1. appliedIndex[c.at] \in 0..Len(chosen) /\ chosen \in Seq(Nat)
        BY <1>1, <2>5 DEF StoresInv
      <3>2. QED
        BY <2>5, <3>1, ValueIsNat
    <2>7. /\ c.settled \in BOOLEAN /\ c.start \in Nat /\ c.index \in Nat
      BY <2>2 DEF GetCall
    <2>8. /\ d.pc = "done" /\ d.value = store[c.at] /\ d.start = c.start
          /\ d.settled = (c.settled /\ appliedIndex[c.at] >= c.index)
          /\ d \in GetCall
      BY <2>2, <2>3, <2>6, <2>7 DEF GetCall
    <2>9. appliedIndex[c.at] \in (IF d.settled THEN d.start ELSE 0) .. Len(chosen)
      <3>1. CASE d.settled
        <4>1. c.start <= c.index /\ c.index <= appliedIndex[c.at]
          BY <2>2, <2>5, <2>7, <2>8, <3>1 DEF CallInv
        <4>2. QED
          BY <1>1, <2>5, <2>7, <2>8, <3>1, <4>1
      <3>2. CASE ~d.settled
        BY <1>1, <2>5, <3>2
      <3>3. QED
        BY <3>1, <3>2
    <2>10. CallInv(d)'
      <3>1. PICK i : i = appliedIndex[c.at]
        OBVIOUS
      <3>2. i \in (IF d.settled THEN d.start ELSE 0) .. Len(chosen') /\ d.value = ValueAfter(i)'
        BY <2>4, <2>5, <2>8, <2>9, <3>1 DEF ValueAfter
      <3>3. d.start <= Len(chosen')
        BY <2>2, <2>4, <2>8 DEF CallInv
      <3>4. QED
        BY <2>8, <3>2, <3>3 DEF CallInv
    <2>11. QED
      BY <1>4, <2>4, <2>8, <2>10
  <1>9. ASSUME NEW n \in Server,
               \/ Elect(n) \/ Hear(n) \/ Commit(n) \/ FollowerCommits(n) \/ Applies(n)
               \/ Put(n) \/ Propose(n) \/ OnLeaderChange(n) \/ LeaseExpires(n)
        PROVE  CallsInv'
    <2>1. UNCHANGED get
      BY <1>9 DEF Elect, Hear, Commit, FollowerCommits, Applies, Put, Propose, OnLeaderChange,
                  LeaseExpires
    <2>2. QED
      BY <1>3, <2>1
  <1>10. QED
    BY <1>5, <1>6, <1>7, <1>8, <1>9 DEF ServerNext

\* A read returns the key as it was after some committed command, whoever serves it and
\* whatever is elected, committed and applied meanwhile; a read that a settled leader
\* serves in time sees all that was committed when it began (Get, RequestRead, Apply).
THEOREM ReadsCommitted == ServerSpec => []ReadsAreCommitted
  <1>1. ServerInit => StoresInv /\ CallsInv
    <2>1. SUFFICES ASSUME ServerInit PROVE StoresInv /\ CallsInv
      OBVIOUS
    <2>2. StoresInv
      BY <2>1 DEF ServerInit, StoresInv, ValueAfter
    <2>3. NoGet \in GetCall /\ NoGet.pc = "new" /\ NoGet.start = 0
      BY DEF NoGet, GetCall
    <2>4. CallInv(NoGet)
      BY <2>1, <2>3 DEF ServerInit, CallInv
    <2>5. CallsInv
      BY <2>1, <2>3, <2>4 DEF ServerInit, CallsInv
    <2>6. QED
      BY <2>2, <2>5
  <1>2. StoresInv /\ CallsInv /\ [ServerNext]_serverVars => (StoresInv /\ CallsInv)'
    <2>1. SUFFICES ASSUME StoresInv, CallsInv, [ServerNext]_serverVars PROVE (StoresInv /\ CallsInv)'
      OBVIOUS
    <2>2. CASE ServerNext
      <3>1. StoresInv' /\ ChosenGrows /\ \A n \in Server : commitIndex[n] <= commitIndex'[n]
        BY <2>1, <2>2, StoresStep, ServerAssumption
      <3>2. QED
        BY <2>1, <2>2, <3>1, CallsStep, ServerAssumption
    <2>3. CASE UNCHANGED serverVars
      BY <2>1, <2>3 DEF serverVars, raftSide, writeSide, StoresInv, CallsInv, CallInv, ValueAfter
    <2>4. QED
      BY <2>1, <2>2, <2>3
  <1>3. CallsInv => ReadsAreCommitted
    BY DEF CallsInv, CallInv, ReadsAreCommitted
  <1>4. QED
    BY <1>1, <1>2, <1>3, PTL DEF ServerSpec

-----------------------------------------------------------------------------
(* Acknowledged writes *)

\* The leader knows that it leads, and the acknowledgements of its reign are for
\* commands that are committed or in its log.
AckInv ==
    /\ leader \in Server \cup {NoServer}
    /\ DOMAIN lead = Server
    /\ leader \in Server => IsLeader(leader)
    /\ elections \in Nat
    /\ \A a \in acked : a.by \in Server /\ a.reign \in Nat /\ a.reign <= elections
    /\ AckedUnlessDeposed

\* Where a command is, for the leader.
Has(s, x) == \E i \in DOMAIN s : s[i] = x

LEMMA AppendedHas ==
    ASSUME NEW s \in Seq(Nat), NEW t \in Seq(Nat), NEW x \in Nat, NEW y,
           Has(s \o t, y) \/ y = x
    PROVE  Has(s \o Append(t, x), y)
  <1>1. PICK u : u = Append(t, x)
    OBVIOUS
  <1>2. /\ u \in Seq(Nat) /\ Len(u) = Len(t) + 1 /\ Len(t) \in Nat /\ Len(s) \in Nat
        /\ \A i \in 1..Len(t) : u[i] = t[i]
        /\ u[Len(t) + 1] = x
    BY <1>1, AppendProperties, LenProperties
  <1>3. /\ s \o t \in Seq(Nat) /\ Len(s \o t) = Len(s) + Len(t)
        /\ \A i \in 1..Len(s) + Len(t) : (s \o t)[i] = IF i <= Len(s) THEN s[i] ELSE t[i - Len(s)]
    BY ConcatProperties
  <1>4. /\ s \o u \in Seq(Nat) /\ Len(s \o u) = Len(s) + Len(u)
        /\ \A i \in 1..Len(s) + Len(u) : (s \o u)[i] = IF i <= Len(s) THEN s[i] ELSE u[i - Len(s)]
    BY <1>2, ConcatProperties
  <1>5. DOMAIN (s \o t) = 1..Len(s) + Len(t) /\ DOMAIN (s \o u) = 1..Len(s) + Len(u)
    BY <1>3, <1>4, LenProperties
  <1>6. CASE y = x
    <2>1. PICK j : j = Len(s) + Len(u)
      OBVIOUS
    <2>2. j \in 1..Len(s) + Len(u) /\ ~(j <= Len(s)) /\ j - Len(s) = Len(t) + 1
      BY <1>2, <2>1
    <2>3. (s \o u)[j] = x
      BY <1>2, <1>4, <2>2
    <2>4. QED
      BY <1>1, <1>5, <1>6, <2>2, <2>3 DEF Has
  <1>7. CASE Has(s \o t, y)
    <2>1. PICK j \in 1..Len(s) + Len(t) : (s \o t)[j] = y
      BY <1>5, <1>7 DEF Has
    <2>2. j \in 1..Len(s) + Len(u)
      BY <1>2
    <2>3. (s \o u)[j] = y
      <3>1. CASE j <= Len(s)
        BY <1>3, <1>4, <2>1, <2>2, <3>1
      <3>2. CASE ~(j <= Len(s))
        <4>1. j - Len(s) \in 1..Len(t)
          BY <1>2, <3>2
        <4>2. QED
          BY <1>2, <1>3, <1>4, <2>1, <2>2, <3>2, <4>1
      <3>3. QED
        BY <3>1, <3>2
    <2>4. QED
      BY <1>1, <1>5, <2>2, <2>3 DEF Has
  <1>8. QED
    BY <1>6, <1>7

LEMMA AckStep ==
    ASSUME StoresInv, AckInv, ServerNext, ServerAssumption
    PROVE  AckInv'
  <1>1. /\ leader \in Server \cup {NoServer} /\ DOMAIN lead = Server
        /\ leader \in Server => lead[leader] = leader
        /\ elections \in Nat /\ NoServer \notin Server
        /\ \A a \in acked : a.by \in Server /\ a.reign \in Nat /\ a.reign <= elections
        /\ \A a \in acked : a.by = leader /\ a.reign = elections => Has(chosen \o log[leader], a.id)
    BY DEF AckInv, AckedUnlessDeposed, IsLeader, ServerAssumption, Has
  <1>2. CASE UNCHANGED <<chosen, leader, elections, lead, acked, log>>
    BY <1>2 DEF AckInv, AckedUnlessDeposed, IsLeader
  <1>3. ASSUME NEW n \in Server, Elect(n) PROVE AckInv'
    <2>1. /\ elections' = elections + 1 /\ leader' = n /\ lead' = [lead EXCEPT ![n] = n]
          /\ UNCHANGED acked
      BY <1>3 DEF Elect, SetLead, writeSide
    <2>2. \A a \in acked : a.reign # elections' /\ a.reign <= elections'
      BY <1>1, <2>1
    <2>3. lead'[n] = n /\ DOMAIN lead' = Server /\ elections' \in Nat
      BY <1>1, <2>1
    <2>4. QED
      BY <1>1, <2>1, <2>2, <2>3 DEF AckInv, AckedUnlessDeposed, IsLeader
  <1>4. ASSUME NEW n \in Server, Hear(n) PROVE AckInv'
    <2>1. /\ lead[n] # leader /\ lead' = [lead EXCEPT ![n] = leader]
          /\ UNCHANGED <<chosen, leader, elections, log, acked>>
      BY <1>4 DEF Hear, SetLead, writeSide
    <2>2. DOMAIN lead' = Server /\ (leader \in Server => lead'[leader] = leader)
      BY <1>1, <2>1
    <2>3. QED
      BY <1>1, <2>1, <2>2 DEF AckInv, AckedUnlessDeposed, IsLeader
  <1>5. ASSUME NEW n \in Server, Commit(n) PROVE AckInv'
    <2>1. PICK k \in 0..Len(log[n]) :
             /\ chosen' = chosen \o SubSeq(log[n], 1, k)
             /\ log' = [m \in Server |-> IF m = n THEN SubSeq(log[n], k + 1, Len(log[n])) ELSE <<>>]
      BY <1>5 DEF Commit
    <2>2. n = leader /\ UNCHANGED <<leader, elections, lead, acked>>
      BY <1>5 DEF Commit, writeSide
    <2>3. chosen' \o SubSeq(log[n], k + 1, Len(log[n])) = chosen \o log[n]
      BY <2>1, CommitStep
    <2>4. chosen' \o log'[leader'] = chosen \o log[leader]
      BY <2>1, <2>2, <2>3
    <2>5. QED
      BY <2>2, <2>4 DEF AckInv, AckedUnlessDeposed, IsLeader
  <1>6. ASSUME NEW n \in Server, Propose(n) PROVE AckInv'
    <2>1. PICK x : x = Head(proposeCh[n])
      OBVIOUS
    <2>2. /\ log' = [log EXCEPT ![n] = IF IsLeader(n) THEN Append(log[n], x) ELSE log[n]]
          /\ \/ acked' = acked \cup {[id |-> x, by |-> n, reign |-> elections]}
             \/ ~IsLeader(n) /\ UNCHANGED acked
          /\ UNCHANGED <<chosen, leader, elections, lead>>
      BY <1>6, <2>1 DEF Propose
    <2>3. /\ x \in Nat /\ log \in [Server -> Seq(Nat)] /\ chosen \in Seq(Nat)
      BY <1>6, <2>1, HeadTailProperties DEF Propose, StoresInv
    <2>4. \A a \in acked' : a.by \in Server /\ a.reign \in Nat /\ a.reign <= elections'
      BY <1>1, <2>2
    <2>5. ASSUME NEW a \in acked', a.by = leader, a.reign = elections
          PROVE  Has(chosen' \o log'[leader'], a.id)
      <3>1. leader \in Server /\ IsLeader(leader)
        BY <1>1, <2>4, <2>5 DEF IsLeader
      <3>2. CASE leader = n
        <4>1. log'[leader'] = Append(log[n], x) /\ log[n] \in Seq(Nat)
          BY <2>2, <2>3, <3>1, <3>2
        <4>2. a.id = x \/ Has(chosen \o log[n], a.id)
          BY <1>1, <2>2, <2>5, <3>2
        <4>3. Has(chosen \o Append(log[n], x), a.id)
          BY <2>3, <4>1, <4>2, AppendedHas
        <4>4. QED
          BY <2>2, <4>1, <4>3
      <3>3. CASE leader # n
        <4>1. a \in acked /\ log'[leader'] = log[leader]
          BY <2>2, <2>3, <2>5, <3>1, <3>3
        <4>2. QED
          BY <1>1, <2>2, <2>5, <4>1
      <3>4. QED
        BY <3>2, <3>3
    <2>6. QED
      BY <1>1, <2>2, <2>4, <2>5 DEF AckInv, AckedUnlessDeposed, IsLeader, Has
  <1>7. ASSUME NEW n \in Server,
               \/ FollowerCommits(n) \/ Applies(n) \/ Put(n) \/ OnLeaderChange(n) \/ LeaseExpires(n)
               \/ \E r \in Read : GetBegins(r, n)
        PROVE  AckInv'
    BY <1>2, <1>7 DEF FollowerCommits, Applies, Put, OnLeaderChange, LeaseExpires, GetBegins,
                      raftSide, writeSide
  <1>8. ASSUME NEW r \in Read, TakeIndex(r) \/ SkipReadIndex(r) \/ GetReads(r) PROVE AckInv'
    BY <1>2, <1>8 DEF TakeIndex, SkipReadIndex, GetReads, raftSide, writeSide
  <1>9. QED
    BY <1>3, <1>4, <1>5, <1>6, <1>7, <1>8 DEF ServerNext

\* A write that the leader acknowledged is committed or in its log until another leader
\* is elected, however proposals, commits and deposed leaders interleave (Propose).
THEOREM AckedByTheLeader == ServerSpec => []AckedUnlessDeposed
  <1>1. ServerInit => StoresInv /\ AckInv
    <2>1. ServerInit => StoresInv
      BY DEF ServerInit, StoresInv, ValueAfter
    <2>2. ServerInit => AckInv
      BY ServerAssumption DEF ServerInit, AckInv, AckedUnlessDeposed, ServerAssumption
    <2>3. QED
      BY <2>1, <2>2
  <1>2. StoresInv /\ AckInv /\ [ServerNext]_serverVars => (StoresInv /\ AckInv)'
    <2>1. SUFFICES ASSUME StoresInv, AckInv, [ServerNext]_serverVars PROVE (StoresInv /\ AckInv)'
      OBVIOUS
    <2>2. CASE ServerNext
      BY <2>1, <2>2, StoresStep, AckStep, ServerAssumption
    <2>3. CASE UNCHANGED serverVars
      <3>1. UNCHANGED <<chosen, leader, elections, log, lead, commitIndex, appliedIndex, store,
                        proposeCh, proposed, acked>>
        BY <2>3 DEF serverVars, raftSide, writeSide
      <3>2. StoresInv'
        BY <2>1, <3>1 DEF StoresInv, ValueAfter
      <3>3. AckInv'
        BY <2>1, <3>1 DEF AckInv, AckedUnlessDeposed, IsLeader
      <3>4. QED
        BY <3>2, <3>3
    <2>4. QED
      BY <2>1, <2>2, <2>3
  <1>3. AckInv => AckedUnlessDeposed
    BY DEF AckInv
  <1>4. QED
    BY <1>1, <1>2, <1>3, PTL DEF ServerSpec

-----------------------------------------------------------------------------
(* The change feed *)

Event == [id : Nat, version : Nat]

GotByAll(v) == \A t \in SinkID : Got(t, v)

\* Sink s got every matching entry before one that it got, and only entries of the log.
InOrder ==
    \A s \in SinkID : \A v \in Nat : Got(s, v) =>
        /\ v \in 1..Len(entries)
        /\ \A u \in 1..v - 1 : entries[u] => Got(s, u)

\* Everything up to version c was delivered to all.
SafePoint(c) == \A v \in 1..c : v \in 1..Len(entries) /\ (entries[v] => GotByAll(v))

\* The events hold, in order, what of the entries before version nx not all sinks got.
BatchOK(events, nx) ==
    /\ events \in Seq(Event)
    /\ nx \in 1..Len(entries) + 1
    /\ \A i \in 1..Len(events) :
          /\ events[i].version \in 1..nx - 1
          /\ events[i].id <= events[i].version
    /\ \A i, j \in 1..Len(events) : i < j => events[i].version < events[j].version
    /\ \A u \in 1..nx - 1 : entries[u] =>
          GotByAll(u) \/ \E i \in 1..Len(events) : events[i].version = u

FeedTypes ==
    /\ entries \in Seq(BOOLEAN)
    /\ startAt \in Nat /\ next \in Nat /\ lastEventID \in Nat
    /\ batch \in Seq(Event)
    /\ running \in BOOLEAN /\ restarted \in BOOLEAN
    /\ received \in [SinkID -> Seq(Nat)]
    /\ checkpoint \in [SinkID -> Nat]

\* Start was called twice on one feed, or all of this holds.
FeedInv ==
    restarted \/
        /\ FeedTypes
        /\ InOrder
        /\ SafePoint(startAt)
        /\ \A s \in SinkID : SafePoint(checkpoint[s])
        /\ running => BatchOK(batch, next) /\ lastEventID < next

\* What a sink has after the first n of the events were appended to what it got.
Lengthens(old, events, n, new) ==
    /\ old \in Seq(Nat) /\ events \in Seq(Event) /\ n \in 0..Len(events)
    /\ new = old \o SubSeq(Versions(events), 1, n)

LEMMA DeliveredTo ==
    ASSUME NEW old, NEW events, NEW n, NEW new, Lengthens(old, events, n, new)
    PROVE  /\ new \in Seq(Nat)
           /\ \A v : Has(new, v) <=> Has(old, v) \/ \E i \in 1..n : events[i].version = v
  <1>0. /\ old \in Seq(Nat) /\ events \in Seq(Event) /\ n \in 0..Len(events)
        /\ new = old \o SubSeq(Versions(events), 1, n)
    BY DEF Lengthens
  <1>1. Len(old) \in Nat /\ Len(events) \in Nat /\ n \in Nat /\ n <= Len(events)
        /\ DOMAIN events = 1..Len(events) /\ DOMAIN old = 1..Len(old)
    BY <1>0, LenProperties
  <1>2. PICK vs : vs = Versions(events)
    OBVIOUS
  <1>3. vs = [i \in 1..Len(events) |-> events[i].version]
    BY <1>1, <1>2 DEF Versions
  <1>4. ASSUME NEW i \in 1..Len(events) PROVE events[i].version \in Nat
    <2>1. events[i] \in Event
      BY <1>0, ElementOfSeq
    <2>2. QED
      BY <2>1 DEF Event
  <1>5. vs \in Seq(Nat) /\ Len(vs) = Len(events)
    BY <1>1, <1>3, <1>4
  <1>6. PICK part : part = SubSeq(vs, 1, n)
    OBVIOUS
  <1>7. part = [i \in 1..n |-> vs[i]] /\ Len(part) = n
    BY <1>1, <1>5, <1>6
  <1>8. part \in Seq(Nat) /\ \A i \in 1..n : part[i] = events[i].version
    <2>1. \A i \in 1..n : i \in 1..Len(events)
      BY <1>1
    <2>2. \A i \in 1..n : part[i] = events[i].version
      BY <1>3, <1>7, <2>1
    <2>3. \A i \in 1..n : vs[i] \in Nat
      BY <1>3, <1>4, <2>1
    <2>4. part \in Seq(Nat)
      BY <1>1, <1>7, <2>3, IsASeq
    <2>5. QED
      BY <2>2, <2>4
  <1>9. /\ new \in Seq(Nat) /\ Len(new) = Len(old) + n
        /\ \A i \in 1..Len(old) + n : new[i] = IF i <= Len(old) THEN old[i] ELSE part[i - Len(old)]
    <2>1. /\ old \o part \in Seq(Nat) /\ Len(old \o part) = Len(old) + Len(part)
          /\ \A i \in 1..Len(old) + Len(part) :
                (old \o part)[i] = IF i <= Len(old) THEN old[i] ELSE part[i - Len(old)]
      BY <1>0, <1>8, ConcatProperties
    <2>2. QED
      BY <1>0, <1>2, <1>6, <1>7, <2>1
  <1>10. DOMAIN new = 1..Len(old) + n
    BY <1>9, LenProperties
  <1>11. ASSUME NEW v, NEW i \in DOMAIN new, new[i] = v
         PROVE  (\E j \in DOMAIN old : old[j] = v) \/ \E j \in 1..n : events[j].version = v
    <2>1. CASE i <= Len(old)
      <3>1. i \in DOMAIN old
        BY <1>1, <1>10, <2>1
      <3>2. QED
        BY <1>9, <1>10, <1>11, <2>1, <3>1
    <2>2. CASE ~(i <= Len(old))
      <3>1. i - Len(old) \in 1..n
        BY <1>1, <1>10, <2>2
      <3>2. QED
        BY <1>8, <1>9, <1>10, <1>11, <2>2, <3>1
    <2>3. QED
      BY <2>1, <2>2
  <1>12. ASSUME NEW v, NEW i \in DOMAIN old, old[i] = v
         PROVE  \E j \in DOMAIN new : new[j] = v
    <2>1. i \in 1..Len(old) + n /\ i <= Len(old)
      BY <1>1
    <2>2. QED
      BY <1>9, <1>10, <1>12, <2>1
  <1>13. ASSUME NEW v, NEW i \in 1..n, events[i].version = v
         PROVE  \E j \in DOMAIN new : new[j] = v
    <2>1. PICK j : j = i + Len(old)
      OBVIOUS
    <2>2. j \in 1..Len(old) + n /\ ~(j <= Len(old)) /\ j - Len(old) = i
      BY <1>1, <2>1
    <2>3. QED
      BY <1>8, <1>9, <1>10, <1>13, <2>2
  <1>14. QED
    BY <1>9, <1>11, <1>12, <1>13 DEF Has

\* A call of Publish gives each sink some first part of the events.
Delivers(events, part) ==
    /\ received' \in [SinkID -> Seq(Nat)]
    /\ part \in [SinkID -> 0..Len(events)]
    /\ \A s \in SinkID : \A v \in Nat :
          Got(s, v)' <=> Got(s, v) \/ \E i \in 1..part[s] : events[i].version = v

LEMMA PublishDelivers ==
    ASSUME FeedTypes, NEW events \in Seq(Event), NEW failing \in 1..SinkCount + 1,
           NEW taken \in 0..Len(events), received' = PublishedUpTo(events, failing, taken),
           ChangeFeedAssumption
    PROVE  \E part : /\ Delivers(events, part)
                     /\ failing = SinkCount + 1 => part = [s \in SinkID |-> Len(events)]
  <1>1. Len(events) \in Nat /\ SinkCount \in Nat /\ received \in [SinkID -> Seq(Nat)]
    BY LenProperties DEF FeedTypes, ChangeFeedAssumption
  <1>2. PICK part : part = [s \in SinkID |-> IF s < failing THEN Len(events)
                                             ELSE IF s = failing THEN taken ELSE 0]
    OBVIOUS
  <1>3. part \in [SinkID -> 0..Len(events)]
    BY <1>1, <1>2
  <1>4. ASSUME NEW s \in SinkID
        PROVE  received'[s] = received[s] \o SubSeq(Versions(events), 1, part[s])
    <2>1. s \in Nat /\ failing \in Nat /\ received[s] \in Seq(Nat)
      BY <1>1 DEF SinkID
    <2>2. /\ s < failing => received'[s] = received[s] \o Versions(events)
          /\ s = failing => received'[s] = received[s] \o SubSeq(Versions(events), 1, taken)
          /\ ~(s < failing) /\ s # failing => received'[s] = received[s]
      <3>1. received'[s] = CASE s < failing -> received[s] \o Versions(events)
                             [] s = failing -> received[s] \o SubSeq(Versions(events), 1, taken)
                             [] OTHER -> received[s]
        BY DEF PublishedUpTo
      <3>2. s = failing => ~(s < failing)
        BY <2>1
      <3>3. QED
        BY <3>1, <3>2
    <2>3. PICK vs : vs = Versions(events)
      OBVIOUS
    <2>4. vs \in Seq(Nat) /\ Len(vs) = Len(events)
      <3>1. ASSUME NEW i \in 1..Len(events) PROVE events[i].version \in Nat
        <4>1. events[i] \in Event
          BY ElementOfSeq
        <4>2. QED
          BY <4>1 DEF Event
      <3>2. DOMAIN events = 1..Len(events)
        BY LenProperties
      <3>3. vs = [i \in 1..Len(events) |-> events[i].version]
        BY <2>3, <3>2 DEF Versions
      <3>4. QED
        BY <1>1, <3>1, <3>3
    <2>5. CASE s < failing
      <3>1. SubSeq(vs, 1, Len(vs)) = vs
        BY <2>4, SubSeqFull
      <3>2. part[s] = Len(vs)
        BY <1>2, <2>4, <2>5
      <3>3. QED
        BY <2>2, <2>3, <2>5, <3>1, <3>2
    <2>6. CASE s = failing
      <3>1. part[s] = taken /\ ~(s < failing)
        BY <1>2, <2>1, <2>6
      <3>2. QED
        BY <2>2, <2>6, <3>1
    <2>7. CASE ~(s < failing) /\ s # failing
      <3>1. part[s] = 0
        BY <1>2, <2>7
      <3>2. SubSeq(vs, 1, 0) = <<>>
        BY <2>4
      <3>3. received[s] \o <<>> = received[s]
        BY <2>1, ConcatEmptySeq
      <3>4. QED
        BY <2>2, <2>3, <2>7, <3>1, <3>2, <3>3
    <2>8. QED
      BY <2>5, <2>6, <2>7
  <1>5. ASSUME NEW s \in SinkID
        PROVE  /\ received'[s] \in Seq(Nat)
               /\ \A v \in Nat : Got(s, v)' <=> Got(s, v) \/ \E i \in 1..part[s] : events[i].version = v
    <2>1. PICK old, new, n : old = received[s] /\ new = received'[s] /\ n = part[s]
      OBVIOUS
    <2>2. Lengthens(old, events, n, new)
      BY <1>1, <1>3, <1>4, <2>1 DEF Lengthens
    <2>3. /\ new \in Seq(Nat)
          /\ \A v : Has(new, v) <=> Has(old, v) \/ \E i \in 1..n : events[i].version = v
      BY <2>2, DeliveredTo
    <2>4. \A v : (Got(s, v)' <=> Has(new, v)) /\ (Got(s, v) <=> Has(old, v))
      BY <2>1 DEF Got, Has
    <2>5. QED
      BY <2>1, <2>3, <2>4
  <1>6. received' \in [SinkID -> Seq(Nat)]
    <2>1. received' = [s \in SinkID |-> received'[s]]
      BY DEF PublishedUpTo
    <2>2. QED
      BY <1>5, <2>1
  <1>7. failing = SinkCount + 1 => part = [s \in SinkID |-> Len(events)]
    BY <1>1, <1>2 DEF SinkID
  <1>8. QED
    BY <1>3, <1>5, <1>6, <1>7 DEF Delivers

GotGrows == \A s \in SinkID : \A v \in Nat : Got(s, v) => Got(s, v)'

EntriesGrow == /\ entries \in Seq(BOOLEAN) /\ entries' \in Seq(BOOLEAN)
               /\ Len(entries) <= Len(entries')
               /\ \A i \in 1..Len(entries) : entries'[i] = entries[i]

LEMMA SafeStays ==
    ASSUME NEW c \in Nat, SafePoint(c), GotGrows, EntriesGrow
    PROVE  SafePoint(c)'
  <1>1. Len(entries) \in Nat /\ Len(entries') \in Nat /\ Len(entries) <= Len(entries')
    BY LenProperties DEF EntriesGrow
  <1>2. SUFFICES ASSUME NEW v \in 1..c
                 PROVE  v \in 1..Len(entries') /\ (entries'[v] => \A t \in SinkID : Got(t, v)')
    BY DEF SafePoint, GotByAll
  <1>3. v \in Nat /\ v \in 1..Len(entries) /\ (entries[v] => \A t \in SinkID : Got(t, v))
    BY DEF SafePoint, GotByAll
  <1>4. v \in 1..Len(entries') /\ entries'[v] = entries[v]
    BY <1>1, <1>3 DEF EntriesGrow
  <1>5. QED
    BY <1>3, <1>4 DEF GotGrows

LEMMA BatchStays ==
    ASSUME NEW events, NEW nx, BatchOK(events, nx), GotGrows, EntriesGrow
    PROVE  BatchOK(events, nx)'
  <1>1. Len(entries) \in Nat /\ Len(entries') \in Nat /\ Len(entries) <= Len(entries')
    BY LenProperties DEF EntriesGrow
  <1>2. nx \in Nat /\ nx \in 1..Len(entries) + 1 /\ nx \in 1..Len(entries') + 1
    BY <1>1 DEF BatchOK
  <1>3. ASSUME NEW u \in 1..nx - 1, entries'[u]
        PROVE  GotByAll(u)' \/ \E i \in 1..Len(events) : events[i].version = u
    <2>1. u \in Nat /\ u \in 1..Len(entries)
      BY <1>1, <1>2
    <2>2. entries[u]
      BY <1>3, <2>1 DEF EntriesGrow
    <2>3. GotByAll(u) \/ \E i \in 1..Len(events) : events[i].version = u
      BY <2>2 DEF BatchOK
    <2>4. GotByAll(u) => GotByAll(u)'
      BY <2>1 DEF GotByAll, GotGrows
    <2>5. QED
      BY <2>3, <2>4
  <1>4. QED
    BY <1>2, <1>3 DEF BatchOK

LEMMA OrderStays ==
    ASSUME FeedTypes, InOrder, NEW events, NEW nx, BatchOK(events, nx), NEW part,
           Delivers(events, part), UNCHANGED entries
    PROVE  InOrder'
  <1>1. /\ Len(entries) \in Nat /\ Len(events) \in Nat /\ nx \in Nat /\ nx - 1 <= Len(entries)
        /\ entries' = entries
    BY LenProperties DEF FeedTypes, BatchOK
  <1>2. SUFFICES ASSUME NEW s \in SinkID, NEW v \in Nat, Got(s, v)'
                 PROVE  v \in 1..Len(entries) /\ \A u \in 1..v - 1 : entries[u] => Got(s, u)'
    BY <1>1 DEF InOrder
  <1>3. CASE Got(s, v)
    <2>1. v \in 1..Len(entries) /\ \A u \in 1..v - 1 : entries[u] => Got(s, u)
      BY <1>3 DEF InOrder
    <2>2. \A u \in 1..v - 1 : u \in Nat
      OBVIOUS
    <2>3. QED
      BY <2>1, <2>2 DEF Delivers
  <1>4. ASSUME NEW i \in 1..part[s], events[i].version = v
        PROVE  v \in 1..Len(entries) /\ \A u \in 1..v - 1 : entries[u] => Got(s, u)'
    <2>1. part[s] \in 0..Len(events)
      BY DEF Delivers
    <2>2. i \in 1..Len(events) /\ v \in 1..nx - 1
      BY <1>1, <1>4, <2>1 DEF BatchOK
    <2>3. v \in 1..Len(entries)
      BY <1>1, <2>2
    <2>4. ASSUME NEW u \in 1..v - 1, entries[u] PROVE Got(s, u)'
      <3>1. u \in Nat /\ u \in 1..nx - 1 /\ u < v
        BY <1>1, <2>2
      <3>2. CASE GotByAll(u)
        BY <3>1, <3>2 DEF GotByAll, Delivers
      <3>3. ASSUME NEW j \in 1..Len(events), events[j].version = u PROVE Got(s, u)'
        <4>1. ~(i < j)
          <5>1. i < j => events[i].version < events[j].version
            BY <2>2, <3>3 DEF BatchOK
          <5>2. QED
            BY <1>4, <3>1, <3>3, <5>1
        <4>0. i # j
          BY <1>4, <3>1, <3>3
        <4>2. j \in 1..part[s]
          BY <1>1, <2>1, <2>2, <4>0, <4>1
        <4>3. QED
          BY <3>1, <3>3, <4>2 DEF Delivers
      <3>4. QED
        BY <2>4, <3>1, <3>2, <3>3 DEF BatchOK
    <2>5. QED
      BY <2>3, <2>4
  <1>5. QED
    BY <1>2, <1>3, <1>4 DEF Delivers

\* A flush keeps everything true of the events up to version nx.
LEMMA FlushKeeps ==
    ASSUME FeedTypes, InOrder, SafePoint(startAt), \A s \in SinkID : SafePoint(checkpoint[s]),
           NEW events, NEW nx, BatchOK(events, nx), Flush(events), UNCHANGED <<entries, startAt>>,
           ChangeFeedAssumption
    PROVE  /\ InOrder' /\ SafePoint(startAt)' /\ \A s \in SinkID : SafePoint(checkpoint[s])'
           /\ BatchOK(batch, nx)'
           /\ received' \in [SinkID -> Seq(Nat)] /\ checkpoint' \in [SinkID -> Nat]
           /\ batch' \in Seq(Event)
  <1>1. /\ events \in Seq(Event) /\ Len(events) \in Nat /\ SinkCount \in Nat /\ EntriesGrow
        /\ startAt \in Nat /\ checkpoint \in [SinkID -> Nat] /\ nx \in Nat
        /\ Len(entries) \in Nat /\ nx - 1 <= Len(entries)
    BY LenProperties DEF BatchOK, FeedTypes, ChangeFeedAssumption, EntriesGrow
  <1>2. ASSUME GotGrows PROVE SafePoint(startAt)'
    <2>1. PICK c : c = startAt
      OBVIOUS
    <2>2. SafePoint(c)'
      BY <1>1, <1>2, <2>1, SafeStays
    <2>3. QED
      BY <2>1, <2>2
  <1>3. ASSUME GotGrows, NEW s \in SinkID, checkpoint'[s] = checkpoint[s] PROVE SafePoint(checkpoint[s])'
    <2>1. PICK c : c = checkpoint[s]
      OBVIOUS
    <2>2. SafePoint(c)'
      BY <1>1, <1>3, <2>1, SafeStays
    <2>3. QED
      BY <1>3, <2>1, <2>2
  <1>4. CASE UNCHANGED sinkVars /\ batch' = events
    <2>1. UNCHANGED <<received, checkpoint>>
      BY <1>4 DEF sinkVars
    <2>2. GotGrows
      BY <2>1 DEF GotGrows, Got
    <2>3. InOrder'
      BY <2>1 DEF InOrder, Got
    <2>4. BatchOK(batch, nx)'
      <3>1. BatchOK(events, nx)'
        BY <1>1, <2>2, BatchStays
      <3>2. QED
        BY <1>4, <3>1 DEF BatchOK
    <2>5. \A s \in SinkID : SafePoint(checkpoint[s])'
      BY <1>3, <2>1, <2>2
    <2>6. QED
      BY <1>1, <1>2, <1>4, <2>1, <2>2, <2>3, <2>4, <2>5 DEF FeedTypes
  <1>5. CASE PublishFails(events) /\ batch' = events
    <2>1. PICK s \in SinkID, taken \in 0 .. Len(events) - 1 : received' = PublishedUpTo(events, s, taken)
      BY <1>5 DEF PublishFails
    <2>2. s \in 1..SinkCount + 1 /\ taken \in 0..Len(events)
      BY <1>1 DEF SinkID
    <2>3. PICK part : Delivers(events, part)
      BY <1>1, <2>1, <2>2, PublishDelivers
    <2>4. GotGrows
      BY <2>3 DEF Delivers, GotGrows
    <2>5. InOrder'
      BY <2>3, OrderStays
    <2>6. BatchOK(batch, nx)'
      <3>1. BatchOK(events, nx)'
        BY <1>1, <2>4, BatchStays
      <3>2. QED
        BY <1>5, <3>1 DEF BatchOK
    <2>7. UNCHANGED checkpoint
      BY <1>5 DEF PublishFails
    <2>8. \A q \in SinkID : SafePoint(checkpoint[q])'
      BY <1>3, <2>4, <2>7
    <2>9. QED
      BY <1>1, <1>2, <1>5, <2>3, <2>4, <2>5, <2>6, <2>7, <2>8 DEF Delivers
  <1>6. CASE /\ events # <<>>
             /\ received' = PublishedUpTo(events, SinkCount + 1, 0)
             /\ Checkpoints(events[Len(events)].id)
             /\ batch' = <<>>
    <2>1. SinkCount + 1 \in 1..SinkCount + 1 /\ 0 \in 0..Len(events)
      BY <1>1
    <2>2. PICK part : Delivers(events, part) /\ part = [s \in SinkID |-> Len(events)]
      BY <1>1, <1>6, <2>1, PublishDelivers
    <2>3. GotGrows
      BY <2>2 DEF Delivers, GotGrows
    <2>4. InOrder'
      BY <2>2, OrderStays
    <2>5. ASSUME NEW u \in 1..nx - 1, entries[u] PROVE GotByAll(u)'
      <3>1. u \in Nat
        OBVIOUS
      <3>2. CASE GotByAll(u)
        BY <2>3, <3>1, <3>2 DEF GotByAll, GotGrows
      <3>3. CASE \E i \in 1..Len(events) : events[i].version = u
        BY <2>2, <3>1, <3>3 DEF GotByAll, Delivers
      <3>4. QED
        BY <2>5, <3>2, <3>3 DEF BatchOK
    <2>6. BatchOK(batch, nx)'
      <3>1. batch' \in Seq(Event) /\ Len(batch') = 0
        BY <1>6
      <3>2. nx \in 1..Len(entries') + 1
        BY DEF BatchOK
      <3>3. QED
        BY <2>5, <3>1, <3>2 DEF BatchOK
    <2>7. PICK l : l = events[Len(events)]
      OBVIOUS
    <2>8. l \in Event /\ l.id \in Nat /\ l.version \in 1..nx - 1 /\ l.id <= l.version
      <3>1. Len(events) # 0
        BY <1>1, <1>6, EmptySeq
      <3>2. Len(events) \in 1..Len(events)
        BY <1>1, <3>1
      <3>3. l \in Event
        BY <1>1, <2>7, <3>2, ElementOfSeq
      <3>4. QED
        BY <2>7, <3>2, <3>3 DEF BatchOK, Event
    <2>9. \A v \in 1..l.id : v \in 1..nx - 1 /\ v \in 1..Len(entries)
      BY <1>1, <2>8
    <2>10. PICK c : c = l.id
      OBVIOUS
    <2>11. SafePoint(c)'
      BY <2>5, <2>9, <2>10 DEF SafePoint
    <2>12. PICK saved \in 0..SinkCount : checkpoint' = [s \in SinkID |-> IF s <= saved THEN c ELSE checkpoint[s]]
      BY <1>6, <2>7, <2>10 DEF Checkpoints
    <2>13. ASSUME NEW s \in SinkID PROVE SafePoint(checkpoint[s])'
      <3>1. CASE s <= saved
        BY <2>11, <2>12, <3>1
      <3>2. CASE ~(s <= saved)
        BY <1>3, <2>3, <2>12, <3>2
      <3>3. QED
        BY <3>1, <3>2
    <2>14. checkpoint' \in [SinkID -> Nat] /\ batch' \in Seq(Event)
      BY <1>1, <1>6, <2>8, <2>10, <2>12
    <2>15. QED
      BY <1>2, <2>2, <2>3, <2>4, <2>6, <2>13, <2>14 DEF Delivers
  <1>7. QED
    BY <1>4, <1>5, <1>6 DEF Flush

\* With the next entry, a batch is still in order.
LEMMA BatchGrows ==
    ASSUME FeedTypes, BatchOK(batch, next), lastEventID < next, next <= Len(entries), entries[next],
           NEW events, events = Append(batch, [id |-> lastEventID + 1, version |-> next])
    PROVE  BatchOK(events, next + 1)
  <1>1. PICK e : e = [id |-> lastEventID + 1, version |-> next]
    OBVIOUS
  <1>2. /\ e \in Event /\ e.id = lastEventID + 1 /\ e.version = next /\ lastEventID + 1 <= next
        /\ next \in Nat /\ Len(entries) \in Nat /\ next \in 1..Len(entries)
        /\ batch \in Seq(Event) /\ Len(batch) \in Nat
    <2>1. next \in Nat /\ lastEventID \in Nat /\ Len(entries) \in Nat /\ next \in 1..Len(entries) + 1
          /\ batch \in Seq(Event) /\ Len(batch) \in Nat
      BY LenProperties DEF FeedTypes, BatchOK
    <2>2. e \in Event /\ e.id = lastEventID + 1 /\ e.version = next
      BY <1>1, <2>1 DEF Event
    <2>3. QED
      BY <2>1, <2>2
  <1>3. /\ events \in Seq(Event) /\ Len(events) = Len(batch) + 1
        /\ \A i \in 1..Len(batch) : events[i] = batch[i]
        /\ events[Len(batch) + 1] = e
    BY <1>1, <1>2, AppendProperties
  <1>4. \A i \in 1..Len(events) : i \in 1..Len(batch) \/ i = Len(batch) + 1
    BY <1>2, <1>3
  <1>5. \A i \in 1..Len(batch) : batch[i].version \in 1..next - 1 /\ batch[i].id <= batch[i].version
    BY DEF BatchOK
  <1>6. ASSUME NEW i \in 1..Len(events)
        PROVE  events[i].version \in 1..(next + 1) - 1 /\ events[i].id <= events[i].version
    <2>1. CASE i \in 1..Len(batch)
      <3>1. events[i].version \in 1..next - 1 /\ events[i].id <= events[i].version
        BY <1>3, <1>5, <2>1
      <3>2. QED
        BY <1>2, <3>1
    <2>2. CASE i = Len(batch) + 1
      BY <1>2, <1>3, <2>2
    <2>3. QED
      BY <1>4, <2>1, <2>2
  <1>7. ASSUME NEW i \in 1..Len(events), NEW j \in 1..Len(events), i < j
        PROVE  events[i].version < events[j].version
    <2>1. i \in 1..Len(batch)
      BY <1>2, <1>3, <1>7
    <2>2. CASE j \in 1..Len(batch)
      BY <1>3, <1>7, <2>1, <2>2 DEF BatchOK
    <2>3. CASE j = Len(batch) + 1
      <3>1. events[i].version \in 1..next - 1 /\ events[j].version = next
        BY <1>2, <1>3, <1>5, <2>1, <2>3
      <3>2. QED
        BY <1>2, <3>1
    <2>4. QED
      BY <1>4, <2>2, <2>3
  <1>8. ASSUME NEW u \in 1..(next + 1) - 1, entries[u]
        PROVE  GotByAll(u) \/ \E i \in 1..Len(events) : events[i].version = u
    <2>1. \A i \in 1..Len(batch) : i \in 1..Len(events)
      BY <1>2, <1>3
    <2>2. CASE u = next
      <3>1. Len(batch) + 1 \in 1..Len(events)
        BY <1>2, <1>3
      <3>2. QED
        BY <1>2, <1>3, <2>2, <3>1
    <2>3. CASE u # next
      <3>1. u \in 1..next - 1
        BY <1>2, <2>3
      <3>2. GotByAll(u) \/ \E i \in 1..Len(batch) : batch[i].version = u
        BY <1>8, <3>1 DEF BatchOK
      <3>3. QED
        BY <1>3, <2>1, <3>2
    <2>4. QED
      BY <2>2, <2>3
  <1>9. next + 1 \in 1..Len(entries) + 1
    BY <1>2
  <1>10. QED
    BY <1>3, <1>6, <1>7, <1>8, <1>9 DEF BatchOK

\* What lies before the start of a feed that is not a second Start.
LEMMA StartsSafely ==
    ASSUME FeedTypes, SafePoint(startAt), NEW nx, nx = IF startAt = 0 THEN 1 ELSE startAt
    PROVE  BatchOK(<<>>, nx) /\ 0 < nx /\ nx \in Nat
  <1>1. startAt \in Nat /\ Len(entries) \in Nat
    BY LenProperties DEF FeedTypes
  <1>2. nx \in Nat /\ 0 < nx
    BY <1>1
  <1>3. nx \in 1..Len(entries) + 1
    <2>1. CASE startAt = 0
      BY <1>1, <2>1
    <2>2. CASE startAt # 0
      <3>1. startAt \in 1..startAt
        BY <1>1, <2>2
      <3>2. startAt \in 1..Len(entries)
        BY <3>1 DEF SafePoint
      <3>3. QED
        BY <1>1, <2>2, <3>2
    <2>3. QED
      BY <2>1, <2>2
  <1>4. ASSUME NEW u \in 1..nx - 1, entries[u] PROVE GotByAll(u)
    <2>1. u \in 1..startAt
      BY <1>1
    <2>2. QED
      BY <1>4, <2>1 DEF SafePoint
  <1>5. PICK e : e = <<>>
    OBVIOUS
  <1>6. e \in Seq(Event) /\ Len(e) = 0
    BY <1>5
  <1>7. BatchOK(e, nx)
    BY <1>3, <1>4, <1>6 DEF BatchOK
  <1>8. QED
    BY <1>2, <1>5, <1>7

LEMMA FeedStep ==
    ASSUME FeedInv, ChangeFeedNext, ChangeFeedAssumption
    PROVE  FeedInv'
  <1>1. CASE restarted
    <2>1. restarted'
      BY <1>1 DEF ChangeFeedNext, WriteEntry, StartFeed, ReadEntry, FlushTick, EndFeed, Resume
    <2>2. QED
      BY <2>1 DEF FeedInv
  <1>2. SUFFICES ASSUME ~restarted PROVE FeedInv'
    BY <1>1
  <1>3. /\ FeedTypes /\ InOrder /\ SafePoint(startAt)
        /\ \A s \in SinkID : SafePoint(checkpoint[s])
        /\ running => BatchOK(batch, next) /\ lastEventID < next
    BY <1>2 DEF FeedInv
  <1>4. /\ Len(entries) \in Nat /\ startAt \in Nat /\ next \in Nat /\ lastEventID \in Nat
        /\ checkpoint \in [SinkID -> Nat] /\ entries \in Seq(BOOLEAN)
    BY <1>3, LenProperties DEF FeedTypes
  <1>5. CASE \E matches \in BOOLEAN : WriteEntry(matches)
    <2>1. PICK matches \in BOOLEAN : WriteEntry(matches)
      BY <1>5
    <2>2. /\ entries' = Append(entries, matches)
          /\ UNCHANGED <<startAt, next, running, lastEventID, batch, received, checkpoint, restarted>>
      BY <2>1 DEF WriteEntry, feedVars, sinkVars
    <2>3. /\ entries' \in Seq(BOOLEAN) /\ Len(entries') = Len(entries) + 1
          /\ \A i \in 1..Len(entries) : entries'[i] = entries[i]
      BY <1>4, <2>2, AppendProperties
    <2>4. EntriesGrow /\ GotGrows
      BY <1>4, <2>2, <2>3 DEF EntriesGrow, GotGrows, Got
    <2>5. FeedTypes'
      BY <1>3, <2>2, <2>3 DEF FeedTypes
    <2>6. InOrder'
      <3>1. SUFFICES ASSUME NEW s \in SinkID, NEW v \in Nat, Got(s, v)'
                     PROVE  v \in 1..Len(entries') /\ \A u \in 1..v - 1 : entries'[u] => Got(s, u)'
        BY DEF InOrder
      <3>2. \A u : Got(s, u)' <=> Got(s, u)
        BY <2>2 DEF Got
      <3>3. v \in 1..Len(entries) /\ \A u \in 1..v - 1 : entries[u] => Got(s, u)
        BY <1>3, <3>1, <3>2 DEF InOrder
      <3>4. \A u \in 1..v - 1 : entries'[u] = entries[u]
        BY <1>4, <2>3, <3>3
      <3>5. v \in 1..Len(entries')
        BY <1>4, <2>3, <3>3
      <3>6. QED
        BY <3>2, <3>3, <3>4, <3>5
    <2>7. SafePoint(startAt)'
      <3>1. PICK c : c = startAt
        OBVIOUS
      <3>2. SafePoint(c)'
        BY <1>3, <1>4, <2>4, <3>1, SafeStays
      <3>3. QED
        BY <2>2, <3>1, <3>2
    <2>8. ASSUME NEW s \in SinkID PROVE SafePoint(checkpoint[s])'
      <3>1. PICK c : c = checkpoint[s]
        OBVIOUS
      <3>2. SafePoint(c)'
        BY <1>3, <1>4, <2>4, <3>1, SafeStays
      <3>3. QED
        BY <2>2, <3>1, <3>2
    <2>9. ASSUME running PROVE BatchOK(batch, next)' /\ lastEventID < next
      <3>1. PICK b, nx : b = batch /\ nx = next
        OBVIOUS
      <3>2. BatchOK(b, nx)'
        BY <1>3, <2>4, <2>9, <3>1, BatchStays
      <3>3. QED
        BY <1>3, <2>2, <2>9, <3>1, <3>2
    <2>10. QED
      BY <2>2, <2>5, <2>6, <2>7, <2>8, <2>9 DEF FeedInv
  <1>6. CASE StartFeed
    <2>1. /\ batch' = <<>> /\ running' = TRUE
          /\ next' = IF startAt = 0 THEN 1 ELSE startAt
          /\ restarted' = (restarted \/ lastEventID > 0)
          /\ UNCHANGED <<entries, startAt, lastEventID, received, checkpoint>>
      BY <1>6 DEF StartFeed, sinkVars
    <2>2. CASE lastEventID > 0
      BY <2>1, <2>2 DEF FeedInv
    <2>3. CASE ~(lastEventID > 0)
      <3>1. lastEventID = 0
        BY <1>4, <2>3
      <3>2. PICK nx, b : nx = next' /\ b = batch'
        OBVIOUS
      <3>3. BatchOK(<<>>, nx) /\ 0 < nx /\ nx \in Nat
        BY <1>3, <2>1, <3>2, StartsSafely
      <3>4. BatchOK(b, nx)
        BY <2>1, <3>2, <3>3
      <3>5. EntriesGrow /\ GotGrows
        BY <1>4, <2>1 DEF EntriesGrow, GotGrows, Got
      <3>6. BatchOK(b, nx)'
        BY <3>4, <3>5, BatchStays
      <3>7. BatchOK(batch, next)' /\ lastEventID' < next'
        BY <2>1, <3>1, <3>2, <3>3, <3>6
      <3>8. batch' \in Seq(Event)
        BY <2>1
      <3>9. FeedTypes'
        <4>1. next' \in Nat
          BY <3>2, <3>3
        <4>2. restarted' \in BOOLEAN
          BY <2>1
        <4>3. QED
          BY <1>3, <2>1, <3>8, <4>1, <4>2 DEF FeedTypes
      <3>10. InOrder' /\ SafePoint(startAt)' /\ \A s \in SinkID : SafePoint(checkpoint[s])'
        BY <1>3, <2>1 DEF InOrder, SafePoint, GotByAll, Got
      <3>11. QED
        BY <3>7, <3>9, <3>10 DEF FeedInv
    <2>4. QED
      BY <2>2, <2>3
  <1>7. CASE ReadEntry
    <2>1. /\ running /\ next <= Len(entries) /\ next' = next + 1
          /\ UNCHANGED <<entries, startAt, running, restarted>>
          /\ BatchOK(batch, next) /\ lastEventID < next
      BY <1>3, <1>7 DEF ReadEntry
    <2>2. EntriesGrow
      BY <1>4, <2>1 DEF EntriesGrow
    <2>3. PICK nx : nx = next + 1
      OBVIOUS
    <2>4. CASE entries[next]
      <3>1. PICK events : events = Append(batch, [id |-> lastEventID + 1, version |-> next])
        OBVIOUS
      <3>2. /\ lastEventID' = lastEventID + 1
            /\ Flush(events) \/ (batch' = events /\ UNCHANGED sinkVars)
        BY <1>7, <2>4, <3>1 DEF ReadEntry
      <3>3. BatchOK(events, next + 1)
        BY <1>3, <2>1, <2>4, <3>1, BatchGrows
      <3>4. BatchOK(events, nx)
        BY <2>3, <3>3
      <3>5. lastEventID' < next' /\ lastEventID' \in Nat /\ next' \in Nat
        BY <1>4, <2>1, <3>2
      <3>6. CASE Flush(events)
        <4>1. /\ InOrder' /\ SafePoint(startAt)' /\ \A s \in SinkID : SafePoint(checkpoint[s])'
              /\ BatchOK(batch, nx)'
              /\ received' \in [SinkID -> Seq(Nat)] /\ checkpoint' \in [SinkID -> Nat]
              /\ batch' \in Seq(Event)
          BY <1>3, <2>1, <3>4, <3>6, FlushKeeps
        <4>2. FeedTypes'
          BY <1>3, <2>1, <3>5, <4>1 DEF FeedTypes
        <4>3. BatchOK(batch, next)'
          BY <2>1, <2>3, <4>1
        <4>4. QED
          BY <3>5, <4>1, <4>2, <4>3 DEF FeedInv
      <3>7. CASE batch' = events /\ UNCHANGED sinkVars
        <4>1. UNCHANGED <<received, checkpoint>>
          BY <3>7 DEF sinkVars
        <4>2. GotGrows
          BY <4>1 DEF GotGrows, Got
        <4>3. BatchOK(events, nx)'
          BY <2>2, <3>4, <4>2, BatchStays
        <4>4. BatchOK(batch, next)'
          BY <2>1, <2>3, <3>7, <4>3
        <4>5. FeedTypes'
          <5>1. batch' \in Seq(Event)
            BY <3>4, <3>7 DEF BatchOK
          <5>2. QED
            BY <1>3, <2>1, <3>5, <4>1, <5>1 DEF FeedTypes
        <4>6. InOrder' /\ SafePoint(startAt)' /\ \A s \in SinkID : SafePoint(checkpoint[s])'
          BY <1>3, <2>1, <4>1 DEF InOrder, SafePoint, GotByAll, Got
        <4>7. QED
          BY <3>5, <4>4, <4>5, <4>6 DEF FeedInv
      <3>8. QED
        BY <3>2, <3>6, <3>7
    <2>5. CASE ~entries[next]
      <3>1. UNCHANGED <<lastEventID, batch, received, checkpoint>>
        BY <1>7, <2>5 DEF ReadEntry, sinkVars
      <3>2. PICK b : b = batch
        OBVIOUS
      <3>3. BatchOK(b, nx)
        <4>1. b \in Seq(Event) /\ next \in 1..Len(entries) + 1
          BY <2>1, <3>2 DEF BatchOK
        <4>2. nx \in 1..Len(entries) + 1
          BY <1>4, <2>1, <2>3, <4>1
        <4>3. \A u \in 1..nx - 1 : u \in 1..next - 1 \/ u = next
          BY <1>4, <2>3
        <4>4. \A u \in 1..next - 1 : u \in 1..nx - 1
          BY <1>4, <2>3
        <4>5. \A i \in 1..Len(b) : b[i].version \in 1..nx - 1 /\ b[i].id <= b[i].version
          BY <2>1, <3>2, <4>4 DEF BatchOK
        <4>6. \A i, j \in 1..Len(b) : i < j => b[i].version < b[j].version
          BY <2>1, <3>2 DEF BatchOK
        <4>7. \A u \in 1..nx - 1 : entries[u] => GotByAll(u) \/ \E i \in 1..Len(b) : b[i].version = u
          BY <2>1, <2>5, <3>2, <4>3 DEF BatchOK
        <4>8. QED
          BY <4>1, <4>2, <4>5, <4>6, <4>7 DEF BatchOK
      <3>4. GotGrows
        BY <3>1 DEF GotGrows, Got
      <3>5. BatchOK(b, nx)'
        BY <2>2, <3>3, <3>4, BatchStays
      <3>6. BatchOK(batch, next)'
        BY <2>1, <2>3, <3>1, <3>2, <3>5
      <3>7. lastEventID' < next' /\ next' \in Nat
        BY <1>4, <2>1, <3>1
      <3>8. FeedTypes'
        BY <1>3, <2>1, <3>1, <3>7 DEF FeedTypes
      <3>9. InOrder' /\ SafePoint(startAt)' /\ \A s \in SinkID : SafePoint(checkpoint[s])'
        BY <1>3, <2>1, <3>1 DEF InOrder, SafePoint, GotByAll, Got
      <3>10. QED
        BY <3>6, <3>7, <3>8, <3>9 DEF FeedInv
    <2>6. QED
      BY <2>4, <2>5
  <1>8. CASE FlushTick \/ EndFeed
    <2>1. /\ running /\ Flush(batch) /\ running' \in BOOLEAN
          /\ UNCHANGED <<entries, startAt, next, lastEventID, restarted>>
      BY <1>3, <1>8 DEF FlushTick, EndFeed, FeedTypes
    <2>2. PICK b, nx : b = batch /\ nx = next
      OBVIOUS
    <2>3. BatchOK(b, nx) /\ Flush(b)
      BY <1>3, <2>1, <2>2
    <2>4. /\ InOrder' /\ SafePoint(startAt)' /\ \A s \in SinkID : SafePoint(checkpoint[s])'
          /\ BatchOK(batch, nx)'
          /\ received' \in [SinkID -> Seq(Nat)] /\ checkpoint' \in [SinkID -> Nat]
          /\ batch' \in Seq(Event)
      BY <1>3, <2>1, <2>3, FlushKeeps
    <2>5. FeedTypes'
      BY <1>3, <2>1, <2>4 DEF FeedTypes
    <2>6. BatchOK(batch, next)' /\ lastEventID' < next'
      BY <1>3, <2>1, <2>2, <2>4
    <2>7. QED
      BY <2>4, <2>5, <2>6 DEF FeedInv
  <1>9. CASE \E s \in SinkID : Resume(s)
    <2>1. PICK s \in SinkID : Resume(s)
      BY <1>9
    <2>2. /\ startAt' = checkpoint[s] /\ running' = FALSE /\ next' = 1 /\ lastEventID' = 0
          /\ batch' = <<>> /\ UNCHANGED <<entries, received, checkpoint, restarted>>
      BY <2>1 DEF Resume, sinkVars
    <2>3. batch' \in Seq(Event) /\ startAt' \in Nat
      BY <1>4, <2>2
    <2>4. FeedTypes'
      BY <1>3, <2>2, <2>3 DEF FeedTypes
    <2>5. InOrder' /\ \A q \in SinkID : SafePoint(checkpoint[q])'
      BY <1>3, <2>2 DEF InOrder, SafePoint, GotByAll, Got
    <2>6. SafePoint(startAt)'
      BY <2>2, <2>5
    <2>7. QED
      BY <2>2, <2>4, <2>5, <2>6 DEF FeedInv
  <1>10. QED
    BY <1>5, <1>6, <1>7, <1>8, <1>9 DEF ChangeFeedNext

\* At least once and in order: whatever sink fails, whatever call of Checkpoint is lost
\* and whenever the process is restarted from the checkpoint of any sink, no sink gets an
\* event before an earlier one and nothing before a checkpoint is missing at any sink,
\* for every number of sinks, batch size and log (ChangeFeed.run, FanOutSink).
THEOREM FeedComplete == ChangeFeedSpec => []FeedIsComplete
  <1>1. ChangeFeedInit => FeedInv
    <2>1. SUFFICES ASSUME ChangeFeedInit PROVE FeedInv
      OBVIOUS
    <2>2. FeedTypes
      <3>1. entries \in Seq(BOOLEAN) /\ batch \in Seq(Event)
        BY <2>1 DEF ChangeFeedInit
      <3>2. received \in [SinkID -> Seq(Nat)]
        BY <2>1 DEF ChangeFeedInit
      <3>3. checkpoint \in [SinkID -> Nat]
        BY <2>1 DEF ChangeFeedInit
      <3>4. QED
        BY <2>1, <3>1, <3>2, <3>3 DEF ChangeFeedInit, FeedTypes
    <2>3. InOrder
      BY <2>1 DEF ChangeFeedInit, InOrder, Got
    <2>4. startAt = 0 /\ (\A s \in SinkID : checkpoint[s] = 0) /\ ~running
      BY <2>1 DEF ChangeFeedInit
    <2>5. SafePoint(startAt) /\ \A s \in SinkID : SafePoint(checkpoint[s])
      BY <2>4 DEF SafePoint
    <2>6. QED
      BY <2>2, <2>3, <2>4, <2>5 DEF FeedInv
  <1>2. FeedInv /\ [ChangeFeedNext]_changeFeedVars => FeedInv'
    <2>1. SUFFICES ASSUME FeedInv, [ChangeFeedNext]_changeFeedVars PROVE FeedInv'
      OBVIOUS
    <2>2. CASE ChangeFeedNext
      BY <2>1, <2>2, FeedStep, ChangeFeedAssumption
    <2>3. CASE UNCHANGED changeFeedVars
      <3>1. UNCHANGED <<entries, startAt, next, running, lastEventID, batch, received, checkpoint,
                        restarted>>
        BY <2>3 DEF changeFeedVars, feedVars, sinkVars
      <3>2. CASE restarted
        BY <3>1, <3>2 DEF FeedInv
      <3>3. CASE ~restarted
        <4>1. FeedTypes' /\ InOrder' /\ SafePoint(startAt)' /\ \A s \in SinkID : SafePoint(checkpoint[s])'
          BY <2>1, <3>1, <3>3 DEF FeedInv, FeedTypes, InOrder, SafePoint, GotByAll, Got
        <4>2. running => BatchOK(batch, next)' /\ lastEventID' < next'
          BY <2>1, <3>1, <3>3 DEF FeedInv, BatchOK, GotByAll, Got
        <4>3. QED
          BY <3>1, <4>1, <4>2 DEF FeedInv
      <3>4. QED
        BY <3>2, <3>3
    <2>4. QED
      BY <2>1, <2>2, <2>3
  <1>3. FeedInv => FeedIsComplete
    <2>1. SUFFICES ASSUME FeedInv, ~restarted PROVE NothingSkipped /\ CheckpointIsSafe
      BY DEF FeedIsComplete, NothingSkipped, CheckpointIsSafe
    <2>2. FeedTypes /\ InOrder /\ \A s \in SinkID : SafePoint(checkpoint[s])
      BY <2>1 DEF FeedInv
    <2>3. DOMAIN entries = 1..Len(entries) /\ Len(entries) \in Nat
      BY <2>2, LenProperties DEF FeedTypes
    <2>4. \A v \in DOMAIN entries : v \in Nat
      BY <2>3
    <2>5. NothingSkipped
      BY <2>2, <2>4 DEF NothingSkipped, InOrder
    <2>6. CheckpointIsSafe
      BY <2>2, <2>3 DEF CheckpointIsSafe, SafePoint, GotByAll
    <2>7. QED
      BY <2>5, <2>6
  <1>4. QED
    BY <1>1, <1>2, <1>3, PTL DEF ChangeFeedSpec

-----------------------------------------------------------------------------
(* The snapshot *)

\* The messages with numbers lo + 1 .. hi, in order.
Between(lo, hi) == [i \in 1..hi - lo |-> lo + i]

\* A channel without a marker holds what was sent and not yet received.
Plain(c, lo, hi) ==
    /\ c \in Seq(Nat) /\ lo \in Nat /\ hi \in Nat /\ lo <= hi
    /\ Len(c) = hi - lo
    /\ \A i \in 1..Len(c) : c[i] = lo + i

\* One with a marker has it between message cut and the next.
Marked(c, lo, hi, cut) ==
    /\ c \in Seq(Nat) /\ lo \in Nat /\ hi \in Nat /\ cut \in Nat /\ lo <= cut /\ cut <= hi
    /\ Len(c) = hi - lo + 1
    /\ c[cut - lo + 1] = MARKER
    /\ \A i \in 1..Len(c) : /\ i <= cut - lo => c[i] = lo + i
                            /\ i > cut - lo + 1 => c[i] = lo + i - 1

SnapshotTypes ==
    /\ channel \in [Peer -> [Peer -> Seq(Nat)]]
    /\ sent \in [Peer -> [Peer -> Nat]] /\ seen \in [Peer -> [Peer -> Nat]]
    /\ currentSnapshot \subseteq Peer /\ stateRecorded = currentSnapshot
    /\ markerReceived \in [Peer -> SUBSET Peer]
    /\ recordingFor \in [Peer -> [Peer -> Seq(Nat)]]
    /\ nodeStates.of \subseteq Peer
    /\ nodeStates.sent \in [Peer -> [Peer -> Nat]] /\ nodeStates.seen \in [Peer -> [Peer -> Nat]]
    /\ channelStates.of \subseteq Peer \X Peer
    /\ channelStates.messages \in [Peer -> [Peer -> Seq(Nat)]]

\* No node sends to itself.
NoSelf == \A p \in Peer : channel[p][p] = <<>> /\ seen[p][p] = 0 /\ nodeStates.seen[p][p] = 0

\* Between two nodes there is a marker from when the sender records its state until the
\* receiver takes it, which it does not do later than it records its own.
ChannelInv ==
    \A p, q \in Peer : p # q =>
        \/ /\ Plain(channel[p][q], seen[q][p], sent[p][q])
           /\ p \notin nodeStates.of \/ q \in nodeStates.of
        \/ /\ Marked(channel[p][q], seen[q][p], sent[p][q], nodeStates.sent[p][q])
           /\ p \in nodeStates.of
           /\ <<p, q>> \notin channelStates.of

\* A node that has recorded its state is in the snapshot until it has all markers, and
\* knows which it has.
ProgressInv ==
    /\ nodeStates.of # {} => initiated = TRUE
    /\ currentSnapshot \subseteq nodeStates.of
    /\ \A p, q \in Peer : p # q =>
          /\ <<p, q>> \in channelStates.of => p \in nodeStates.of /\ q \in nodeStates.of
          /\ p \in nodeStates.of \ currentSnapshot => <<q, p>> \in channelStates.of
          /\ p \in currentSnapshot => (q \in markerReceived[p] <=> <<q, p>> \in channelStates.of)

\* The recorded states are in the past and fit together; a channel's recording is what
\* was received since.
RecordInv ==
    /\ \A p, q \in Peer : p # q =>
          /\ q \in nodeStates.of => nodeStates.seen[q][p] <= seen[q][p]
          /\ p \in nodeStates.of /\ q \in nodeStates.of => nodeStates.seen[q][p] <= nodeStates.sent[p][q]
          /\ q \in currentSnapshot /\ p \notin markerReceived[q] =>
                recordingFor[q][p] = Between(nodeStates.seen[q][p], seen[q][p])
          /\ <<p, q>> \in channelStates.of =>
                channelStates.messages[p][q] = Between(nodeStates.seen[q][p], nodeStates.sent[p][q])
    /\ \A p \in Peer : <<p, p>> \notin channelStates.of

SnapshotInv == SnapshotTypes /\ NoSelf /\ ChannelInv /\ ProgressInv /\ RecordInv

LEMMA NoMarkerNeeded ==
    ASSUME NEW c, NEW lo, NEW hi, Plain(c, lo, hi)
    PROVE  /\ Plain(Append(c, hi + 1), lo, hi + 1)
           /\ Marked(Append(c, MARKER), lo, hi, hi)
           /\ c # <<>> => /\ Head(c) = lo + 1 /\ Head(c) # MARKER
                          /\ Plain(Tail(c), lo + 1, hi)
  <1>1. /\ c \in Seq(Nat) /\ lo \in Nat /\ hi \in Nat /\ lo <= hi /\ Len(c) = hi - lo
        /\ \A i \in 1..Len(c) : c[i] = lo + i
    BY DEF Plain
  <1>2. ASSUME NEW e \in Nat
        PROVE  /\ Append(c, e) \in Seq(Nat) /\ Len(Append(c, e)) = Len(c) + 1
               /\ \A i \in 1..Len(c) : Append(c, e)[i] = c[i]
               /\ Append(c, e)[Len(c) + 1] = e
    <2>1. c \in Seq(Nat)
      BY <1>1
    <2>2. QED
      BY <2>1, AppendProperties
  <1>3. Plain(Append(c, hi + 1), lo, hi + 1)
    <2>1. PICK d : d = Append(c, hi + 1)
      OBVIOUS
    <2>2. /\ d \in Seq(Nat) /\ Len(d) = Len(c) + 1 /\ d[Len(c) + 1] = hi + 1
          /\ \A i \in 1..Len(c) : d[i] = c[i]
      BY <1>1, <1>2, <2>1
    <2>3. \A i \in 1..Len(d) : d[i] = lo + i
      <3>1. ASSUME NEW i \in 1..Len(d) PROVE d[i] = lo + i
        <4>1. CASE i \in 1..Len(c)
          BY <1>1, <2>2, <4>1
        <4>2. CASE i = Len(c) + 1
          BY <1>1, <2>2, <4>2
        <4>3. QED
          BY <1>1, <2>2, <4>1, <4>2
      <3>2. QED
        BY <3>1
    <2>4. Plain(d, lo, hi + 1)
      BY <1>1, <2>2, <2>3 DEF Plain
    <2>5. QED
      BY <2>1, <2>4
  <1>4. Marked(Append(c, MARKER), lo, hi, hi)
    <2>1. PICK d : d = Append(c, MARKER)
      OBVIOUS
    <2>2. /\ d \in Seq(Nat) /\ Len(d) = Len(c) + 1 /\ d[Len(c) + 1] = MARKER
          /\ \A i \in 1..Len(c) : d[i] = c[i]
      BY <1>1, <1>2, <2>1 DEF MARKER
    <2>3. \A i \in 1..Len(d) : /\ i <= hi - lo => d[i] = lo + i
                               /\ ~(i > hi - lo + 1)
      <3>1. \A i \in 1..Len(d) : i <= hi - lo => i \in 1..Len(c)
        BY <1>1, <2>2
      <3>2. \A i \in 1..Len(d) : ~(i > hi - lo + 1)
        BY <1>1, <2>2
      <3>3. QED
        BY <1>1, <2>2, <3>1, <3>2
    <2>4. Marked(d, lo, hi, hi)
      BY <1>1, <2>2, <2>3 DEF Marked
    <2>5. QED
      BY <2>1, <2>4
  <1>5. ASSUME c # <<>>
        PROVE  Head(c) = lo + 1 /\ Head(c) # MARKER /\ Plain(Tail(c), lo + 1, hi)
    <2>1. /\ Head(c) = c[1] /\ Tail(c) \in Seq(Nat) /\ Len(Tail(c)) = Len(c) - 1 /\ Len(c) \in Nat
          /\ \A i \in 1..Len(Tail(c)) : Tail(c)[i] = c[i + 1]
      BY <1>1, <1>5, HeadTailProperties, LenProperties
    <2>2. Len(c) # 0
      BY <1>1, <1>5, EmptySeq
    <2>3. 1 \in 1..Len(c)
      BY <2>1, <2>2
    <2>4. Head(c) = lo + 1 /\ Head(c) # MARKER
      BY <1>1, <2>1, <2>3 DEF MARKER
    <2>5. PICK d : d = Tail(c)
      OBVIOUS
    <2>6. \A i \in 1..Len(d) : d[i] = (lo + 1) + i
      <3>1. \A i \in 1..Len(d) : i + 1 \in 1..Len(c)
        BY <2>1, <2>5
      <3>2. QED
        BY <1>1, <2>1, <2>5, <3>1
    <2>7. Plain(d, lo + 1, hi)
      BY <1>1, <2>1, <2>2, <2>5, <2>6 DEF Plain
    <2>8. QED
      BY <2>4, <2>5, <2>7
  <1>6. QED
    BY <1>3, <1>4, <1>5

LEMMA MarkerMoves ==
    ASSUME NEW c, NEW lo, NEW hi, NEW cut, Marked(c, lo, hi, cut)
    PROVE  /\ Marked(Append(c, hi + 1), lo, hi + 1, cut)
           /\ c # <<>>
           /\ Head(c) # MARKER => Head(c) = lo + 1 /\ Marked(Tail(c), lo + 1, hi, cut)
           /\ Head(c) = MARKER => cut = lo /\ Plain(Tail(c), lo, hi)
  <1>1. /\ c \in Seq(Nat) /\ lo \in Nat /\ hi \in Nat /\ cut \in Nat /\ lo <= cut /\ cut <= hi
        /\ Len(c) = hi - lo + 1 /\ c[cut - lo + 1] = MARKER
        /\ \A i \in 1..Len(c) : /\ i <= cut - lo => c[i] = lo + i
                                /\ i > cut - lo + 1 => c[i] = lo + i - 1
    BY DEF Marked
  <1>2. Marked(Append(c, hi + 1), lo, hi + 1, cut)
    <2>1. PICK d : d = Append(c, hi + 1)
      OBVIOUS
    <2>2. hi + 1 \in Nat
      BY <1>1
    <2>3. /\ d \in Seq(Nat) /\ Len(d) = Len(c) + 1 /\ d[Len(c) + 1] = hi + 1
          /\ \A i \in 1..Len(c) : d[i] = c[i]
      BY <1>1, <2>1, <2>2, AppendProperties
    <2>4. \A i \in 1..Len(d) : i \in 1..Len(c) \/ i = Len(c) + 1
      BY <1>1, <2>3
    <2>5. d[cut - lo + 1] = MARKER
      <3>1. cut - lo + 1 \in 1..Len(c)
        BY <1>1
      <3>2. QED
        BY <1>1, <2>3, <3>1
    <2>6. ASSUME NEW i \in 1..Len(d)
          PROVE  /\ i <= cut - lo => d[i] = lo + i
                 /\ i > cut - lo + 1 => d[i] = lo + i - 1
      <3>1. CASE i \in 1..Len(c)
        BY <1>1, <2>3, <3>1
      <3>2. CASE i = Len(c) + 1
        <4>1. ~(i <= cut - lo) /\ d[i] = lo + i - 1
          BY <1>1, <2>3, <3>2
        <4>2. QED
          BY <4>1
      <3>3. QED
        BY <2>4, <3>1, <3>2
    <2>7. Marked(d, lo, hi + 1, cut)
      BY <1>1, <2>3, <2>5, <2>6 DEF Marked
    <2>8. QED
      BY <2>1, <2>7
  <1>3. c # <<>>
    BY <1>1
  <1>4. PICK d : d = Tail(c)
    OBVIOUS
  <1>5. /\ Head(c) = c[1] /\ d \in Seq(Nat) /\ Len(d) = Len(c) - 1
        /\ \A i \in 1..Len(d) : d[i] = c[i + 1]
    BY <1>1, <1>3, <1>4, HeadTailProperties
  <1>6. 1 \in 1..Len(c) /\ \A i \in 1..Len(d) : i + 1 \in 1..Len(c)
    BY <1>1, <1>5
  <1>7. ASSUME Head(c) # MARKER PROVE Head(c) = lo + 1 /\ Marked(d, lo + 1, hi, cut)
    <2>1. cut # lo
      BY <1>1, <1>5, <1>7
    <2>2. Head(c) = lo + 1
      BY <1>1, <1>5, <1>6, <2>1
    <2>3. d[cut - (lo + 1) + 1] = MARKER
      <3>1. cut - (lo + 1) + 1 \in 1..Len(d) /\ cut - (lo + 1) + 1 + 1 = cut - lo + 1
        BY <1>1, <1>5, <2>1
      <3>2. d[cut - (lo + 1) + 1] = c[cut - (lo + 1) + 1 + 1]
        BY <1>5, <3>1
      <3>3. QED
        BY <1>1, <3>1, <3>2
    <2>4. ASSUME NEW i \in 1..Len(d)
          PROVE  /\ i <= cut - (lo + 1) => d[i] = (lo + 1) + i
                 /\ i > cut - (lo + 1) + 1 => d[i] = (lo + 1) + i - 1
      <3>1. d[i] = c[i + 1] /\ i + 1 \in 1..Len(c)
        BY <1>5, <1>6
      <3>2. /\ i + 1 <= cut - lo => c[i + 1] = lo + (i + 1)
            /\ i + 1 > cut - lo + 1 => c[i + 1] = lo + (i + 1) - 1
        BY <1>1, <3>1
      <3>3. QED
        BY <1>1, <3>1, <3>2
    <2>5. lo + 1 <= cut /\ Len(d) = hi - (lo + 1) + 1 /\ lo + 1 \in Nat
      BY <1>1, <1>5, <2>1
    <2>6. Marked(d, lo + 1, hi, cut)
      BY <1>1, <1>5, <2>3, <2>4, <2>5 DEF Marked
    <2>7. QED
      BY <2>2, <2>6
  <1>8. ASSUME Head(c) = MARKER PROVE cut = lo /\ Plain(d, lo, hi)
    <2>1. cut = lo
      <3>1. CASE cut # lo
        BY <1>1, <1>5, <1>6, <1>8, <3>1, SMTT(30) DEF MARKER
      <3>2. QED
        BY <3>1
    <2>2. \A i \in 1..Len(d) : d[i] = lo + i
      <3>1. ASSUME NEW i \in 1..Len(d) PROVE d[i] = lo + i
        <4>1. d[i] = c[i + 1] /\ i + 1 \in 1..Len(c)
          BY <1>5, <1>6
        <4>2. i + 1 > cut - lo + 1
          BY <1>1, <2>1
        <4>3. c[i + 1] = lo + (i + 1) - 1
          BY <1>1, <4>1, <4>2
        <4>4. QED
          BY <1>1, <4>1, <4>3
      <3>2. QED
        BY <3>1
    <2>3. Len(d) = hi - lo /\ lo <= hi
      BY <1>1, <1>5
    <2>4. QED
      BY <1>1, <1>5, <2>1, <2>2, <2>3 DEF Plain
  <1>9. QED
    BY <1>2, <1>3, <1>4, <1>7, <1>8

LEMMA BetweenGrows ==
    ASSUME NEW lo \in Nat, NEW hi \in Nat, lo <= hi
    PROVE  /\ Append(Between(lo, hi), hi + 1) = Between(lo, hi + 1)
           /\ Between(lo, hi) \in Seq(Nat)
           /\ Between(lo, lo) = <<>>
  <1>1. PICK b : b = Between(lo, hi)
    OBVIOUS
  <1>2. b \in Seq(Nat) /\ Len(b) = hi - lo /\ \A i \in 1..hi - lo : b[i] = lo + i
    <2>1. b = [i \in 1..hi - lo |-> lo + i] /\ hi - lo \in Nat
      BY <1>1 DEF Between
    <2>2. \A i \in 1..hi - lo : lo + i \in Nat
      OBVIOUS
    <2>3. b \in Seq(Nat)
      BY <2>1, <2>2, IsASeq
    <2>4. QED
      BY <2>1, <2>3
  <1>3. PICK d : d = Append(b, hi + 1)
    OBVIOUS
  <1>4. /\ d \in Seq(Nat) /\ Len(d) = Len(b) + 1 /\ d[Len(b) + 1] = hi + 1
        /\ \A i \in 1..Len(b) : d[i] = b[i]
    BY <1>2, <1>3, AppendProperties
  <1>5. d = [i \in 1..Len(d) |-> d[i]]
    BY <1>4
  <1>6. Len(d) = (hi + 1) - lo
    BY <1>2, <1>4
  <1>7. \A i \in 1..Len(d) : d[i] = lo + i
    <2>1. ASSUME NEW i \in 1..Len(d) PROVE d[i] = lo + i
      <3>1. CASE i \in 1..Len(b)
        BY <1>2, <1>4, <3>1
      <3>2. CASE i = Len(b) + 1
        BY <1>2, <1>4, <3>2
      <3>3. QED
        BY <1>2, <1>4, <3>1, <3>2
    <2>2. QED
      BY <2>1
  <1>8. d = Between(lo, hi + 1)
    BY <1>5, <1>6, <1>7 DEF Between
  <1>9. Between(lo, lo) = <<>>
    <2>1. 1..lo - lo = {}
      OBVIOUS
    <2>2. QED
      BY <2>1 DEF Between
  <1>10. QED
    BY <1>1, <1>2, <1>3, <1>8, <1>9

LEMMA OneEntry ==
    ASSUME NEW S, NEW T, NEW f \in [S -> [S -> T]], NEW p \in S, NEW q \in S, NEW e \in T,
           NEW g, g = [f EXCEPT ![p][q] = e]
    PROVE  /\ g \in [S -> [S -> T]]
           /\ \A a, b \in S : g[a][b] = IF a = p /\ b = q THEN e ELSE f[a][b]
  OBVIOUS

\* The application sends and receives while markers are under way.
LEMMA SendKeeps ==
    ASSUME SnapshotInv, NEW p \in Peer, NEW q \in Peer, SendMessage(p, q)
    PROVE  SnapshotInv'
  <1>1. SnapshotTypes /\ NoSelf /\ ChannelInv /\ ProgressInv /\ RecordInv /\ p # q
    BY DEF SnapshotInv, SendMessage
  <1>2. UNCHANGED <<seen, initiated, currentSnapshot, stateRecorded, markerReceived, recordingFor,
                    nodeStates, channelStates>>
    BY DEF SendMessage, coordinatorVars, resultVars
  <1>3. PICK n, d : n = sent[p][q] + 1 /\ d = Append(channel[p][q], n)
    OBVIOUS
  <1>4. n \in Nat /\ channel[p][q] \in Seq(Nat)
    <2>1. sent \in [Peer -> [Peer -> Nat]] /\ channel \in [Peer -> [Peer -> Seq(Nat)]]
      BY <1>1 DEF SnapshotTypes
    <2>2. sent[p][q] \in Nat /\ channel[p][q] \in Seq(Nat)
      BY <2>1
    <2>3. QED
      BY <1>3, <2>2
  <1>5. d \in Seq(Nat)
    BY <1>3, <1>4, AppendProperties
  <1>6. /\ sent \in [Peer -> [Peer -> Nat]] /\ channel \in [Peer -> [Peer -> Seq(Nat)]]
        /\ sent' = [sent EXCEPT ![p][q] = n]
    BY <1>1, <1>3 DEF SnapshotTypes, SendMessage
  <1>7. /\ sent' \in [Peer -> [Peer -> Nat]]
        /\ \A a, b \in Peer : sent'[a][b] = IF a = p /\ b = q THEN n ELSE sent[a][b]
    BY <1>4, <1>6, OneEntry
  <1>8. channel' = [channel EXCEPT ![p][q] = d]
    <2>1. sent'[p][q] = n
      BY <1>7
    <2>2. QED
      BY <1>3, <2>1 DEF SendMessage
  <1>9. /\ channel' \in [Peer -> [Peer -> Seq(Nat)]]
        /\ \A a, b \in Peer : channel'[a][b] = IF a = p /\ b = q THEN d ELSE channel[a][b]
    BY <1>5, <1>6, <1>8, OneEntry
  <1>10. SnapshotTypes'
    BY <1>1, <1>2, <1>7, <1>9 DEF SnapshotTypes
  <1>11. NoSelf'
    BY <1>1, <1>2, <1>9 DEF NoSelf
  <1>12. ChannelInv'
    <2>1. SUFFICES ASSUME NEW a \in Peer, NEW b \in Peer, a # b
                   PROVE  \/ /\ Plain(channel'[a][b], seen'[b][a], sent'[a][b])
                             /\ a \notin nodeStates'.of \/ b \in nodeStates'.of
                          \/ /\ Marked(channel'[a][b], seen'[b][a], sent'[a][b], nodeStates'.sent[a][b])
                             /\ a \in nodeStates'.of
                             /\ <<a, b>> \notin channelStates'.of
      BY DEF ChannelInv
    <2>2. \/ /\ Plain(channel[a][b], seen[b][a], sent[a][b])
             /\ a \notin nodeStates.of \/ b \in nodeStates.of
          \/ /\ Marked(channel[a][b], seen[b][a], sent[a][b], nodeStates.sent[a][b])
             /\ a \in nodeStates.of
             /\ <<a, b>> \notin channelStates.of
      BY <1>1, <2>1 DEF ChannelInv
    <2>3. CASE a = p /\ b = q
      <3>1. PICK c, lo, hi, cut : /\ c = channel[p][q] /\ lo = seen[q][p] /\ hi = sent[p][q]
                                  /\ cut = nodeStates.sent[p][q]
        OBVIOUS
      <3>2. channel'[a][b] = Append(c, hi + 1) /\ sent'[a][b] = hi + 1
        BY <1>3, <1>7, <1>9, <2>3, <3>1
      <3>3. Plain(c, lo, hi) => Plain(Append(c, hi + 1), lo, hi + 1)
        BY NoMarkerNeeded
      <3>4. Marked(c, lo, hi, cut) => Marked(Append(c, hi + 1), lo, hi + 1, cut)
        BY MarkerMoves
      <3>5. QED
        BY <1>2, <2>2, <2>3, <3>1, <3>2, <3>3, <3>4
    <2>4. CASE ~(a = p /\ b = q)
      <3>1. channel'[a][b] = channel[a][b] /\ sent'[a][b] = sent[a][b]
        BY <1>7, <1>9, <2>4
      <3>2. QED
        BY <1>2, <2>2, <3>1
    <2>5. QED
      BY <2>3, <2>4
  <1>13. ProgressInv'
    BY <1>1, <1>2 DEF ProgressInv
  <1>14. RecordInv'
    BY <1>1, <1>2 DEF RecordInv
  <1>15. QED
    BY <1>10, <1>11, <1>12, <1>13, <1>14 DEF SnapshotInv

LEMMA ReceiveKeeps ==
    ASSUME SnapshotInv, NEW p \in Peer, NEW from \in Peer, ReceiveMessage(p, from)
    PROVE  SnapshotInv'
  <1>1. SnapshotTypes /\ NoSelf /\ ChannelInv /\ ProgressInv /\ RecordInv
    BY DEF SnapshotInv
  <1>2. /\ UNCHANGED <<sent, initiated, currentSnapshot, stateRecorded, markerReceived,
                       nodeStates, channelStates>>
        /\ channel[from][p] # <<>> /\ Head(channel[from][p]) # MARKER /\ p # from
    BY <1>1 DEF ReceiveMessage, resultVars, NoSelf
  <1>3. PICK c, lo, hi, cut : /\ c = channel[from][p] /\ lo = seen[p][from] /\ hi = sent[from][p]
                              /\ cut = nodeStates.sent[from][p]
    OBVIOUS
  <1>4. \/ /\ Plain(c, lo, hi)
           /\ from \notin nodeStates.of \/ p \in nodeStates.of
        \/ /\ Marked(c, lo, hi, cut)
           /\ from \in nodeStates.of
           /\ <<from, p>> \notin channelStates.of
    BY <1>1, <1>2, <1>3 DEF ChannelInv
  <1>5. /\ Plain(c, lo, hi) => Head(c) = lo + 1 /\ Plain(Tail(c), lo + 1, hi)
        /\ Marked(c, lo, hi, cut) => Head(c) = lo + 1 /\ Marked(Tail(c), lo + 1, hi, cut)
    <2>1. c # <<>> /\ Head(c) # MARKER
      BY <1>2, <1>3
    <2>2. Plain(c, lo, hi) => Head(c) = lo + 1 /\ Plain(Tail(c), lo + 1, hi)
      BY <2>1, NoMarkerNeeded
    <2>3. Marked(c, lo, hi, cut) => Head(c) = lo + 1 /\ Marked(Tail(c), lo + 1, hi, cut)
      BY <2>1, MarkerMoves
    <2>4. QED
      BY <2>2, <2>3
  <1>6. Head(c) = lo + 1
    BY <1>4, <1>5
  <1>7. /\ seen \in [Peer -> [Peer -> Nat]] /\ channel \in [Peer -> [Peer -> Seq(Nat)]]
        /\ recordingFor \in [Peer -> [Peer -> Seq(Nat)]] /\ lo \in Nat /\ lo + 1 \in Nat
        /\ c \in Seq(Nat) /\ c # <<>>
    <2>1. /\ seen \in [Peer -> [Peer -> Nat]] /\ channel \in [Peer -> [Peer -> Seq(Nat)]]
          /\ recordingFor \in [Peer -> [Peer -> Seq(Nat)]]
      BY <1>1 DEF SnapshotTypes
    <2>2. lo \in Nat /\ c \in Seq(Nat)
      BY <1>3, <2>1
    <2>3. QED
      BY <1>2, <1>3, <2>1, <2>2, SMTT(30)
  <1>8. PICK d : d = Tail(c)
    OBVIOUS
  <1>9. d \in Seq(Nat)
    BY <1>7, <1>8, HeadTailProperties
  <1>10. /\ channel' = [channel EXCEPT ![from][p] = d]
         /\ seen' = [seen EXCEPT ![p][from] = lo + 1]
    BY <1>3, <1>8 DEF ReceiveMessage
  <1>11. /\ channel' \in [Peer -> [Peer -> Seq(Nat)]]
         /\ \A a, b \in Peer : channel'[a][b] = IF a = from /\ b = p THEN d ELSE channel[a][b]
    BY <1>7, <1>9, <1>10, OneEntry
  <1>12. /\ seen' \in [Peer -> [Peer -> Nat]]
         /\ \A a, b \in Peer : seen'[a][b] = IF a = p /\ b = from THEN lo + 1 ELSE seen[a][b]
    BY <1>7, <1>10, OneEntry
  <1>13. PICK r : r = Append(recordingFor[p][from], lo + 1)
    OBVIOUS
  <1>14. r \in Seq(Nat)
    <2>1. recordingFor[p][from] \in Seq(Nat)
      BY <1>7
    <2>2. QED
      BY <1>7, <1>13, <2>1, AppendProperties
  <1>15. /\ Records(p, from) => recordingFor' = [recordingFor EXCEPT ![p][from] = r]
         /\ ~Records(p, from) => recordingFor' = recordingFor
    BY <1>3, <1>6, <1>13 DEF ReceiveMessage
  <1>16. /\ recordingFor' \in [Peer -> [Peer -> Seq(Nat)]]
         /\ \A a, b \in Peer : recordingFor'[a][b] = IF Records(p, from) /\ a = p /\ b = from
                                                     THEN r ELSE recordingFor[a][b]
    <2>1. CASE Records(p, from)
      <3>1. /\ recordingFor' \in [Peer -> [Peer -> Seq(Nat)]]
            /\ \A a, b \in Peer : recordingFor'[a][b] = IF a = p /\ b = from THEN r ELSE recordingFor[a][b]
        <4>1. recordingFor' = [recordingFor EXCEPT ![p][from] = r]
          BY <1>15, <2>1
        <4>2. recordingFor \in [Peer -> [Peer -> Seq(Nat)]]
          BY <1>7
        <4>3. QED
          BY <1>14, <4>1, <4>2, OneEntry
      <3>2. QED
        BY <2>1, <3>1
    <2>2. CASE ~Records(p, from)
      BY <1>7, <1>15, <2>2
    <2>3. QED
      BY <2>1, <2>2
  <1>17. SnapshotTypes'
    BY <1>1, <1>2, <1>11, <1>12, <1>16 DEF SnapshotTypes
  <1>18. NoSelf'
    BY <1>1, <1>2, <1>11, <1>12 DEF NoSelf
  <1>19. ChannelInv'
    <2>1. SUFFICES ASSUME NEW a \in Peer, NEW b \in Peer, a # b
                   PROVE  \/ /\ Plain(channel'[a][b], seen'[b][a], sent'[a][b])
                             /\ a \notin nodeStates'.of \/ b \in nodeStates'.of
                          \/ /\ Marked(channel'[a][b], seen'[b][a], sent'[a][b], nodeStates'.sent[a][b])
                             /\ a \in nodeStates'.of
                             /\ <<a, b>> \notin channelStates'.of
      BY DEF ChannelInv
    <2>2. CASE a = from /\ b = p
      <3>1. channel'[a][b] = Tail(c) /\ seen'[b][a] = lo + 1
        BY <1>8, <1>11, <1>12, <2>2
      <3>2. QED
        BY <1>2, <1>3, <1>4, <1>5, <2>2, <3>1
    <2>3. CASE ~(a = from /\ b = p)
      <3>1. channel'[a][b] = channel[a][b] /\ seen'[b][a] = seen[b][a]
        BY <1>11, <1>12, <2>3
      <3>2. \/ /\ Plain(channel[a][b], seen[b][a], sent[a][b])
               /\ a \notin nodeStates.of \/ b \in nodeStates.of
            \/ /\ Marked(channel[a][b], seen[b][a], sent[a][b], nodeStates.sent[a][b])
               /\ a \in nodeStates.of
               /\ <<a, b>> \notin channelStates.of
        BY <1>1, <2>1 DEF ChannelInv
      <3>3. QED
        BY <1>2, <3>1, <3>2
    <2>4. QED
      BY <2>2, <2>3
  <1>20. ProgressInv'
    BY <1>1, <1>2 DEF ProgressInv
  <1>21. RecordInv'
    <2>1. ASSUME NEW a \in Peer, NEW b \in Peer, a # b, b \in nodeStates.of
          PROVE  nodeStates.seen[b][a] <= seen'[b][a]
      <3>1. nodeStates.seen[b][a] <= seen[b][a] /\ nodeStates.seen[b][a] \in Nat /\ seen[b][a] \in Nat
        BY <1>1, <2>1, ZenonT(40) DEF RecordInv, SnapshotTypes
      <3>2. seen'[b][a] = seen[b][a] \/ seen'[b][a] = seen[b][a] + 1
        BY <1>3, <1>12
      <3>3. QED
        BY <3>1, <3>2
    <2>2. ASSUME NEW a \in Peer, NEW b \in Peer, a # b, b \in currentSnapshot, a \notin markerReceived[b]
          PROVE  recordingFor'[b][a] = Between(nodeStates.seen[b][a], seen'[b][a])
      <3>1. /\ recordingFor[b][a] = Between(nodeStates.seen[b][a], seen[b][a]) /\ b \in nodeStates.of
            /\ nodeStates.seen[b][a] <= seen[b][a]
        BY <1>1, <2>2 DEF RecordInv, ProgressInv
      <3>2. CASE b = p /\ a = from
        <4>1. Records(p, from)
          BY <1>1, <2>2, <3>2 DEF Records, SnapshotTypes
        <4>2. recordingFor'[b][a] = r /\ seen'[b][a] = lo + 1
          BY <1>12, <1>16, <3>2, <4>1
        <4>3. PICK s : s = nodeStates.seen[b][a]
          OBVIOUS
        <4>4. s \in Nat /\ s <= lo
          BY <1>1, <1>3, <3>1, <3>2, <4>3, SMTT(30) DEF SnapshotTypes
        <4>5. Append(Between(s, lo), lo + 1) = Between(s, lo + 1)
          BY <1>7, <4>4, BetweenGrows
        <4>6. QED
          BY <1>3, <1>13, <3>1, <3>2, <4>2, <4>3, <4>5
      <3>3. CASE ~(b = p /\ a = from)
        <4>1. recordingFor'[b][a] = recordingFor[b][a] /\ seen'[b][a] = seen[b][a]
          BY <1>12, <1>16, <3>3
        <4>2. QED
          BY <3>1, <4>1
      <3>4. QED
        BY <3>2, <3>3
    <2>3. QED
      BY <1>1, <1>2, <2>1, <2>2 DEF RecordInv
  <1>22. QED
    BY <1>17, <1>18, <1>19, <1>20, <1>21 DEF SnapshotInv

LEMMA OneRow ==
    ASSUME NEW S, NEW T, NEW f \in [S -> T], NEW p \in S, NEW row \in T,
           NEW g, g = [f EXCEPT ![p] = row]
    PROVE  /\ g \in [S -> T]
           /\ \A a \in S : g[a] = IF a = p THEN row ELSE f[a]
  OBVIOUS

Forwards(ch, p, to, new) ==
    ch \in [Peer -> [Peer -> Seq(Nat)]] /\ p \in Peer /\ new = WithMarkers(ch, p, to)

LEMMA MarkersSent ==
    ASSUME NEW ch, NEW p, NEW to, NEW new, Forwards(ch, p, to, new)
    PROVE  /\ new \in [Peer -> [Peer -> Seq(Nat)]]
           /\ \A a, b \in Peer : new[a][b] = IF a = p /\ b \in to THEN Append(ch[a][b], MARKER) ELSE ch[a][b]
  <1>0. ch \in [Peer -> [Peer -> Seq(Nat)]] /\ p \in Peer /\ new = WithMarkers(ch, p, to)
    BY DEF Forwards
  <1>1. PICK row : row = [q \in Peer |-> IF q \in to THEN Append(ch[p][q], MARKER) ELSE ch[p][q]]
    OBVIOUS
  <1>2. ASSUME NEW q \in Peer PROVE Append(ch[p][q], MARKER) \in Seq(Nat) /\ ch[p][q] \in Seq(Nat)
    <2>1. ch[p][q] \in Seq(Nat) /\ MARKER \in Nat
      BY <1>0 DEF MARKER
    <2>2. QED
      BY <2>1, AppendProperties
  <1>3. row \in [Peer -> Seq(Nat)]
    BY <1>1, <1>2
  <1>4. new = [ch EXCEPT ![p] = row]
    BY <1>0, <1>1 DEF WithMarkers
  <1>5. new \in [Peer -> [Peer -> Seq(Nat)]] /\ \A a \in Peer : new[a] = IF a = p THEN row ELSE ch[a]
    BY <1>0, <1>3, <1>4
  <1>6. QED
    BY <1>0, <1>1, <1>5, ZenonT(40)

\* recordLocalState keeps the state of p and of no other node.
LEMMA StateTaken ==
    ASSUME SnapshotTypes, NEW p \in Peer, RecordLocalState(p)
    PROVE  /\ nodeStates'.of = nodeStates.of \cup {p}
           /\ nodeStates'.sent \in [Peer -> [Peer -> Nat]] /\ nodeStates'.seen \in [Peer -> [Peer -> Nat]]
           /\ \A a, b \in Peer :
                 /\ nodeStates'.sent[a][b] = IF a = p THEN sent[a][b] ELSE nodeStates.sent[a][b]
                 /\ nodeStates'.seen[a][b] = IF a = p THEN seen[a][b] ELSE nodeStates.seen[a][b]
  <1>1. /\ nodeStates'.of = nodeStates.of \cup {p}
        /\ nodeStates'.sent = [nodeStates.sent EXCEPT ![p] = sent[p]]
        /\ nodeStates'.seen = [nodeStates.seen EXCEPT ![p] = seen[p]]
    BY DEF RecordLocalState
  <1>2. /\ nodeStates.sent \in [Peer -> [Peer -> Nat]] /\ nodeStates.seen \in [Peer -> [Peer -> Nat]]
        /\ sent[p] \in [Peer -> Nat] /\ seen[p] \in [Peer -> Nat]
    BY DEF SnapshotTypes
  <1>3. PICK f, g, x, y : f = nodeStates.sent /\ g = nodeStates.seen /\ x = sent[p] /\ y = seen[p]
    OBVIOUS
  <1>4. /\ [f EXCEPT ![p] = x] \in [Peer -> [Peer -> Nat]] /\ [g EXCEPT ![p] = y] \in [Peer -> [Peer -> Nat]]
        /\ \A a \in Peer : /\ [f EXCEPT ![p] = x][a] = IF a = p THEN x ELSE f[a]
                           /\ [g EXCEPT ![p] = y][a] = IF a = p THEN y ELSE g[a]
    BY <1>2, <1>3
  <1>5. /\ nodeStates'.sent \in [Peer -> [Peer -> Nat]] /\ nodeStates'.seen \in [Peer -> [Peer -> Nat]]
        /\ \A a \in Peer : /\ nodeStates'.sent[a] = IF a = p THEN sent[p] ELSE nodeStates.sent[a]
                           /\ nodeStates'.seen[a] = IF a = p THEN seen[p] ELSE nodeStates.seen[a]
    BY <1>1, <1>3, <1>4
  <1>6. QED
    BY <1>1, <1>5

\* seen[q][p] <= sent[p][q], and what a node records of itself is what it had received.
LEMMA SeenBounded ==
    ASSUME SnapshotInv, NEW p \in Peer, NEW q \in Peer, p # q
    PROVE  /\ seen[q][p] \in Nat /\ sent[p][q] \in Nat /\ seen[q][p] <= sent[p][q]
           /\ p \in nodeStates.of /\ q \notin nodeStates.of => seen[q][p] <= nodeStates.sent[p][q]
  <1>1. PICK c, lo, hi, cut : /\ c = channel[p][q] /\ lo = seen[q][p] /\ hi = sent[p][q]
                              /\ cut = nodeStates.sent[p][q]
    OBVIOUS
  <1>2. \/ Plain(c, lo, hi) /\ (p \notin nodeStates.of \/ q \in nodeStates.of)
        \/ Marked(c, lo, hi, cut)
    BY <1>1 DEF SnapshotInv, ChannelInv
  <1>3. lo \in Nat /\ hi \in Nat /\ lo <= hi /\ (Marked(c, lo, hi, cut) => lo <= cut)
    BY <1>2 DEF Plain, Marked
  <1>4. QED
    BY <1>1, <1>2, <1>3

LEMMA InitiateKeeps ==
    ASSUME SnapshotInv, NEW p \in Peer, InitiateSnapshot(p)
    PROVE  SnapshotInv'
  <1>1. SnapshotTypes /\ NoSelf /\ ChannelInv /\ ProgressInv /\ RecordInv
    BY DEF SnapshotInv
  <1>2. /\ ~initiated /\ initiated' = TRUE
        /\ currentSnapshot' = currentSnapshot \cup {p} /\ stateRecorded' = stateRecorded \cup {p}
        /\ markerReceived' = [markerReceived EXCEPT ![p] = {}]
        /\ RecordLocalState(p)
        /\ channel' = WithMarkers(channel, p, Peer \ {p})
        /\ UNCHANGED <<sent, seen, channelStates>>
    BY DEF InitiateSnapshot, appVars
  <1>3. nodeStates.of = {} /\ currentSnapshot = {} /\ channelStates.of = {}
    <2>1. nodeStates.of = {} /\ currentSnapshot = {}
      BY <1>1, <1>2 DEF ProgressInv
    <2>2. channelStates.of \subseteq Peer \X Peer
      BY <1>1 DEF SnapshotTypes
    <2>3. \A a, b \in Peer : <<a, b>> \notin channelStates.of
      BY <1>1, <2>1 DEF ProgressInv, RecordInv
    <2>4. QED
      BY <2>1, <2>2, <2>3
  <1>4. /\ channel' \in [Peer -> [Peer -> Seq(Nat)]]
        /\ \A a, b \in Peer : channel'[a][b] = IF a = p /\ b \in Peer \ {p}
                                               THEN Append(channel[a][b], MARKER) ELSE channel[a][b]
    <2>1. channel \in [Peer -> [Peer -> Seq(Nat)]]
      BY <1>1 DEF SnapshotTypes
    <2>2. PICK ch, to, new : ch = channel /\ to = Peer \ {p} /\ new = WithMarkers(ch, p, to)
      OBVIOUS
    <2>3. /\ new \in [Peer -> [Peer -> Seq(Nat)]]
          /\ \A a, b \in Peer : new[a][b] = IF a = p /\ b \in to THEN Append(ch[a][b], MARKER) ELSE ch[a][b]
      <3>1. Forwards(ch, p, to, new)
        BY <2>1, <2>2 DEF Forwards
      <3>2. QED
        BY <3>1, MarkersSent
    <2>4. channel' = new
      BY <1>2, <2>2
    <2>5. QED
      BY <2>2, <2>3, <2>4
  <1>5. /\ nodeStates'.of = {p}
        /\ nodeStates'.sent \in [Peer -> [Peer -> Nat]] /\ nodeStates'.seen \in [Peer -> [Peer -> Nat]]
        /\ \A a, b \in Peer :
              /\ nodeStates'.sent[a][b] = IF a = p THEN sent[a][b] ELSE nodeStates.sent[a][b]
              /\ nodeStates'.seen[a][b] = IF a = p THEN seen[a][b] ELSE nodeStates.seen[a][b]
    <2>1. /\ nodeStates'.of = nodeStates.of \cup {p}
          /\ nodeStates'.sent \in [Peer -> [Peer -> Nat]] /\ nodeStates'.seen \in [Peer -> [Peer -> Nat]]
          /\ \A a, b \in Peer :
                /\ nodeStates'.sent[a][b] = IF a = p THEN sent[a][b] ELSE nodeStates.sent[a][b]
                /\ nodeStates'.seen[a][b] = IF a = p THEN seen[a][b] ELSE nodeStates.seen[a][b]
      BY <1>1, <1>2, StateTaken
    <2>2. QED
      BY <1>3, <2>1
  <1>6. /\ recordingFor' \in [Peer -> [Peer -> Seq(Nat)]]
        /\ \A a \in Peer : recordingFor'[p][a] = <<>>
    <2>1. PICK row : row = [q \in Peer |-> <<>>]
      OBVIOUS
    <2>2. row \in [Peer -> Seq(Nat)]
      BY <2>1
    <2>3. recordingFor \in [Peer -> [Peer -> Seq(Nat)]]
      BY <1>1 DEF SnapshotTypes
    <2>4. recordingFor' = [recordingFor EXCEPT ![p] = row]
      BY <2>1 DEF InitiateSnapshot
    <2>5. /\ recordingFor' \in [Peer -> [Peer -> Seq(Nat)]]
          /\ \A a \in Peer : recordingFor'[a] = IF a = p THEN row ELSE recordingFor[a]
      BY <2>2, <2>3, <2>4, OneRow
    <2>6. QED
      BY <2>1, <2>5
  <1>7. markerReceived' \in [Peer -> SUBSET Peer] /\ markerReceived'[p] = {}
    <2>1. markerReceived \in [Peer -> SUBSET Peer]
      BY <1>1 DEF SnapshotTypes
    <2>2. QED
      BY <1>2, <2>1
  <1>8. SnapshotTypes'
    <2>1. currentSnapshot' \subseteq Peer /\ stateRecorded' = currentSnapshot' /\ nodeStates'.of \subseteq Peer
      BY <1>1, <1>2, <1>5 DEF SnapshotTypes
    <2>2. QED
      BY <1>1, <1>2, <1>4, <1>5, <1>6, <1>7, <2>1 DEF SnapshotTypes
  <1>9. NoSelf'
    <2>1. ASSUME NEW a \in Peer PROVE channel'[a][a] = <<>> /\ seen'[a][a] = 0 /\ nodeStates'.seen[a][a] = 0
      <3>1. channel[a][a] = <<>> /\ seen[a][a] = 0 /\ nodeStates.seen[a][a] = 0
        BY <1>1 DEF NoSelf
      <3>2. channel'[a][a] = channel[a][a]
        BY <1>4
      <3>3. nodeStates'.seen[a][a] = seen[a][a] \/ nodeStates'.seen[a][a] = nodeStates.seen[a][a]
        BY <1>5
      <3>4. QED
        BY <1>2, <3>1, <3>2, <3>3
    <2>2. QED
      BY <2>1 DEF NoSelf
  <1>10. ChannelInv'
    <2>1. SUFFICES ASSUME NEW a \in Peer, NEW b \in Peer, a # b
                   PROVE  \/ /\ Plain(channel'[a][b], seen'[b][a], sent'[a][b])
                             /\ a \notin nodeStates'.of \/ b \in nodeStates'.of
                          \/ /\ Marked(channel'[a][b], seen'[b][a], sent'[a][b], nodeStates'.sent[a][b])
                             /\ a \in nodeStates'.of
                             /\ <<a, b>> \notin channelStates'.of
      BY DEF ChannelInv
    <2>2. PICK c, lo, hi : c = channel[a][b] /\ lo = seen[b][a] /\ hi = sent[a][b]
      OBVIOUS
    <2>3. Plain(c, lo, hi)
      BY <1>1, <1>3, <2>1, <2>2 DEF ChannelInv
    <2>4. CASE a = p
      <3>1. channel'[a][b] = Append(c, MARKER) /\ nodeStates'.sent[a][b] = hi
        BY <1>4, <1>5, <2>1, <2>2, <2>4
      <3>2. Marked(Append(c, MARKER), lo, hi, hi)
        BY <2>3, NoMarkerNeeded
      <3>3. a \in nodeStates'.of /\ <<a, b>> \notin channelStates'.of
        BY <1>2, <1>3, <1>5, <2>4
      <3>4. QED
        BY <1>2, <2>2, <3>1, <3>2, <3>3
    <2>5. CASE a # p
      <3>1. channel'[a][b] = c /\ a \notin nodeStates'.of
        BY <1>4, <1>5, <2>2, <2>5
      <3>2. QED
        BY <1>2, <2>2, <2>3, <3>1
    <2>6. QED
      BY <2>4, <2>5
  <1>11. ProgressInv'
    BY <1>2, <1>3, <1>5, <1>7 DEF ProgressInv
  <1>12. RecordInv'
    <2>1. ASSUME NEW a \in Peer
          PROVE  nodeStates'.seen[p][a] <= seen'[p][a]
                 /\ recordingFor'[p][a] = Between(nodeStates'.seen[p][a], seen'[p][a])
      <3>1. PICK s : s = seen[p][a]
        OBVIOUS
      <3>2. s \in Nat
        BY <1>1, <3>1 DEF SnapshotTypes
      <3>3. Between(s, s) = <<>> /\ s <= s
        BY <3>2, BetweenGrows
      <3>4. nodeStates'.seen[p][a] = s /\ seen'[p][a] = s
        BY <1>2, <1>5, <3>1
      <3>5. QED
        BY <1>6, <3>3, <3>4
    <2>2. channelStates'.of = {} /\ currentSnapshot' = {p} /\ nodeStates'.of = {p}
      BY <1>2, <1>3, <1>5
    <2>3. QED
      BY <2>1, <2>2 DEF RecordInv
  <1>13. QED
    BY <1>8, <1>9, <1>10, <1>11, <1>12 DEF SnapshotInv

\* A marker is the first thing in a channel: its sender has recorded its state, and
\* everything the sender had sent before that was received.
LEMMA MarkerArrives ==
    ASSUME SnapshotInv, NEW p \in Peer, NEW from \in Peer, ReceiveMarker(p, from)
    PROVE  /\ p # from /\ from \in nodeStates.of /\ <<from, p>> \notin channelStates.of
           /\ Plain(Tail(channel[from][p]), seen[p][from], sent[from][p])
           /\ nodeStates.sent[from][p] = seen[p][from]
           /\ p \notin currentSnapshot => p \notin nodeStates.of
           /\ p \in currentSnapshot => from \notin markerReceived[p]
  <1>1. NoSelf /\ ChannelInv /\ ProgressInv
    BY DEF SnapshotInv
  <1>2. channel[from][p] # <<>> /\ Head(channel[from][p]) = MARKER
    BY DEF ReceiveMarker
  <1>3. p # from
    BY <1>1, <1>2 DEF NoSelf
  <1>4. PICK c, lo, hi, cut : /\ c = channel[from][p] /\ lo = seen[p][from] /\ hi = sent[from][p]
                              /\ cut = nodeStates.sent[from][p]
    OBVIOUS
  <1>5. Plain(c, lo, hi) \/ (Marked(c, lo, hi, cut) /\ from \in nodeStates.of /\ <<from, p>> \notin channelStates.of)
    BY <1>1, <1>3, <1>4 DEF ChannelInv
  <1>6. ~Plain(c, lo, hi)
    BY <1>2, <1>4, NoMarkerNeeded
  <1>7. cut = lo /\ Plain(Tail(c), lo, hi)
    <2>1. Marked(c, lo, hi, cut)
      BY <1>5, <1>6
    <2>2. Head(c) = MARKER => cut = lo /\ Plain(Tail(c), lo, hi)
      BY <2>1, MarkerMoves
    <2>3. QED
      BY <1>2, <1>4, <2>2
  <1>8. QED
    BY <1>1, <1>3, <1>4, <1>5, <1>6, <1>7 DEF ProgressInv

\* The recording of the channel is closed.
LEMMA ChannelClosed ==
    ASSUME SnapshotTypes, NEW p \in Peer, NEW from \in Peer, NEW r \in Seq(Nat),
           channelStates' = [of |-> channelStates.of \cup {<<from, p>>},
                             messages |-> [channelStates.messages EXCEPT ![from][p] = r]]
    PROVE  /\ channelStates'.of = channelStates.of \cup {<<from, p>>}
           /\ channelStates'.of \subseteq Peer \X Peer
           /\ channelStates'.messages \in [Peer -> [Peer -> Seq(Nat)]]
           /\ \A a, b \in Peer : channelStates'.messages[a][b]
                                    = IF a = from /\ b = p THEN r ELSE channelStates.messages[a][b]
  <1>1. channelStates'.of = channelStates.of \cup {<<from, p>>}
    OBVIOUS
  <1>2. channelStates.of \subseteq Peer \X Peer /\ channelStates.messages \in [Peer -> [Peer -> Seq(Nat)]]
    BY DEF SnapshotTypes
  <1>3. PICK f, g : f = channelStates.messages /\ g = [f EXCEPT ![from][p] = r]
    OBVIOUS
  <1>4. f \in [Peer -> [Peer -> Seq(Nat)]]
    BY <1>2, <1>3
  <1>5. /\ g \in [Peer -> [Peer -> Seq(Nat)]]
        /\ \A a, b \in Peer : g[a][b] = IF a = from /\ b = p THEN r ELSE f[a][b]
    BY <1>3, <1>4, OneEntry
  <1>6. channelStates'.messages = g
    BY <1>3
  <1>7. <<from, p>> \in Peer \X Peer
    OBVIOUS
  <1>8. QED
    BY <1>1, <1>2, <1>3, <1>5, <1>6, <1>7

LEMMA LaterMarkerKeeps ==
    ASSUME SnapshotInv, NEW p \in Peer, NEW from \in Peer, ReceiveMarker(p, from), p \in currentSnapshot
    PROVE  SnapshotInv'
  <1>1. SnapshotTypes /\ NoSelf /\ ChannelInv /\ ProgressInv /\ RecordInv
    BY DEF SnapshotInv
  <1>2. /\ p # from /\ from \in nodeStates.of /\ <<from, p>> \notin channelStates.of
        /\ Plain(Tail(channel[from][p]), seen[p][from], sent[from][p])
        /\ nodeStates.sent[from][p] = seen[p][from]
        /\ from \notin markerReceived[p] /\ p \in nodeStates.of
    BY <1>1, MarkerArrives DEF ProgressInv
  <1>3. PICK markers, rec, complete : /\ markers = markerReceived[p] \cup {from} /\ rec = recordingFor[p]
                                      /\ complete = (Peer \ {p} \subseteq markers)
    OBVIOUS
  <1>4. /\ UNCHANGED <<nodeStates, sent, seen, initiated>>
        /\ channel' = [channel EXCEPT ![from][p] = Tail(channel[from][p])]
        /\ channelStates' = [of |-> channelStates.of \cup {<<from, p>>},
                             messages |-> [channelStates.messages EXCEPT ![from][p] = rec[from]]]
        /\ currentSnapshot' = IF complete THEN currentSnapshot \ {p} ELSE currentSnapshot \cup {p}
        /\ stateRecorded' = IF complete THEN stateRecorded \ {p} ELSE stateRecorded \cup {p}
        /\ markerReceived' = [markerReceived EXCEPT ![p] = IF complete THEN {} ELSE markers]
        /\ recordingFor' = [recordingFor EXCEPT ![p] = IF complete THEN [q \in Peer |-> <<>>] ELSE rec]
    BY <1>3 DEF ReceiveMarker, appVars
  <1>5. /\ channel \in [Peer -> [Peer -> Seq(Nat)]] /\ recordingFor \in [Peer -> [Peer -> Seq(Nat)]]
        /\ markerReceived \in [Peer -> SUBSET Peer]
    BY <1>1 DEF SnapshotTypes
  <1>6. PICK d : d = Tail(channel[from][p])
    OBVIOUS
  <1>7. d \in Seq(Nat)
    BY <1>2, <1>6 DEF Plain
  <1>8. /\ channel' \in [Peer -> [Peer -> Seq(Nat)]]
        /\ \A a, b \in Peer : channel'[a][b] = IF a = from /\ b = p THEN d ELSE channel[a][b]
    <2>1. channel' = [channel EXCEPT ![from][p] = d]
      BY <1>4, <1>6
    <2>2. QED
      BY <1>5, <1>7, <2>1, OneEntry
  <1>9. PICK r : r = recordingFor[p][from]
    OBVIOUS
  <1>10. /\ channelStates'.of = channelStates.of \cup {<<from, p>>}
         /\ channelStates'.of \subseteq Peer \X Peer
         /\ channelStates'.messages \in [Peer -> [Peer -> Seq(Nat)]]
         /\ \A a, b \in Peer : channelStates'.messages[a][b]
                                  = IF a = from /\ b = p THEN r ELSE channelStates.messages[a][b]
    <2>1. r \in Seq(Nat)
      BY <1>5, <1>9
    <2>2. channelStates' = [of |-> channelStates.of \cup {<<from, p>>},
                            messages |-> [channelStates.messages EXCEPT ![from][p] = r]]
      BY <1>3, <1>4, <1>9
    <2>3. QED
      BY <1>1, <2>1, <2>2, ChannelClosed
  <1>11. /\ markerReceived' \in [Peer -> SUBSET Peer]
         /\ \A a \in Peer : markerReceived'[a] = IF a = p THEN IF complete THEN {} ELSE markers
                                                 ELSE markerReceived[a]
    <2>1. markers \subseteq Peer
      BY <1>3, <1>5
    <2>2. QED
      BY <1>4, <1>5, <2>1
  <1>12. /\ recordingFor' \in [Peer -> [Peer -> Seq(Nat)]]
         /\ \A a \in Peer : recordingFor'[a] = IF a = p /\ complete THEN [q \in Peer |-> <<>>]
                                               ELSE recordingFor[a]
    <2>1. PICK row : row = IF complete THEN [q \in Peer |-> <<>>] ELSE rec
      OBVIOUS
    <2>2. row \in [Peer -> Seq(Nat)]
      <3>1. [q \in Peer |-> <<>>] \in [Peer -> Seq(Nat)]
        OBVIOUS
      <3>2. rec \in [Peer -> Seq(Nat)]
        BY <1>3, <1>5
      <3>3. QED
        BY <2>1, <3>1, <3>2
    <2>3. recordingFor' = [recordingFor EXCEPT ![p] = row]
      BY <1>4, <2>1
    <2>4. /\ recordingFor' \in [Peer -> [Peer -> Seq(Nat)]]
          /\ \A a \in Peer : recordingFor'[a] = IF a = p THEN row ELSE recordingFor[a]
      BY <1>5, <2>2, <2>3
    <2>5. QED
      BY <1>3, <2>1, <2>4
  <1>13. currentSnapshot' \subseteq Peer /\ stateRecorded' = currentSnapshot'
         /\ currentSnapshot' \subseteq nodeStates.of
         /\ (complete => currentSnapshot' = currentSnapshot \ {p})
         /\ (~complete => currentSnapshot' = currentSnapshot)
    <2>1. currentSnapshot \subseteq Peer /\ stateRecorded = currentSnapshot /\ currentSnapshot \subseteq nodeStates.of
      BY <1>1 DEF SnapshotTypes, ProgressInv
    <2>2. CASE complete
      BY <1>4, <2>1, <2>2
    <2>3. CASE ~complete
      <3>1. currentSnapshot' = currentSnapshot \cup {p} /\ stateRecorded' = stateRecorded \cup {p}
        BY <1>4, <2>3
      <3>2. QED
        BY <2>1, <2>3, <3>1
    <2>4. QED
      BY <2>2, <2>3
  <1>14. SnapshotTypes'
    BY <1>1, <1>4, <1>8, <1>10, <1>11, <1>12, <1>13 DEF SnapshotTypes
  <1>15. NoSelf'
    BY <1>1, <1>2, <1>4, <1>8 DEF NoSelf
  <1>16. ChannelInv'
    <2>1. SUFFICES ASSUME NEW a \in Peer, NEW b \in Peer, a # b
                   PROVE  \/ /\ Plain(channel'[a][b], seen'[b][a], sent'[a][b])
                             /\ a \notin nodeStates'.of \/ b \in nodeStates'.of
                          \/ /\ Marked(channel'[a][b], seen'[b][a], sent'[a][b], nodeStates'.sent[a][b])
                             /\ a \in nodeStates'.of
                             /\ <<a, b>> \notin channelStates'.of
      BY DEF ChannelInv
    <2>2. CASE a = from /\ b = p
      <3>1. channel'[a][b] = Tail(channel[from][p])
        BY <1>6, <1>8, <2>2
      <3>2. QED
        BY <1>2, <1>4, <2>2, <3>1
    <2>3. CASE ~(a = from /\ b = p)
      <3>1. channel'[a][b] = channel[a][b]
        BY <1>8, <2>3
      <3>2. \/ /\ Plain(channel[a][b], seen[b][a], sent[a][b])
               /\ a \notin nodeStates.of \/ b \in nodeStates.of
            \/ /\ Marked(channel[a][b], seen[b][a], sent[a][b], nodeStates.sent[a][b])
               /\ a \in nodeStates.of
               /\ <<a, b>> \notin channelStates.of
        BY <1>1, <2>1 DEF ChannelInv
      <3>3. <<a, b>> \in channelStates'.of => <<a, b>> \in channelStates.of
        BY <1>10, <2>3
      <3>4. QED
        BY <1>4, <3>1, <3>2, <3>3
    <2>4. QED
      BY <2>2, <2>3
  <1>17. ProgressInv'
    <2>1. ASSUME NEW a \in Peer, NEW b \in Peer, a # b
          PROVE  /\ <<a, b>> \in channelStates'.of => a \in nodeStates'.of /\ b \in nodeStates'.of
                 /\ a \in nodeStates'.of \ currentSnapshot' => <<b, a>> \in channelStates'.of
                 /\ a \in currentSnapshot' => (b \in markerReceived'[a] <=> <<b, a>> \in channelStates'.of)
      <3>1. /\ <<a, b>> \in channelStates.of => a \in nodeStates.of /\ b \in nodeStates.of
            /\ a \in nodeStates.of \ currentSnapshot => <<b, a>> \in channelStates.of
            /\ a \in currentSnapshot => (b \in markerReceived[a] <=> <<b, a>> \in channelStates.of)
        BY <1>1, <2>1 DEF ProgressInv
      <3>2. \A x, y \in Peer : <<x, y>> \in channelStates'.of
                                 <=> <<x, y>> \in channelStates.of \/ (x = from /\ y = p)
        BY <1>10
      <3>3. <<a, b>> \in channelStates'.of => a \in nodeStates'.of /\ b \in nodeStates'.of
        BY <1>2, <1>4, <3>1, <3>2
      <3>4. ASSUME a \in nodeStates'.of \ currentSnapshot' PROVE <<b, a>> \in channelStates'.of
        <4>1. CASE a = p
          <5>1. b \in markers
            BY <1>3, <1>13, <2>1, <3>4, <4>1
          <5>2. QED
            BY <1>3, <3>1, <3>2, <4>1, <5>1
        <4>2. CASE a # p
          BY <1>4, <1>13, <3>1, <3>2, <3>4, <4>2
        <4>3. QED
          BY <4>1, <4>2
      <3>5. ASSUME a \in currentSnapshot'
            PROVE  b \in markerReceived'[a] <=> <<b, a>> \in channelStates'.of
        <4>1. a \in currentSnapshot
          BY <1>13, <3>5
        <4>2. CASE a = p
          <5>1. markerReceived'[a] = markers
            BY <1>11, <1>13, <3>5, <4>2
          <5>2. QED
            BY <1>3, <3>1, <3>2, <4>1, <4>2, <5>1
        <4>3. CASE a # p
          BY <1>11, <3>1, <3>2, <4>1, <4>3
        <4>4. QED
          BY <4>2, <4>3
      <3>6. QED
        BY <3>3, <3>4, <3>5
    <2>2. QED
      BY <1>1, <1>4, <1>13, <2>1 DEF ProgressInv
  <1>18. RecordInv'
    <2>1. ASSUME NEW a \in Peer, NEW b \in Peer, a # b
          PROVE  /\ b \in nodeStates'.of => nodeStates'.seen[b][a] <= seen'[b][a]
                 /\ a \in nodeStates'.of /\ b \in nodeStates'.of =>
                       nodeStates'.seen[b][a] <= nodeStates'.sent[a][b]
                 /\ b \in currentSnapshot' /\ a \notin markerReceived'[b] =>
                       recordingFor'[b][a] = Between(nodeStates'.seen[b][a], seen'[b][a])
                 /\ <<a, b>> \in channelStates'.of =>
                       channelStates'.messages[a][b] = Between(nodeStates'.seen[b][a], nodeStates'.sent[a][b])
      <3>1. /\ b \in nodeStates.of => nodeStates.seen[b][a] <= seen[b][a]
            /\ a \in nodeStates.of /\ b \in nodeStates.of =>
                  nodeStates.seen[b][a] <= nodeStates.sent[a][b]
            /\ b \in currentSnapshot /\ a \notin markerReceived[b] =>
                  recordingFor[b][a] = Between(nodeStates.seen[b][a], seen[b][a])
            /\ <<a, b>> \in channelStates.of =>
                  channelStates.messages[a][b] = Between(nodeStates.seen[b][a], nodeStates.sent[a][b])
        BY <1>1, <2>1 DEF RecordInv
      <3>2. ASSUME b \in currentSnapshot', a \notin markerReceived'[b]
            PROVE  recordingFor'[b][a] = Between(nodeStates'.seen[b][a], seen'[b][a])
        <4>1. b \in currentSnapshot /\ a \notin markerReceived[b] /\ recordingFor'[b] = recordingFor[b]
          BY <1>3, <1>11, <1>12, <1>13, <3>2
        <4>2. QED
          BY <1>4, <3>1, <4>1
      <3>3. ASSUME <<a, b>> \in channelStates'.of
            PROVE  channelStates'.messages[a][b] = Between(nodeStates'.seen[b][a], nodeStates'.sent[a][b])
        <4>1. CASE a = from /\ b = p
          <5>1. channelStates'.messages[a][b] = recordingFor[p][from]
            BY <1>9, <1>10, <4>1
          <5>2. recordingFor[p][from] = Between(nodeStates.seen[p][from], seen[p][from])
            BY <1>2, <3>1, <4>1
          <5>3. QED
            BY <1>2, <1>4, <4>1, <5>1, <5>2
        <4>2. CASE ~(a = from /\ b = p)
          <5>1. <<a, b>> \in channelStates.of /\ channelStates'.messages[a][b] = channelStates.messages[a][b]
            BY <1>10, <3>3, <4>2
          <5>2. QED
            BY <1>4, <3>1, <5>1
        <4>3. QED
          BY <4>1, <4>2
      <3>4. QED
        BY <1>4, <3>1, <3>2, <3>3
    <2>2. \A a \in Peer : <<a, a>> \notin channelStates'.of
      BY <1>1, <1>2, <1>10 DEF RecordInv
    <2>3. QED
      BY <2>1, <2>2 DEF RecordInv
  <1>19. QED
    BY <1>14, <1>15, <1>16, <1>17, <1>18 DEF SnapshotInv

LEMMA FirstMarkerKeeps ==
    ASSUME SnapshotInv, NEW p \in Peer, NEW from \in Peer, ReceiveMarker(p, from), p \notin currentSnapshot
    PROVE  SnapshotInv'
  <1>1. SnapshotTypes /\ NoSelf /\ ChannelInv /\ ProgressInv /\ RecordInv
    BY DEF SnapshotInv
  <1>2. /\ p # from /\ from \in nodeStates.of /\ <<from, p>> \notin channelStates.of
        /\ Plain(Tail(channel[from][p]), seen[p][from], sent[from][p])
        /\ nodeStates.sent[from][p] = seen[p][from]
        /\ p \notin nodeStates.of
    BY <1>1, MarkerArrives
  <1>3. PICK row, complete : /\ row = [q \in Peer |-> <<>>]
                             /\ complete = (Peer \ {p} \subseteq {from})
    OBVIOUS
  <1>4. /\ UNCHANGED <<sent, seen, initiated>>
        /\ RecordLocalState(p)
        /\ channel' = WithMarkers([channel EXCEPT ![from][p] = Tail(channel[from][p])], p, MarkersTo(p, from))
        /\ channelStates' = [of |-> channelStates.of \cup {<<from, p>>},
                             messages |-> [channelStates.messages EXCEPT ![from][p] = row[from]]]
        /\ currentSnapshot' = IF complete THEN currentSnapshot \ {p} ELSE currentSnapshot \cup {p}
        /\ stateRecorded' = IF complete THEN stateRecorded \ {p} ELSE stateRecorded \cup {p}
        /\ markerReceived' = [markerReceived EXCEPT ![p] = IF complete THEN {} ELSE {from}]
        /\ recordingFor' = [recordingFor EXCEPT ![p] = row]
    BY <1>3 DEF ReceiveMarker, appVars
  <1>5. /\ channel \in [Peer -> [Peer -> Seq(Nat)]] /\ recordingFor \in [Peer -> [Peer -> Seq(Nat)]]
        /\ markerReceived \in [Peer -> SUBSET Peer]
    BY <1>1 DEF SnapshotTypes
  <1>6. PICK d : d = Tail(channel[from][p])
    OBVIOUS
  <1>7. d \in Seq(Nat)
    BY <1>2, <1>6 DEF Plain
  <1>8. /\ channel' \in [Peer -> [Peer -> Seq(Nat)]]
        /\ \A a, b \in Peer : channel'[a][b] = IF a = p /\ b # p /\ b # from THEN Append(channel[a][b], MARKER)
                                               ELSE IF a = from /\ b = p THEN d ELSE channel[a][b]
    <2>1. PICK ch, to, new : /\ ch = [channel EXCEPT ![from][p] = d] /\ to = Peer \ {p, from}
                             /\ new = WithMarkers(ch, p, to)
      OBVIOUS
    <2>2. /\ ch \in [Peer -> [Peer -> Seq(Nat)]]
          /\ \A a, b \in Peer : ch[a][b] = IF a = from /\ b = p THEN d ELSE channel[a][b]
      BY <1>5, <1>7, <2>1, OneEntry
    <2>3. Forwards(ch, p, to, new)
      BY <2>1, <2>2 DEF Forwards
    <2>4. /\ new \in [Peer -> [Peer -> Seq(Nat)]]
          /\ \A a, b \in Peer : new[a][b] = IF a = p /\ b \in to THEN Append(ch[a][b], MARKER) ELSE ch[a][b]
      BY <2>3, MarkersSent
    <2>5. channel' = new
      BY <1>4, <1>6, <2>1 DEF MarkersTo
    <2>6. QED
      <3>1. ASSUME NEW a \in Peer, NEW b \in Peer
            PROVE  new[a][b] = IF a = p /\ b # p /\ b # from THEN Append(channel[a][b], MARKER)
                               ELSE IF a = from /\ b = p THEN d ELSE channel[a][b]
        <4>1. CASE a = p /\ b # p /\ b # from
          <5>1. ch[a][b] = channel[a][b] /\ b \in to
            BY <2>1, <2>2, <4>1
          <5>2. QED
            BY <2>4, <4>1, <5>1
        <4>2. CASE ~(a = p /\ b # p /\ b # from)
          <5>1. ~(a = p /\ b \in to)
            BY <2>1, <4>2
          <5>2. new[a][b] = ch[a][b]
            BY <2>4, <5>1
          <5>3. QED
            BY <2>2, <4>2, <5>2
        <4>3. QED
          BY <4>1, <4>2
      <3>2. QED
        BY <2>4, <2>5, <3>1
  <1>9. /\ nodeStates'.of = nodeStates.of \cup {p}
        /\ nodeStates'.sent \in [Peer -> [Peer -> Nat]] /\ nodeStates'.seen \in [Peer -> [Peer -> Nat]]
        /\ \A a, b \in Peer :
              /\ nodeStates'.sent[a][b] = IF a = p THEN sent[a][b] ELSE nodeStates.sent[a][b]
              /\ nodeStates'.seen[a][b] = IF a = p THEN seen[a][b] ELSE nodeStates.seen[a][b]
    BY <1>1, <1>4, StateTaken
  <1>10. /\ channelStates'.of = channelStates.of \cup {<<from, p>>}
         /\ channelStates'.of \subseteq Peer \X Peer
         /\ channelStates'.messages \in [Peer -> [Peer -> Seq(Nat)]]
         /\ \A a, b \in Peer : channelStates'.messages[a][b]
                                  = IF a = from /\ b = p THEN <<>> ELSE channelStates.messages[a][b]
    <2>1. PICK r : r = <<>>
      OBVIOUS
    <2>2. r \in Seq(Nat)
      BY <2>1
    <2>3. channelStates' = [of |-> channelStates.of \cup {<<from, p>>},
                            messages |-> [channelStates.messages EXCEPT ![from][p] = r]]
      BY <1>3, <1>4, <2>1
    <2>4. /\ channelStates'.of = channelStates.of \cup {<<from, p>>}
          /\ channelStates'.of \subseteq Peer \X Peer
          /\ channelStates'.messages \in [Peer -> [Peer -> Seq(Nat)]]
          /\ \A a, b \in Peer : channelStates'.messages[a][b]
                                   = IF a = from /\ b = p THEN r ELSE channelStates.messages[a][b]
      BY <1>1, <2>2, <2>3, ChannelClosed
    <2>5. QED
      BY <2>1, <2>4
  <1>11. /\ markerReceived' \in [Peer -> SUBSET Peer]
         /\ \A a \in Peer : markerReceived'[a] = IF a = p THEN IF complete THEN {} ELSE {from}
                                                 ELSE markerReceived[a]
    BY <1>4, <1>5
  <1>12. /\ recordingFor' \in [Peer -> [Peer -> Seq(Nat)]]
         /\ \A a \in Peer : recordingFor'[a] = IF a = p THEN row ELSE recordingFor[a]
    <2>1. row \in [Peer -> Seq(Nat)]
      BY <1>3
    <2>2. QED
      BY <1>4, <1>5, <2>1
  <1>13. currentSnapshot' \subseteq Peer /\ stateRecorded' = currentSnapshot'
         /\ currentSnapshot' \subseteq nodeStates'.of
         /\ (complete => currentSnapshot' = currentSnapshot)
         /\ (~complete => currentSnapshot' = currentSnapshot \cup {p})
    <2>1. currentSnapshot \subseteq Peer /\ stateRecorded = currentSnapshot /\ currentSnapshot \subseteq nodeStates.of
      BY <1>1 DEF SnapshotTypes, ProgressInv
    <2>2. CASE complete
      <3>1. currentSnapshot' = currentSnapshot \ {p} /\ stateRecorded' = stateRecorded \ {p}
        BY <1>4, <2>2
      <3>2. QED
        BY <1>9, <2>1, <2>2, <3>1
    <2>3. CASE ~complete
      <3>1. currentSnapshot' = currentSnapshot \cup {p} /\ stateRecorded' = stateRecorded \cup {p}
        BY <1>4, <2>3
      <3>2. QED
        BY <1>9, <2>1, <2>3, <3>1
    <2>4. QED
      BY <2>2, <2>3
  <1>14. SnapshotTypes'
    <2>1. nodeStates'.of \subseteq Peer
      BY <1>1, <1>9 DEF SnapshotTypes
    <2>2. QED
      BY <1>1, <1>4, <1>8, <1>9, <1>10, <1>11, <1>12, <1>13, <2>1 DEF SnapshotTypes
  <1>15. NoSelf'
    <2>1. ASSUME NEW a \in Peer PROVE channel'[a][a] = <<>> /\ seen'[a][a] = 0 /\ nodeStates'.seen[a][a] = 0
      <3>1. channel[a][a] = <<>> /\ seen[a][a] = 0 /\ nodeStates.seen[a][a] = 0
        BY <1>1 DEF NoSelf
      <3>2. channel'[a][a] = channel[a][a]
        BY <1>2, <1>8
      <3>3. nodeStates'.seen[a][a] = seen[a][a] \/ nodeStates'.seen[a][a] = nodeStates.seen[a][a]
        BY <1>9
      <3>4. QED
        BY <1>4, <3>1, <3>2, <3>3
    <2>2. QED
      BY <2>1 DEF NoSelf
  <1>16. \A a, b \in Peer : <<a, b>> \in channelStates'.of
                              <=> <<a, b>> \in channelStates.of \/ (a = from /\ b = p)
    BY <1>10
  <1>17. \A a \in Peer : <<a, p>> \notin channelStates.of /\ <<p, a>> \notin channelStates.of
    BY <1>1, <1>2 DEF ProgressInv, RecordInv
  <1>18. ChannelInv'
    <2>1. SUFFICES ASSUME NEW a \in Peer, NEW b \in Peer, a # b
                   PROVE  \/ /\ Plain(channel'[a][b], seen'[b][a], sent'[a][b])
                             /\ a \notin nodeStates'.of \/ b \in nodeStates'.of
                          \/ /\ Marked(channel'[a][b], seen'[b][a], sent'[a][b], nodeStates'.sent[a][b])
                             /\ a \in nodeStates'.of
                             /\ <<a, b>> \notin channelStates'.of
      BY DEF ChannelInv
    <2>2. \/ /\ Plain(channel[a][b], seen[b][a], sent[a][b])
             /\ a \notin nodeStates.of \/ b \in nodeStates.of
          \/ /\ Marked(channel[a][b], seen[b][a], sent[a][b], nodeStates.sent[a][b])
             /\ a \in nodeStates.of
             /\ <<a, b>> \notin channelStates.of
      BY <1>1, <2>1 DEF ChannelInv
    <2>3. CASE a = from /\ b = p
      <3>1. channel'[a][b] = Tail(channel[from][p]) /\ b \in nodeStates'.of
        BY <1>2, <1>6, <1>8, <1>9, <2>3
      <3>2. QED
        BY <1>2, <1>4, <2>3, <3>1
    <2>4. CASE a = p /\ b # from
      <3>1. PICK c, lo, hi : c = channel[a][b] /\ lo = seen[b][a] /\ hi = sent[a][b]
        OBVIOUS
      <3>2. Plain(c, lo, hi)
        BY <1>2, <2>2, <2>4, <3>1
      <3>3. Marked(Append(c, MARKER), lo, hi, hi)
        BY <3>2, NoMarkerNeeded
      <3>4. channel'[a][b] = Append(c, MARKER) /\ nodeStates'.sent[a][b] = hi
        BY <1>8, <1>9, <2>1, <2>4, <3>1
      <3>5. a \in nodeStates'.of /\ <<a, b>> \notin channelStates'.of
        BY <1>2, <1>9, <1>16, <1>17, <2>1, <2>4
      <3>6. QED
        BY <1>4, <3>1, <3>3, <3>4, <3>5
    <2>5. CASE a = p /\ b = from
      <3>1. channel'[a][b] = channel[a][b] /\ b \in nodeStates'.of
        BY <1>2, <1>8, <1>9, <2>1, <2>5
      <3>2. Plain(channel[a][b], seen[b][a], sent[a][b])
        BY <1>2, <2>2, <2>5
      <3>3. QED
        BY <1>4, <3>1, <3>2
    <2>6. CASE a # p /\ ~(a = from /\ b = p)
      <3>1. channel'[a][b] = channel[a][b] /\ nodeStates'.sent[a][b] = nodeStates.sent[a][b]
        BY <1>8, <1>9, <2>6
      <3>2. <<a, b>> \in channelStates'.of => <<a, b>> \in channelStates.of
        BY <1>16, <2>6
      <3>3. (a \in nodeStates'.of <=> a \in nodeStates.of) /\ (b \in nodeStates.of => b \in nodeStates'.of)
        BY <1>9, <2>6
      <3>4. QED
        BY <1>4, <2>2, <3>1, <3>2, <3>3
    <2>7. QED
      BY <2>3, <2>4, <2>5, <2>6
  <1>19. ProgressInv'
    <2>1. ASSUME NEW a \in Peer, NEW b \in Peer, a # b
          PROVE  /\ <<a, b>> \in channelStates'.of => a \in nodeStates'.of /\ b \in nodeStates'.of
                 /\ a \in nodeStates'.of \ currentSnapshot' => <<b, a>> \in channelStates'.of
                 /\ a \in currentSnapshot' => (b \in markerReceived'[a] <=> <<b, a>> \in channelStates'.of)
      <3>1. /\ <<a, b>> \in channelStates.of => a \in nodeStates.of /\ b \in nodeStates.of
            /\ a \in nodeStates.of \ currentSnapshot => <<b, a>> \in channelStates.of
            /\ a \in currentSnapshot => (b \in markerReceived[a] <=> <<b, a>> \in channelStates.of)
        BY <1>1, <2>1 DEF ProgressInv
      <3>2. <<a, b>> \in channelStates'.of => a \in nodeStates'.of /\ b \in nodeStates'.of
        BY <1>2, <1>9, <1>16, <3>1
      <3>3. ASSUME a \in nodeStates'.of \ currentSnapshot' PROVE <<b, a>> \in channelStates'.of
        <4>1. CASE a = p
          <5>1. b = from
            BY <1>3, <1>13, <2>1, <3>3, <4>1
          <5>2. QED
            BY <1>16, <4>1, <5>1
        <4>2. CASE a # p
          <5>1. a \in nodeStates.of \ currentSnapshot
            BY <1>9, <1>13, <3>3, <4>2
          <5>2. QED
            BY <1>16, <3>1, <5>1
        <4>3. QED
          BY <4>1, <4>2
      <3>4. ASSUME a \in currentSnapshot'
            PROVE  b \in markerReceived'[a] <=> <<b, a>> \in channelStates'.of
        <4>1. CASE a = p
          <5>1. markerReceived'[a] = {from}
            BY <1>11, <1>13, <3>4, <4>1
          <5>2. <<b, a>> \in channelStates'.of <=> b = from
            BY <1>16, <1>17, <4>1
          <5>3. QED
            BY <5>1, <5>2
        <4>2. CASE a # p
          <5>1. a \in currentSnapshot /\ markerReceived'[a] = markerReceived[a]
            BY <1>11, <1>13, <3>4, <4>2
          <5>2. QED
            BY <1>16, <3>1, <4>2, <5>1
        <4>3. QED
          BY <4>1, <4>2
      <3>5. QED
        BY <3>2, <3>3, <3>4
    <2>2. initiated' = TRUE
      BY <1>1, <1>2, <1>4 DEF ProgressInv
    <2>3. QED
      BY <1>13, <2>1, <2>2 DEF ProgressInv
  <1>20. RecordInv'
    <2>1. ASSUME NEW a \in Peer, NEW b \in Peer, a # b
          PROVE  /\ b \in nodeStates'.of => nodeStates'.seen[b][a] <= seen'[b][a]
                 /\ a \in nodeStates'.of /\ b \in nodeStates'.of =>
                       nodeStates'.seen[b][a] <= nodeStates'.sent[a][b]
                 /\ b \in currentSnapshot' /\ a \notin markerReceived'[b] =>
                       recordingFor'[b][a] = Between(nodeStates'.seen[b][a], seen'[b][a])
                 /\ <<a, b>> \in channelStates'.of =>
                       channelStates'.messages[a][b] = Between(nodeStates'.seen[b][a], nodeStates'.sent[a][b])
      <3>1. /\ b \in nodeStates.of => nodeStates.seen[b][a] <= seen[b][a]
            /\ a \in nodeStates.of /\ b \in nodeStates.of =>
                  nodeStates.seen[b][a] <= nodeStates.sent[a][b]
            /\ b \in currentSnapshot /\ a \notin markerReceived[b] =>
                  recordingFor[b][a] = Between(nodeStates.seen[b][a], seen[b][a])
            /\ <<a, b>> \in channelStates.of =>
                  channelStates.messages[a][b] = Between(nodeStates.seen[b][a], nodeStates.sent[a][b])
        BY <1>1, <2>1 DEF RecordInv
      <3>2. /\ seen[b][a] \in Nat /\ sent[a][b] \in Nat /\ seen[b][a] <= sent[a][b]
            /\ a \in nodeStates.of /\ b \notin nodeStates.of => seen[b][a] <= nodeStates.sent[a][b]
            /\ nodeStates.seen[b][a] \in Nat
        <4>1. nodeStates.seen \in [Peer -> [Peer -> Nat]]
          BY <1>1 DEF SnapshotTypes
        <4>2. nodeStates.seen[b][a] \in Nat
          BY <4>1
        <4>3. /\ seen[b][a] \in Nat /\ sent[a][b] \in Nat /\ seen[b][a] <= sent[a][b]
              /\ a \in nodeStates.of /\ b \notin nodeStates.of => seen[b][a] <= nodeStates.sent[a][b]
          BY <2>1, SeenBounded
        <4>4. QED
          BY <4>2, <4>3
      <3>3. /\ b = p => nodeStates'.seen[b][a] = seen[b][a]
            /\ b # p => nodeStates'.seen[b][a] = nodeStates.seen[b][a]
            /\ a = p => nodeStates'.sent[a][b] = sent[a][b]
            /\ a # p => nodeStates'.sent[a][b] = nodeStates.sent[a][b]
        BY <1>9
      <3>4. \A x \in Peer : x \in nodeStates'.of <=> x \in nodeStates.of \/ x = p
        BY <1>9
      <3>5. b \in nodeStates'.of => nodeStates'.seen[b][a] <= seen'[b][a]
        BY <1>4, <3>1, <3>2, <3>3, <3>4
      <3>6. a \in nodeStates'.of /\ b \in nodeStates'.of => nodeStates'.seen[b][a] <= nodeStates'.sent[a][b]
        <4>1. CASE b = p
          BY <1>2, <2>1, <3>2, <3>3, <3>4, <4>1
        <4>2. CASE a = p
          <5>1. b \in nodeStates'.of => nodeStates.seen[b][a] <= seen[b][a]
            BY <2>1, <3>1, <3>4, <4>2
          <5>2. nodeStates'.seen[b][a] = nodeStates.seen[b][a] /\ nodeStates'.sent[a][b] = sent[a][b]
            BY <2>1, <3>3, <4>2
          <5>3. QED
            BY <3>2, <5>1, <5>2
        <4>3. CASE a # p /\ b # p
          BY <3>1, <3>3, <3>4, <4>3
        <4>4. QED
          BY <4>1, <4>2, <4>3
      <3>7. ASSUME b \in currentSnapshot', a \notin markerReceived'[b]
            PROVE  recordingFor'[b][a] = Between(nodeStates'.seen[b][a], seen'[b][a])
        <4>1. CASE b = p
          <5>1. recordingFor'[b][a] = <<>>
            BY <1>3, <1>12, <4>1
          <5>2. PICK s : s = seen[b][a]
            OBVIOUS
          <5>3. Between(s, s) = <<>>
            BY <3>2, <5>2, BetweenGrows
          <5>4. QED
            BY <1>4, <3>3, <4>1, <5>1, <5>2, <5>3
        <4>2. CASE b # p
          <5>1. b \in currentSnapshot /\ a \notin markerReceived[b] /\ recordingFor'[b] = recordingFor[b]
            BY <1>11, <1>12, <1>13, <3>7, <4>2
          <5>2. QED
            BY <1>4, <3>1, <3>3, <4>2, <5>1
        <4>3. QED
          BY <4>1, <4>2
      <3>8. ASSUME <<a, b>> \in channelStates'.of
            PROVE  channelStates'.messages[a][b] = Between(nodeStates'.seen[b][a], nodeStates'.sent[a][b])
        <4>1. CASE a = from /\ b = p
          <5>1. channelStates'.messages[a][b] = <<>>
            BY <1>10, <4>1
          <5>2. PICK s : s = seen[b][a]
            OBVIOUS
          <5>3. Between(s, s) = <<>>
            BY <3>2, <5>2, BetweenGrows
          <5>4. nodeStates'.seen[b][a] = s /\ nodeStates'.sent[a][b] = s
            BY <1>2, <3>3, <4>1, <5>2
          <5>5. QED
            BY <5>1, <5>3, <5>4
        <4>2. CASE ~(a = from /\ b = p)
          <5>1. <<a, b>> \in channelStates.of /\ channelStates'.messages[a][b] = channelStates.messages[a][b]
            BY <1>10, <1>16, <3>8, <4>2
          <5>2. a # p /\ b # p
            BY <1>17, <5>1
          <5>3. QED
            BY <3>1, <3>3, <5>1, <5>2
        <4>3. QED
          BY <4>1, <4>2
      <3>9. QED
        BY <3>5, <3>6, <3>7, <3>8
    <2>2. \A a \in Peer : <<a, a>> \notin channelStates'.of
      BY <1>1, <1>2, <1>16 DEF RecordInv
    <2>3. QED
      BY <2>1, <2>2 DEF RecordInv
  <1>21. QED
    BY <1>14, <1>15, <1>18, <1>19, <1>20 DEF SnapshotInv

\* The recorded node states and channel states make up one consistent global state, for
\* every set of nodes, whoever begins the snapshot and however messages and markers
\* interleave on FIFO channels (InitiateSnapshot, ReceiveMarker, RecordMessage).
THEOREM SnapshotConsistent == SnapshotSpec => []SnapshotIsConsistent
  <1>1. SnapshotInit => SnapshotInv
    <2>1. SUFFICES ASSUME SnapshotInit PROVE SnapshotInv
      OBVIOUS
    <2>2. SnapshotTypes
      <3>1. [p \in Peer |-> [q \in Peer |-> <<>>]] \in [Peer -> [Peer -> Seq(Nat)]]
        OBVIOUS
      <3>2. [p \in Peer |-> Zero] \in [Peer -> [Peer -> Nat]]
        BY DEF Zero
      <3>3. QED
        BY <2>1, <3>1, <3>2 DEF SnapshotInit, SnapshotTypes
    <2>3. NoSelf
      BY <2>1 DEF SnapshotInit, NoSelf, Zero
    <2>4. nodeStates.of = {} /\ currentSnapshot = {} /\ channelStates.of = {}
      BY <2>1 DEF SnapshotInit
    <2>5. ASSUME NEW p \in Peer, NEW q \in Peer PROVE Plain(channel[p][q], seen[q][p], sent[p][q])
      <3>1. channel[p][q] = <<>> /\ seen[q][p] = 0 /\ sent[p][q] = 0
        BY <2>1 DEF SnapshotInit, Zero
      <3>2. PICK e : e = <<>>
        OBVIOUS
      <3>3. e \in Seq(Nat) /\ Len(e) = 0
        BY <3>2
      <3>4. Plain(e, 0, 0)
        BY <3>3 DEF Plain
      <3>5. QED
        BY <3>1, <3>2, <3>4
    <2>6. ChannelInv
      BY <2>4, <2>5 DEF ChannelInv
    <2>7. ProgressInv /\ RecordInv
      BY <2>4 DEF ProgressInv, RecordInv
    <2>8. QED
      BY <2>2, <2>3, <2>6, <2>7 DEF SnapshotInv
  <1>2. SnapshotInv /\ [SnapshotNext]_snapshotVars => SnapshotInv'
    <2>1. SUFFICES ASSUME SnapshotInv, [SnapshotNext]_snapshotVars PROVE SnapshotInv'
      OBVIOUS
    <2>2. CASE UNCHANGED snapshotVars
      <3>1. UNCHANGED <<channel, sent, seen, initiated, currentSnapshot, stateRecorded, markerReceived,
                        recordingFor, nodeStates, channelStates>>
        BY <2>2 DEF snapshotVars, appVars, coordinatorVars, resultVars
      <3>2. SnapshotTypes' /\ NoSelf' /\ ChannelInv'
        BY <2>1, <3>1 DEF SnapshotInv, SnapshotTypes, NoSelf, ChannelInv
      <3>3. ProgressInv' /\ RecordInv'
        BY <2>1, <3>1 DEF SnapshotInv, ProgressInv, RecordInv
      <3>4. QED
        BY <3>2, <3>3 DEF SnapshotInv
    <2>3. CASE \E p \in Peer : InitiateSnapshot(p)
      BY <2>1, <2>3, InitiateKeeps
    <2>4. ASSUME NEW p \in Peer, NEW q \in Peer, SendMessage(p, q) PROVE SnapshotInv'
      BY <2>1, <2>4, SendKeeps
    <2>5. ASSUME NEW p \in Peer, NEW q \in Peer, ReceiveMessage(p, q) PROVE SnapshotInv'
      BY <2>1, <2>5, ReceiveKeeps
    <2>6. ASSUME NEW p \in Peer, NEW q \in Peer, ReceiveMarker(p, q) PROVE SnapshotInv'
      BY <2>1, <2>6, FirstMarkerKeeps, LaterMarkerKeeps
    <2>7. QED
      BY <2>1, <2>2, <2>3, <2>4, <2>5, <2>6 DEF SnapshotNext
  <1>3. SnapshotInv => SnapshotIsConsistent
    <2>1. SUFFICES ASSUME SnapshotInv PROVE ConsistentCut /\ ChannelStatesAreExact
      BY DEF SnapshotIsConsistent
    <2>2. SnapshotTypes /\ NoSelf /\ RecordInv
      BY <2>1 DEF SnapshotInv
    <2>3. nodeStates.of \subseteq Peer /\ channelStates.of \subseteq Peer \X Peer
          /\ nodeStates.sent \in [Peer -> [Peer -> Nat]]
      BY <2>2 DEF SnapshotTypes
    <2>4. ConsistentCut
      <3>1. SUFFICES ASSUME NEW p \in nodeStates.of, NEW q \in nodeStates.of
                     PROVE  nodeStates.seen[q][p] <= nodeStates.sent[p][q]
        BY DEF ConsistentCut
      <3>2. p \in Peer /\ q \in Peer
        BY <2>3
      <3>3. CASE p = q
        <4>1. nodeStates.seen[q][p] = 0 /\ nodeStates.sent[p][q] \in Nat
          BY <2>2, <2>3, <3>2, <3>3 DEF NoSelf
        <4>2. QED
          BY <4>1
      <3>4. CASE p # q
        BY <2>2, <3>2, <3>4 DEF RecordInv
      <3>5. QED
        BY <3>3, <3>4
    <2>5. ChannelStatesAreExact
      <3>1. SUFFICES ASSUME NEW c \in channelStates.of
                     PROVE  channelStates.messages[c[1]][c[2]]
                              = Between(nodeStates.seen[c[2]][c[1]], nodeStates.sent[c[1]][c[2]])
        BY DEF ChannelStatesAreExact, Between
      <3>2. PICK a \in Peer, b \in Peer : c = <<a, b>>
        BY <2>3
      <3>3. a # b
        BY <2>2, <3>2 DEF RecordInv
      <3>4. channelStates.messages[a][b] = Between(nodeStates.seen[b][a], nodeStates.sent[a][b])
        BY <2>2, <3>2, <3>3 DEF RecordInv
      <3>5. QED
        BY <3>2, <3>4
    <2>6. QED
      BY <2>4, <2>5
  <1>4. QED
    BY <1>1, <1>2, <1>3, PTL DEF SnapshotSpec

-----------------------------------------------------------------------------
(* Start and Stop of HermesNode *)

\* Parts come up in the order of Start.
LEMMA PartsUp ==
    ASSUME booted \in 0 .. 10
    PROVE  /\ Ready <=> booted = 10
           /\ IsUp("raftNode") <=> booted >= 6
           /\ IsUp("consistency") <=> booted >= 8
           /\ IsUp("rateLimiting") <=> booted >= 9
           /\ Len(Boot) = 10
           /\ \A i \in 1 .. 10 : /\ Boot[i] = "storage" <=> i = 2
                                 /\ Boot[i] = "raftNode" <=> i = 6
<1>1. Boot[1] = "observability" /\ Boot[2] = "storage" /\ Boot[3] = "grpc" /\ Boot[4] = "membership"
      /\ Boot[5] = "raftTrans" /\ Boot[6] = "raftNode" /\ Boot[7] = "shardMap" /\ Boot[8] = "consistency"
      /\ Boot[9] = "rateLimiting" /\ Boot[10] = "ready" /\ Len(Boot) = 10
  BY DEF Boot
<1>2. \A i \in 1 .. 10 : i = 1 \/ i = 2 \/ i = 3 \/ i = 4 \/ i = 5 \/ i = 6 \/ i = 7 \/ i = 8 \/ i = 9 \/ i = 10
  OBVIOUS
<1>3. \A i \in 1 .. 10 : /\ Boot[i] = "storage" <=> i = 2
                         /\ Boot[i] = "raftNode" <=> i = 6
                         /\ Boot[i] = "consistency" <=> i = 8
                         /\ Boot[i] = "rateLimiting" <=> i = 9
                         /\ Boot[i] = "ready" <=> i = 10
  BY <1>1, <1>2
<1>4. \A i \in 1 .. booted : i \in 1 .. 10
  OBVIOUS
<1>5. QED
  BY <1>1, <1>3, <1>4 DEF IsUp, Ready

\* Stop begins when Start is over, and ends the Raft loop before it closes the engine.
LifecycleInv ==
    /\ booted \in 0 .. 10
    /\ stop \in {"no", "cancelled", "draining", "drained", "raftStopped", "stopped"}
    /\ stop # "no" => booted = 10
    /\ loop \in {"none", "idle", "applying", "gone"}
    /\ booted >= 6 \/ loop = "none"
    /\ stop \in {"raftStopped", "stopped"} => loop = "gone"
    /\ booted >= 2 /\ stop # "stopped" => engineOpen
    /\ call \in [Call -> [pc : {"new", "inside", "panicked", "proposed", "answered", "ended"},
                          kind : {"none", "put", "get", "raft", "ping"}, ready : BOOLEAN]]
    /\ \A c \in Call : call[c].ready => booted = 10
    /\ ReadyMeansServed

\* Every step of Start, Stop, the calls and the Raft loop keeps LifecycleInv.
LEMMA LifecycleInvNext ==
    ASSUME LifecycleInv, [LifecycleNext]_lifecycleVars
    PROVE  LifecycleInv'
<1>1. CASE StartStep
  <2>1. /\ booted < 10 /\ booted' = booted + 1 /\ booted' \in 1 .. 10 /\ stop = "no"
        /\ UNCHANGED <<stop, call>>
    BY <1>1, PartsUp DEF StartStep, LifecycleInv
  <2>2. /\ booted' = 2 => engineOpen'
        /\ booted' # 2 => engineOpen' = engineOpen
        /\ booted' = 6 => loop' = "idle"
        /\ booted' # 6 => loop' = loop
    BY <1>1, <2>1, PartsUp DEF StartStep, LifecycleInv
  <2>3. \A c \in Call : ~call[c].ready
    BY <2>1 DEF LifecycleInv
  <2>4. QED
    BY <2>1, <2>2, <2>3 DEF LifecycleInv, ReadyMeansServed
<1>2. CASE StartFails
  BY <1>2 DEF StartFails, LifecycleInv, ReadyMeansServed
<1>3. ASSUME NEW c \in Call, NEW kind \in {"put", "get", "raft", "ping"}, Arrive(c, kind) PROVE LifecycleInv'
  <2>1. PICK r \in BOOLEAN : r = (Ready /\ stop = "no")
    OBVIOUS
  <2>2. r => booted = 10
    BY <2>1, PartsUp DEF LifecycleInv
  <2>3. /\ call' = [call EXCEPT ![c] = [pc |-> "inside", kind |-> kind, ready |-> r]]
        /\ UNCHANGED <<booted, stop, loop, engineOpen>>
    BY <1>3, <2>1 DEF Arrive
  <2>4. QED
    BY <2>2, <2>3 DEF LifecycleInv, ReadyMeansServed
<1>4. ASSUME UNCHANGED <<booted, stop, engineOpen>>,
             loop' = loop \/ (loop = "idle" /\ loop' = "applying") \/ (loop = "applying" /\ loop' = "idle"),
             NEW c \in Call, NEW pc \in {"inside", "panicked", "proposed", "answered", "ended"},
             call' = call \/ (call' = [call EXCEPT ![c].pc = pc] /\ (pc = "panicked" => ~call[c].ready))
      PROVE  LifecycleInv'
  BY <1>4 DEF LifecycleInv, ReadyMeansServed
<1>5. ASSUME NEW c \in Call, Handle(c) PROVE LifecycleInv'
  <2>1. UNCHANGED <<booted, stop, loop, engineOpen>>
    BY <1>5 DEF Handle
  <2>2. CASE call' = [call EXCEPT ![c].pc = "panicked"] /\ \E part \in Uses(call[c].kind) : ~IsUp(part)
    <3>1. booted # 10
      <4>1. \A part \in Uses(call[c].kind) : part \in {"raftNode", "consistency", "rateLimiting"}
        BY DEF Uses
      <4>2. QED
        BY <2>2, <4>1, PartsUp DEF LifecycleInv
    <3>2. ~call[c].ready
      BY <3>1 DEF LifecycleInv
    <3>3. QED
      BY <1>4, <2>1, <2>2, <3>2
  <2>3. CASE call' = [call EXCEPT ![c].pc = "ended"] \/ call' = [call EXCEPT ![c].pc = "proposed"]
    BY <1>4, <2>1, <2>3
  <2>4. QED
    BY <1>5, <2>2, <2>3 DEF Handle
<1>6. ASSUME NEW c \in Call, Recovered(c) \/ ProposeReturns(c) \/ TimesOut(c) PROVE LifecycleInv'
  BY <1>4, <1>6 DEF Recovered, ProposeReturns, TimesOut
<1>7. ASSUME NEW c \in Call, LoopTakes(c) PROVE LifecycleInv'
  <2>1. call' = call \/ call' = [call EXCEPT ![c].pc = "answered"]
    BY <1>7 DEF LoopTakes, LifecycleInv
  <2>2. QED
    BY <1>4, <1>7, <2>1 DEF LoopTakes
<1>8. CASE LoopApplied
  BY <1>8 DEF LoopApplied, LifecycleInv, ReadyMeansServed
<1>9. CASE StopBegins
  BY <1>9, PartsUp DEF StopBegins, StopsFrom, LifecycleInv, ReadyMeansServed
<1>10. CASE GrpcStops \/ GracefulStop \/ ForcedStop
  BY <1>10 DEF GrpcStops, GracefulStop, ForcedStop, StopsFrom, LifecycleInv, ReadyMeansServed
<1>11. CASE RaftStops
  BY <1>11 DEF RaftStops, StopsFrom, LifecycleInv, ReadyMeansServed
<1>12. CASE EngineCloses
  BY <1>12 DEF EngineCloses, StopsFrom, LifecycleInv, ReadyMeansServed
<1>13. CASE UNCHANGED lifecycleVars
  BY <1>13 DEF lifecycleVars, LifecycleInv, ReadyMeansServed
<1>14. QED
  BY <1>1, <1>2, <1>3, <1>5, <1>6, <1>7, <1>8, <1>9, <1>10, <1>11, <1>12, <1>13 DEF LifecycleNext

\* However calls, the Raft loop, Start and Stop interleave, a call that arrives after the
\* node became ready finds what it uses, and no entry is applied to a closed engine, also
\* when Stop gives up waiting for the calls inside (Start, Stop, startRaft).
THEOREM LifecycleSafe == LifecycleSpec => [](ReadyMeansServed /\ AppliesToOpenEngine)
<1>1. LifecycleInit => LifecycleInv
  BY DEF LifecycleInit, LifecycleInv, ReadyMeansServed
<1>2. LifecycleInv /\ [LifecycleNext]_lifecycleVars => LifecycleInv'
  BY LifecycleInvNext
<1>3. LifecycleInv => ReadyMeansServed /\ AppliesToOpenEngine
  BY DEF LifecycleInv, AppliesToOpenEngine
<1>4. QED
  BY <1>1, <1>2, <1>3, PTL DEF LifecycleSpec
=============================================================================
