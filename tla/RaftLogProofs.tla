---------------------------- MODULE RaftLogProofs ----------------------------
(***************************************************************************)
(* What Raft does to its logs, for every value of the constants.  First     *)
(* what a node applies (over restarts, any peer lists and either            *)
(* transport), then how the logs of different nodes agree, and last that    *)
(* what a leader has committed stays.                                       *)
(***************************************************************************)
EXTENDS RaftProofs

-----------------------------------------------------------------------------
(* The operators on logs, entry by entry *)

\* The entries of a log are numbered from 1, and no entry is of term 0: termOf
\* can answer 0 for "no such entry".
GoodLog(l) == \A i \in 1..Len(l) : l[i].index = i /\ l[i].term > 0

\* An append message numbers its entries from its previous index on, and names
\* a previous entry when it has entries that are not the first ones.
GoodPiece(m) ==
    /\ \A i \in 1..Len(m.entries) :
         m.entries[i].index = m.prevIndex + i /\ m.entries[i].term > 0
    /\ Len(m.entries) > 0 /\ m.prevIndex > 0 => m.prevTerm > 0

\* RaftLog.slice returns what the log holds there, and all of it when the range
\* ends inside the log.
LEMMA EntriesPointwise ==
    ASSUME NEW l \in Seq(Entry), NEW lo \in Nat \ {0}, NEW hi \in Nat
    PROVE  /\ Len(Entries(l, lo, hi)) \in Nat
           /\ \A i \in 1..Len(Entries(l, lo, hi)) :
                lo + i - 1 \in 1..Len(l) /\ Entries(l, lo, hi)[i] = l[lo + i - 1]
           /\ hi >= lo /\ hi - 1 <= Len(l) => Len(Entries(l, lo, hi)) = hi - lo
<1> DEFINE last == MinOf(hi - 1, Len(l))
<1>1. last \in Int /\ last <= Len(l) /\ Len(l) \in Nat /\ (hi - 1 <= Len(l) => last = hi - 1)
  BY DEF MinOf
<1>2. Entries(l, lo, hi) = SubSeq(l, lo, last)
  BY DEF Entries, LastIndex
<1> HIDE DEF last
<1>3. \A i \in lo..last : l[i] \in Entry
  BY <1>1
<1>4. /\ Len(SubSeq(l, lo, last)) = IF lo <= last THEN last - lo + 1 ELSE 0
      /\ \A i \in 1..(last - lo + 1) : SubSeq(l, lo, last)[i] = l[lo + i - 1]
  BY <1>1, <1>3, SubSeqProperties
<1>5. QED
  BY <1>1, <1>2, <1>4

\* What RaftLog.Append makes of entries that belong after index prev of the log:
\* nothing when the log has them all, or a log that keeps the old one up to some
\* cut, at or after prev, where the terms agree, and continues with the new entries.
LEMMA AppendEntriesPointwise ==
    ASSUME NEW l \in Seq(Entry), NEW entries \in Seq(Entry), NEW prev \in 0..Len(l),
           \A i \in 1..Len(entries) : entries[i].index = prev + i
    PROVE  \/ /\ AppendEntries(l, entries) = l
              /\ \A i \in 1..Len(entries) :
                   prev + i <= Len(l) /\ l[prev + i].term = entries[i].term
           \/ /\ \E i \in 1..Len(entries) :
                   prev + i > Len(l) \/ l[prev + i].term # entries[i].term
              /\ Len(AppendEntries(l, entries)) = prev + Len(entries)
              /\ \E cut \in prev..Len(l) :
                   /\ cut < prev + Len(entries)
                   /\ \A j \in 1..cut : AppendEntries(l, entries)[j] = l[j]
                   /\ \A j \in (cut + 1)..(prev + Len(entries)) :
                        AppendEntries(l, entries)[j] = entries[j - prev]
                   /\ cut > prev => l[cut].term = entries[cut - prev].term
<1> DEFINE fresh == {i \in 1..Len(entries) :
                       \/ entries[i].index > LastIndex(l)
                       \/ Term(l, entries[i].index) # entries[i].term}
           first == CHOOSE i \in fresh : \A j \in fresh : i <= j
<1>1. CASE fresh = {}
  <2>1. AppendEntries(l, entries) = l
    BY <1>1 DEF AppendEntries
  <2>2. ASSUME NEW i \in 1..Len(entries)
        PROVE  prev + i <= Len(l) /\ l[prev + i].term = entries[i].term
    <3>1. ~(entries[i].index > Len(l)) /\ Term(l, entries[i].index) = entries[i].term
      BY <1>1 DEF LastIndex
    <3>2. entries[i].index = prev + i /\ prev + i \in Nat \ {0} /\ Len(l) \in Nat
      OBVIOUS
    <3>3. prev + i \in 1..Len(l)
      BY <3>1, <3>2
    <3>4. QED
      BY <3>1, <3>2, <3>3 DEF Term
  <2>3. QED
    BY <2>1, <2>2
<1>2. CASE fresh # {}
  <2>1. first \in fresh /\ \A j \in fresh : first <= j
    <3>1. fresh \in SUBSET Nat
      OBVIOUS
    <3>2. \E i \in fresh : \A j \in fresh : i <= j
      BY <3>1, <1>2, NatMin
    <3>3. QED
      BY <3>2
  <2> HIDE DEF first
  <2>2. first \in 1..Len(entries) /\ entries[first].index = prev + first /\ Len(entries) \in Nat
    BY <2>1
  <2> DEFINE cut == prev + first - 1
  <2>3. \A i \in 1..(first - 1) : prev + i <= Len(l) /\ l[prev + i].term = entries[i].term
    <3>1. ASSUME NEW i \in 1..(first - 1)
          PROVE  prev + i <= Len(l) /\ l[prev + i].term = entries[i].term
      <4>1. i \in 1..Len(entries) /\ i < first
        BY <2>2
      <4>2. i \notin fresh
        BY <2>1, <2>2, <4>1
      <4>3. ~(entries[i].index > Len(l)) /\ Term(l, entries[i].index) = entries[i].term
        BY <4>1, <4>2 DEF LastIndex
      <4>4. entries[i].index = prev + i /\ prev + i \in Nat \ {0}
        BY <4>1
      <4>5. prev + i \in 1..Len(l)
        BY <4>1, <4>3, <4>4
      <4>6. QED
        BY <4>3, <4>4, <4>5 DEF Term
    <3>2. QED
      BY <3>1
  <2>4. cut \in prev..Len(l) /\ cut < prev + Len(entries)
    <3>1. CASE first = 1
      BY <2>2, <3>1
    <3>2. CASE first > 1
      <4>1. first - 1 \in 1..(first - 1)
        BY <2>2, <3>2
      <4>2. prev + (first - 1) <= Len(l)
        BY <2>3, <4>1
      <4>3. QED
        BY <2>2, <4>2
    <3>3. QED
      BY <2>2, <3>1, <3>2
  <2>5. cut > prev => l[cut].term = entries[cut - prev].term
    <3>1. cut > prev => first - 1 \in 1..(first - 1) /\ cut = prev + (first - 1)
                        /\ cut - prev = first - 1
      BY <2>2
    <3>2. QED
      BY <2>3, <3>1
  <2>6. MinOf(entries[first].index - 1, LastIndex(l)) = cut
    BY <2>2, <2>4 DEF MinOf, LastIndex
  <2> DEFINE head == SubSeq(l, 1, cut)
             tail == SubSeq(entries, first, Len(entries))
  <2>7. AppendEntries(l, entries) = head \o tail
    BY <1>2, <2>6 DEF AppendEntries, first
  <2>8. /\ head \in Seq(Entry) /\ Len(head) = cut
        /\ \A j \in 1..cut : head[j] = l[j]
    <3>1. \A i \in 1..cut : l[i] \in Entry
      BY <2>4
    <3>2. /\ head \in Seq(Entry)
          /\ Len(head) = IF 1 <= cut THEN cut - 1 + 1 ELSE 0
          /\ \A i \in 1..(cut - 1 + 1) : head[i] = l[1 + i - 1]
      BY <2>2, <3>1, SubSeqProperties
    <3>3. QED
      BY <2>2, <3>2
  <2>9. /\ tail \in Seq(Entry) /\ Len(tail) = Len(entries) - first + 1
        /\ \A j \in 1..(Len(entries) - first + 1) : tail[j] = entries[first + j - 1]
    <3>1. \A i \in first..Len(entries) : entries[i] \in Entry
      BY <2>2
    <3>2. QED
      BY <2>2, <3>1, SubSeqProperties
  <2> HIDE DEF head, tail
  <2>10. /\ Len(head \o tail) = Len(head) + Len(tail)
         /\ \A j \in 1..(Len(head) + Len(tail)) :
              (head \o tail)[j] = IF j <= Len(head) THEN head[j] ELSE tail[j - Len(head)]
    BY <2>8, <2>9, ConcatProperties
  <2>11. Len(head) + Len(tail) = prev + Len(entries)
    BY <2>2, <2>8, <2>9
  <2>12. \A j \in 1..cut : (head \o tail)[j] = l[j]
    BY <2>2, <2>4, <2>8, <2>10, <2>11
  <2>13. \A j \in (cut + 1)..(prev + Len(entries)) : (head \o tail)[j] = entries[j - prev]
    <3>1. ASSUME NEW j \in (cut + 1)..(prev + Len(entries))
          PROVE  (head \o tail)[j] = entries[j - prev]
      <4>1. j \in 1..(Len(head) + Len(tail)) /\ ~(j <= Len(head))
            /\ j - Len(head) \in 1..(Len(entries) - first + 1)
            /\ first + (j - Len(head)) - 1 = j - prev
        BY <2>2, <2>4, <2>8, <2>11
      <4>2. (head \o tail)[j] = tail[j - Len(head)]
        BY <2>10, <4>1
      <4>3. QED
        BY <2>9, <4>1, <4>2
    <3>2. QED
      BY <3>1
  <2>14. prev + first > Len(l) \/ l[prev + first].term # entries[first].term
    <3>1. entries[first].index > Len(l) \/ Term(l, entries[first].index) # entries[first].term
      BY <2>1 DEF LastIndex
    <3>2. entries[first].index = prev + first /\ prev + first \in Nat \ {0} /\ Len(l) \in Nat
      BY <2>2
    <3>3. QED
      BY <3>1, <3>2 DEF Term
  <2>15. \E i \in 1..Len(entries) : prev + i > Len(l) \/ l[prev + i].term # entries[i].term
    BY <2>2, <2>14
  <2> HIDE DEF cut
  <2>16. /\ Len(AppendEntries(l, entries)) = prev + Len(entries)
         /\ \E c \in prev..Len(l) :
              /\ c < prev + Len(entries)
              /\ \A j \in 1..c : AppendEntries(l, entries)[j] = l[j]
              /\ \A j \in (c + 1)..(prev + Len(entries)) :
                   AppendEntries(l, entries)[j] = entries[j - prev]
              /\ c > prev => l[c].term = entries[c - prev].term
    BY <2>4, <2>5, <2>7, <2>10, <2>11, <2>12, <2>13
  <2>17. QED
    BY <2>15, <2>16
<1>3. QED
  BY <1>1, <1>2

\* RaftLog.AppendOne adds one entry of the given term.
LEMMA AppendOnePointwise ==
    ASSUME NEW l \in Seq(Entry), NEW t \in Nat, NEW cmd \in Value \cup {Noop}
    PROVE  /\ AppendOne(l, t, cmd) \in Seq(Entry)
           /\ Len(AppendOne(l, t, cmd)) = Len(l) + 1
           /\ \A i \in 1..Len(l) : AppendOne(l, t, cmd)[i] = l[i]
           /\ AppendOne(l, t, cmd)[Len(l) + 1].index = Len(l) + 1
           /\ AppendOne(l, t, cmd)[Len(l) + 1].term = t
<1>1. [index |-> Len(l) + 1, term |-> t, cmd |-> cmd] \in Entry
  BY DEF Entry
<1>2. QED
  BY <1>1, AppendProperties DEF AppendOne, LastIndex

\* A good log stays good when it grows by an entry of a term above 0 ...
LEMMA AppendOneGood ==
    ASSUME NEW l \in Seq(Entry), NEW t \in Nat, t > 0, NEW cmd \in Value \cup {Noop}, GoodLog(l)
    PROVE  GoodLog(AppendOne(l, t, cmd))
<1> DEFINE r == AppendOne(l, t, cmd)
<1>1. /\ Len(r) = Len(l) + 1 /\ Len(l) \in Nat
      /\ \A i \in 1..Len(l) : r[i] = l[i]
      /\ r[Len(l) + 1].index = Len(l) + 1 /\ r[Len(l) + 1].term = t
  <2>1. Len(l) \in Nat
    OBVIOUS
  <2>2. QED
    BY <2>1, AppendOnePointwise, SMTT(30)
<1> HIDE DEF r
<1>2. \A i \in 1..Len(r) : i \in 1..Len(l) \/ i = Len(l) + 1
  BY <1>1
<1>3. QED
  BY <1>1, <1>2 DEF GoodLog, r

\* ... and when it takes over the entries of a good append message.
LEMMA AppendEntriesGood ==
    ASSUME NEW l \in Seq(Entry), NEW m \in AppendMessage, GoodLog(l), GoodPiece(m),
           LogConsistencyCheck(l, m.prevIndex, m.prevTerm)
    PROVE  /\ GoodLog(AppendEntries(l, m.entries))
           /\ Len(m.entries) > 0 => m.prevIndex \in 0..Len(l)
           /\ \A c \in Nat : c <= m.prevIndex /\ c <= Len(l) =>
                /\ c <= Len(AppendEntries(l, m.entries))
                /\ \A i \in 1..c : AppendEntries(l, m.entries)[i] = l[i]
<1> DEFINE r == AppendEntries(l, m.entries)
           prev == m.prevIndex
<1>1. /\ m.entries \in Seq(Entry) /\ prev \in Nat /\ Len(m.entries) \in Nat
      /\ Len(l) \in Nat
  BY DEF AppendMessage
<1>2. CASE Len(m.entries) = 0
  <2>1. r = l
    BY <1>2 DEF AppendEntries
  <2>2. QED
    BY <1>2, <2>1
<1>3. CASE Len(m.entries) > 0
  <2>1. prev \in 0..Len(l)
    <3>1. CASE prev = 0
      BY <1>1, <3>1
    <3>2. CASE prev # 0
      <4>1. m.prevTerm > 0 /\ Term(l, prev) = m.prevTerm
        BY <1>1, <1>3, <3>2 DEF GoodPiece, LogConsistencyCheck
      <4>2. QED
        BY <1>1, <4>1 DEF Term
    <3>3. QED
      BY <3>1, <3>2
  <2>2. \A i \in 1..Len(m.entries) : m.entries[i].index = prev + i /\ m.entries[i].term > 0
    BY DEF GoodPiece
  <2>3. CASE r = l
    BY <2>1, <2>3
  <2>4. CASE r # l
    <3>1. /\ Len(r) = prev + Len(m.entries)
          /\ \E cut \in prev..Len(l) :
               /\ cut < prev + Len(m.entries)
               /\ \A j \in 1..cut : r[j] = l[j]
               /\ \A j \in (cut + 1)..(prev + Len(m.entries)) : r[j] = m.entries[j - prev]
      BY <1>1, <2>1, <2>2, <2>4, AppendEntriesPointwise, ZenonT(40)
    <3>2. PICK cut \in prev..Len(l) :
               /\ cut < prev + Len(m.entries)
               /\ \A j \in 1..cut : r[j] = l[j]
               /\ \A j \in (cut + 1)..(prev + Len(m.entries)) : r[j] = m.entries[j - prev]
      BY <3>1
    <3> HIDE DEF r
    <3>3. ASSUME NEW i \in 1..Len(r) PROVE r[i].index = i /\ r[i].term > 0
      <4>1. CASE i <= cut
        <5>1. i \in 1..cut /\ i \in 1..Len(l)
          BY <1>1, <2>1, <4>1
        <5>2. QED
          BY <3>2, <5>1 DEF GoodLog
      <4>2. CASE i > cut
        <5>1. i \in (cut + 1)..(prev + Len(m.entries)) /\ i - prev \in 1..Len(m.entries)
              /\ prev + (i - prev) = i
          BY <1>1, <2>1, <3>1, <4>2
        <5>2. r[i] = m.entries[i - prev]
          BY <3>2, <5>1
        <5>3. QED
          BY <2>2, <5>1, <5>2
      <4>3. QED
        BY <1>1, <2>1, <4>1, <4>2
    <3>4. ASSUME NEW c \in Nat, c <= prev, c <= Len(l)
          PROVE  c <= Len(r) /\ \A i \in 1..c : r[i] = l[i]
      <4>1. c <= cut /\ c <= Len(r)
        BY <1>1, <2>1, <3>1, <3>4
      <4>2. \A i \in 1..c : i \in 1..cut
        BY <2>1, <4>1
      <4>3. QED
        BY <3>2, <4>1, <4>2
    <3>5. QED
      BY <2>1, <3>3, <3>4 DEF GoodLog, r
  <2>5. QED
    BY <2>3, <2>4
<1>4. QED
  BY <1>1, <1>2, <1>3

-----------------------------------------------------------------------------
(* What is sent *)

\* Every append message cut from a good log is a good piece.
LEMMA AppendMsgGood ==
    ASSUME NEW n, NEW p, NEW t, NEW next \in Nat \ {0}, NEW l \in Seq(Entry), NEW c, GoodLog(l)
    PROVE  GoodPiece(AppendMsg(n, p, t, next, l, c))
<1> DEFINE m == AppendMsg(n, p, t, next, l, c)
           es == Entries(l, next, next + MaxEntriesToSend)
<1>1. m.prevIndex = next - 1 /\ m.prevTerm = Term(l, next - 1) /\ m.entries = es
  BY DEF AppendMsg
<1>2. next + MaxEntriesToSend \in Nat
  BY BoundAssumption
<1>3. /\ Len(es) \in Nat
      /\ \A i \in 1..Len(es) : next + i - 1 \in 1..Len(l) /\ es[i] = l[next + i - 1]
  BY <1>2, EntriesPointwise
<1> HIDE DEF es, m
<1>4. \A i \in 1..Len(es) : es[i].index = (next - 1) + i /\ es[i].term > 0
  BY <1>3 DEF GoodLog
<1>5. Len(es) > 0 /\ next - 1 > 0 => Term(l, next - 1) > 0
  <2>1. ASSUME Len(es) > 0, next - 1 > 0 PROVE Term(l, next - 1) > 0
    <3>1. next - 1 \in 1..Len(l)
      <4>1. 1 \in 1..Len(es)
        BY <1>3, <2>1
      <4>2. next + 1 - 1 \in 1..Len(l)
        BY <1>3, <4>1
      <4>3. QED
        BY <2>1, <4>2
    <3>2. QED
      BY <3>1 DEF Term, GoodLog
  <2>2. QED
    BY <2>1
<1>6. QED
  BY <1>1, <1>4, <1>5 DEF GoodPiece, m

OtherType == {"Vote", "VoteRsp", "Heartbeat", "HeartbeatRsp", "AppendRsp", "Propose"}

\* An append message on the wire was sent as one, or is the heartbeat of the
\* gRPC transport, which carries no entry.
LEMMA OnWireAppend ==
    ASSUME NEW m, m.type = "Append" \/ m.type \in OtherType, NEW w \in OnWire(m), w.type = "Append"
    PROVE  w = m \/ (w.entries = <<>> /\ w.prevIndex = 0)
<1>1. m.type \in {"Vote", "VoteRsp", "Heartbeat", "HeartbeatRsp", "Append", "AppendRsp", "Propose"}
  BY DEF OtherType
<1>2. CASE m.type = "Heartbeat"
  <2>1. w = m \/ w = AppendMsg(m.from, m.to, m.term, 1, <<>>, m.commit)
    BY <1>2 DEF OnWire
  <2>2. CASE w = AppendMsg(m.from, m.to, m.term, 1, <<>>, m.commit)
    <3> DEFINE es == Entries(<<>>, 1, 1 + MaxEntriesToSend)
    <3>1. w.entries = es /\ w.prevIndex = 0
      BY <2>2 DEF AppendMsg
    <3>2. \A l \in Seq(Entry) : Len(l) = 0 => Entries(l, 1, 1 + MaxEntriesToSend) = <<>>
      <4>1. ASSUME NEW l \in Seq(Entry), Len(l) = 0
            PROVE  Entries(l, 1, 1 + MaxEntriesToSend) = <<>>
        <5>1. 1 + MaxEntriesToSend \in Nat
          BY BoundAssumption
        <5>2. /\ Entries(l, 1, 1 + MaxEntriesToSend) \in Seq(Entry)
              /\ Len(Entries(l, 1, 1 + MaxEntriesToSend)) \in Nat
              /\ \A i \in 1..Len(Entries(l, 1, 1 + MaxEntriesToSend)) : 1 + i - 1 \in 1..Len(l)
          BY <5>1, EntriesPointwise, EntriesType
        <5>3. Len(Entries(l, 1, 1 + MaxEntriesToSend)) = 0
          BY <4>1, <5>2
        <5>4. QED
          BY <5>2, <5>3, EmptySeq
      <4>2. QED
        BY <4>1
    <3>3. <<>> \in Seq(Entry) /\ Len(<<>>) = 0
      BY EmptySeq
    <3>4. es = <<>>
      BY <3>2, <3>3, Zenon
    <3>5. QED
      BY <3>1, <3>4
  <2>3. QED
    BY <2>1, <2>2
<1>3. CASE m.type # "Heartbeat"
  BY <1>1, <1>3 DEF OnWire, VoteMsg, AppendRspMsg
<1>4. QED
  BY <1>2, <1>3

\* The append messages that enter the network: n cuts them from l while it leads,
\* or they carry nothing.
SendsFrom(n, l) ==
    \A w \in msgs' : w.type = "Append" =>
        \/ w \in msgs
        \/ w.entries = <<>> /\ w.prevIndex = 0
        \/ /\ state[n] = "Leader"
           /\ \E p \in Server, next \in Nat \ {0}, c \in Nat :
                w = AppendMsg(n, p, term[n], next, l, c)

LEMMA ExchangeSends ==
    ASSUME NEW taken, NEW out, Exchange(taken, out), NEW n, NEW l,
           \A m \in out :
              \/ m.type \in OtherType
              \/ /\ m.type = "Append" /\ state[n] = "Leader"
                 /\ \E p \in Server, next \in Nat \ {0}, c \in Nat :
                       m = AppendMsg(n, p, term[n], next, l, c)
    PROVE  SendsFrom(n, l)
<1> SUFFICES ASSUME NEW w \in msgs', w.type = "Append", w \notin msgs
             PROVE  \/ w.entries = <<>> /\ w.prevIndex = 0
                    \/ /\ state[n] = "Leader"
                       /\ \E p \in Server, next \in Nat \ {0}, c \in Nat :
                            w = AppendMsg(n, p, term[n], next, l, c)
  BY DEF SendsFrom
<1>1. PICK m \in out : w \in OnWire(m)
  BY DEF Exchange
<1>2. m.type = "Append" \/ m.type \in OtherType
  BY <1>1
<1>3. w = m \/ (w.entries = <<>> /\ w.prevIndex = 0)
  BY <1>1, <1>2, OnWireAppend
<1>4. "Append" \notin OtherType
  BY DEF OtherType
<1>5. QED
  BY <1>1, <1>3, <1>4

-----------------------------------------------------------------------------
(* What one step does to the logs: it leaves them alone, moves a commit index, *)
(* takes over entries of a message, appends a proposal, begins a leadership or  *)
(* restarts a node.  The invariants below are preserved kind by kind.           *)

\* No node begins to lead.  A leader stays one in its term, and changes its term
\* only if it could grant a vote.
Calm ==
    \A p \in Server :
        /\ term'[p] >= term[p]
        /\ state'[p] = "Leader" =>
             state[p] = "Leader" /\ (term'[p] = term[p] \/ \E m \in msgs : GrantVote(p, m))
        /\ state'[p] = "Candidate" => state[p] = "Candidate" \/ term'[p] > term[p]
        /\ state[p] = "Leader" /\ term'[p] = term[p] => state'[p] = "Leader"

LeavesLogs(n) ==
    /\ Calm /\ SendsFrom(n, log[n])
    /\ UNCHANGED <<log, committed, applied, elected>>

Commits(n) ==
    /\ Calm /\ SendsFrom(n, log[n])
    /\ UNCHANGED elected
    /\ \E c \in Nat : /\ committed[n] <= c /\ (c > committed[n] => c <= Len(log[n]))
                      /\ Ready(n, log[n], c)

Accepts(n) ==
    /\ Calm /\ SendsFrom(n, log[n])
    /\ UNCHANGED elected
    /\ state'[n] = "Follower"
    /\ \E m \in msgs :
         LET l == AppendEntries(log[n], m.entries) IN
         /\ m.type = "Append" /\ FollowSender(n, m) /\ ~BehindCommit(n, m)
         /\ LogConsistencyCheck(log[n], m.prevIndex, m.prevTerm)
         /\ Ready(n, l, CommitTo(l, committed[n], m.commit))

Proposes(n) ==
    /\ Calm
    /\ UNCHANGED <<elected, term, state>>
    /\ state[n] = "Leader"
    /\ \E v \in Value, c \in Nat :
         LET l == AppendOne(log[n], term[n], v) IN
         /\ SendsFrom(n, l)
         /\ committed[n] <= c /\ (c > committed[n] => c <= Len(l))
         /\ Ready(n, l, c)

TakesOver(n) ==
    /\ SendsFrom(n, log[n])
    /\ state[n] # "Leader" /\ state'[n] = "Leader"
    /\ term'[n] > term[n] \/ (term'[n] = term[n] /\ state[n] = "Candidate")
    /\ \A p \in Server \ {n} : term'[p] = term[p] /\ state'[p] = state[p]
    /\ log' = [log EXCEPT ![n] = AppendOne(@, term'[n], Noop)]
    /\ elected' = elected \cup {[term |-> term'[n], node |-> n]}
    /\ UNCHANGED <<committed, applied>>

\* Steps that leave terms and roles alone, and steps that make n a follower.
LEMMA CalmSteps ==
    ASSUME TypeOK
    PROVE  /\ UNCHANGED <<term, state>> => Calm
           /\ \A n \in Server, t \in Nat :
                /\ t >= term[n] /\ ~(state[n] = "Leader" /\ t = term[n])
                /\ term' = [term EXCEPT ![n] = t]
                /\ state' = [state EXCEPT ![n] = "Follower"]
                => Calm
<1>1. ASSUME UNCHANGED <<term, state>> PROVE Calm
  BY <1>1 DEF Calm, TypeOK
<1>2. ASSUME NEW n \in Server, NEW t \in Nat, t >= term[n],
             ~(state[n] = "Leader" /\ t = term[n]),
             term' = [term EXCEPT ![n] = t], state' = [state EXCEPT ![n] = "Follower"]
      PROVE  Calm
  <2> SUFFICES ASSUME NEW p \in Server
               PROVE  /\ term'[p] >= term[p]
                      /\ state'[p] = "Leader" => state[p] = "Leader" /\ term'[p] = term[p]
                      /\ state'[p] = "Candidate" => state[p] = "Candidate"
                      /\ state[p] = "Leader" /\ term'[p] = term[p] => state'[p] = "Leader"
    BY DEF Calm
  <2>1. CASE p = n
    <3>1. term'[p] = t /\ state'[p] = "Follower"
      BY <1>2, <2>1 DEF TypeOK
    <3>2. QED
      BY <1>2, <2>1, <3>1
  <2>2. CASE p # n
    <3>1. term'[p] = term[p] /\ state'[p] = state[p] /\ term[p] \in Nat
      BY <1>2, <2>2 DEF TypeOK
    <3>2. QED
      BY <3>1
  <2>3. QED
    BY <2>1, <2>2
<1>3. QED
  BY <1>1, <1>2

\* A proposal, made here or forwarded.
LEMMA ProposalKind ==
    ASSUME TypeOK, NEW n \in Server, NEW v \in Value, NEW taken, HandleProposal(n, v, taken)
    PROVE  Proposes(n)
<1> DEFINE l     == AppendOne(log[n], term[n], v)
           match == [matchIndex[n] EXCEPT ![n] = MaxOf(@, LastIndex(l))]
           c     == MaybeCommit(n, l, match, committed[n], term[n])
           out   == {AppendMsg(n, p, term[n], nextIndex[n][p], l, committed[n])
                        : p \in Peers[n]}
<1>1. /\ state[n] = "Leader" /\ UNCHANGED <<term, state, elected>>
      /\ Ready(n, l, c) /\ Exchange(taken, out)
  BY DEF HandleProposal, serverVars
<1>2. l \in Seq(Entry) /\ committed[n] \in Nat
  BY AppendOneType DEF TypeOK
<1>3. c \in Nat /\ committed[n] <= c /\ (c > committed[n] => c <= Len(l))
  BY <1>2, MaybeCommitType
<1>4. \A m \in out : /\ m.type = "Append" /\ state[n] = "Leader"
                     /\ \E p \in Server, next \in Nat \ {0}, k \in Nat :
                           m = AppendMsg(n, p, term[n], next, l, k)
  <2>1. ASSUME NEW m \in out
        PROVE  /\ m.type = "Append" /\ state[n] = "Leader"
               /\ \E p \in Server, next \in Nat \ {0}, k \in Nat :
                     m = AppendMsg(n, p, term[n], next, l, k)
    <3>1. PICK p \in Peers[n] : m = AppendMsg(n, p, term[n], nextIndex[n][p], l, committed[n])
      OBVIOUS
    <3>2. p \in Server /\ nextIndex[n][p] \in Nat \ {0} /\ committed[n] \in Nat
      BY PeersAssumption DEF TypeOK
    <3>3. m.type = "Append"
      BY <3>1 DEF AppendMsg
    <3> HIDE DEF l
    <3>4. QED
      BY <1>1, <3>1, <3>2, <3>3
  <2>2. QED
    BY <2>1
<1> HIDE DEF out, c
<1>5. SendsFrom(n, l)
  <2> HIDE DEF l
  <2>1. QED
    BY <1>1, <1>4, ExchangeSends
<1>6. Calm
  BY <1>1, CalmSteps
<1>7. QED
  BY <1>1, <1>3, <1>5, <1>6 DEF Proposes

\* A candidate, or a node without peers, begins to lead.
LEMMA TakeOverKind ==
    ASSUME TypeOK, NEW n \in Server, NEW t \in Nat, BecomeLeader(n, t),
           state[n] # "Leader", t > term[n] \/ (t = term[n] /\ state[n] = "Candidate"),
           term' = [term EXCEPT ![n] = t], SendsFrom(n, log[n]),
           UNCHANGED <<committed, applied>>
    PROVE  TakesOver(n)
<1>1. term'[n] = t /\ state'[n] = "Leader"
  BY DEF TypeOK, BecomeLeader
<1>2. \A p \in Server \ {n} : term'[p] = term[p] /\ state'[p] = state[p]
  BY DEF TypeOK, BecomeLeader
<1>3. log' = [log EXCEPT ![n] = AppendOne(@, t, Noop)]
      /\ elected' = elected \cup {[term |-> t, node |-> n]}
  BY DEF BecomeLeader
<1>4. QED
  BY <1>1, <1>2, <1>3 DEF TakesOver

\* One message that n sends to p while it leads.
LEMMA OneAppend ==
    ASSUME NEW n, NEW p \in Server, NEW next \in Nat \ {0}, NEW c \in Nat, state[n] = "Leader",
           NEW out, out \subseteq {AppendMsg(n, p, term[n], next, log[n], c)},
           NEW taken, Exchange(taken, out)
    PROVE  SendsFrom(n, log[n])
<1>1. \A m \in out : /\ m.type = "Append" /\ state[n] = "Leader"
                     /\ \E q \in Server, i \in Nat \ {0}, k \in Nat :
                           m = AppendMsg(n, q, term[n], i, log[n], k)
  <2>1. AppendMsg(n, p, term[n], next, log[n], c).type = "Append"
    BY DEF AppendMsg
  <2>2. QED
    BY <2>1
<1>2. QED
  BY <1>1, ExchangeSends

\* Delivering a message is a step of one of the kinds.
LEMMA DeliverKinds ==
    ASSUME TypeOK, NEW n \in Server, NEW m \in msgs, Deliver(n, m)
    PROVE  LeavesLogs(n) \/ Commits(n) \/ Accepts(n) \/ Proposes(n) \/ TakesOver(n)
<1> USE DEF serverVars, logVars, leaderVars, history
<1> m \in Message /\ m.from \in Server /\ m.to \in Server /\ m.term \in Nat /\ term[n] \in Nat
    /\ log[n] \in Seq(Entry) /\ committed[n] \in Nat
  BY MessageShape DEF TypeOK
<1>1. ASSUME NEW out, Exchange({m}, out), \A w \in out : w.type \in OtherType
      PROVE  SendsFrom(n, log[n])
  BY <1>1, ExchangeSends
<1>2. ASSUME Exchange({m}, {}) PROVE SendsFrom(n, log[n])
  BY <1>1, <1>2
<1>reply. ASSUME NEW w, Exchange({m}, {w}), w.type \in OtherType PROVE SendsFrom(n, log[n])
  <2>1. \A x \in {w} : x.type \in OtherType
    BY <1>reply
  <2>2. QED
    BY <1>1, <1>reply, <2>1
<1>3. ASSUME FollowSender(n, m) PROVE Calm /\ state'[n] = "Follower"
  <2>1. /\ m.term >= term[n] /\ ~(state[n] = "Leader" /\ m.term = term[n])
        /\ term' = [term EXCEPT ![n] = m.term]
        /\ state' = [state EXCEPT ![n] = "Follower"]
    BY <1>3 DEF FollowSender
  <2>2. QED
    BY <2>1, CalmSteps DEF TypeOK
<1>4. ASSUME m.term > term[n], term' = [term EXCEPT ![n] = m.term],
             state' = [state EXCEPT ![n] = "Follower"]
      PROVE  Calm
  <2>1. m.term >= term[n] /\ m.term # term[n]
    BY <1>4
  <2>2. QED
    BY <1>4, <2>1, CalmSteps
<1>5. ASSUME UNCHANGED <<term, state>> PROVE Calm
  BY <1>5, CalmSteps
<1>6. CASE GrantVote(n, m)
  <2>1. VoteRspMsg(n, m.from, m.term, TRUE).type \in OtherType
    BY DEF VoteRspMsg, OtherType
  <2>2. SendsFrom(n, log[n])
    <3>1. Exchange({m}, {VoteRspMsg(n, m.from, m.term, TRUE)})
      BY <1>6 DEF GrantVote
    <3>2. QED
      BY <1>reply, <2>1, <3>1
  <2>3. /\ m.term >= term[n] /\ term' = [term EXCEPT ![n] = m.term]
        /\ UNCHANGED <<state, log, committed, applied, elected>>
    BY <1>6 DEF GrantVote
  <2>4. Calm
    <3> SUFFICES ASSUME NEW p \in Server
                 PROVE  /\ term'[p] >= term[p]
                        /\ term'[p] = term[p] \/ \E w \in msgs : GrantVote(p, w)
      BY <2>3 DEF Calm
    <3>1. CASE p = n
      BY <1>6, <2>3, <3>1 DEF TypeOK
    <3>2. CASE p # n
      BY <2>3, <3>2, SMTT(30) DEF TypeOK
    <3>3. QED
      BY <3>1, <3>2
  <2>5. QED
    BY <2>2, <2>3, <2>4 DEF LeavesLogs
<1>7. CASE RejectVote(n, m)
  <2>1. VoteRspMsg(n, m.from, term[n], FALSE).type \in OtherType
    BY DEF VoteRspMsg, OtherType
  <2>2. Exchange({m}, {VoteRspMsg(n, m.from, term[n], FALSE)})
    BY <1>7 DEF RejectVote
  <2>3. SendsFrom(n, log[n])
    BY <1>reply, <2>1, <2>2
  <2>4. UNCHANGED <<term, state, log, committed, applied, elected>>
    BY <1>7 DEF RejectVote
  <2>5. QED
    BY <1>5, <2>3, <2>4 DEF LeavesLogs
<1>8. CASE HandleVoteGranted(n, m)
  <2> DEFINE granted == votes[n] \cup {m.from}
  <2>1. CASE HasQuorum(n, granted)
    <3> DEFINE out == {HeartbeatMsg(n, p, term[n], committed[n]) : p \in Peers[n]}
    <3>1. /\ BecomeLeader(n, term[n]) /\ Exchange({m}, out)
          /\ state[n] = "Candidate" /\ UNCHANGED <<term, committed, applied>>
      BY <1>8, <2>1 DEF HandleVoteGranted
    <3>2. \A w \in out : w.type \in OtherType
      BY DEF HeartbeatMsg, OtherType
    <3> HIDE DEF out
    <3>3. SendsFrom(n, log[n])
      BY <1>1, <3>1, <3>2
    <3>4. term' = [term EXCEPT ![n] = term[n]]
      BY <3>1 DEF TypeOK
    <3>5. QED
      BY <3>1, <3>3, <3>4, TakeOverKind
  <2>2. CASE ~HasQuorum(n, granted)
    BY <1>2, <1>5, <1>8, <2>2 DEF HandleVoteGranted, LeavesLogs
  <2>3. QED
    BY <2>1, <2>2
<1>9. CASE HandleVoteDenied(n, m)
  BY <1>2, <1>5, <1>9 DEF HandleVoteDenied, LeavesLogs
<1>10. CASE HandleHeartbeat(n, m)
  <2> DEFINE c == CommitTo(log[n], committed[n], m.commit)
  <2>1. HeartbeatRspMsg(n, m.from, m.term).type \in OtherType
    BY DEF HeartbeatRspMsg, OtherType
  <2>2. SendsFrom(n, log[n])
    BY <1>1, <1>10, <2>1 DEF HandleHeartbeat
  <2>3. m.commit \in Nat
    BY <1>10, MessageShape DEF HandleHeartbeat, HeartbeatMessage
  <2>4. c \in Nat /\ committed[n] <= c /\ (c > committed[n] => c <= Len(log[n]))
    BY <2>3 DEF CommitTo, MaxOf, MinOf, LastIndex
  <2>5. Ready(n, log[n], c) /\ FollowSender(n, m) /\ UNCHANGED elected
    BY <1>10 DEF HandleHeartbeat
  <2> HIDE DEF c
  <2>6. QED
    BY <1>3, <2>2, <2>4, <2>5 DEF Commits
<1>11. CASE HandleAppendBehindCommit(n, m)
  <2>1. AppendRspMsg(n, m.from, m.term, committed[n], FALSE, 0).type \in OtherType
    BY DEF AppendRspMsg, OtherType
  <2>2. Exchange({m}, {AppendRspMsg(n, m.from, m.term, committed[n], FALSE, 0)})
    BY <1>11 DEF HandleAppendBehindCommit
  <2>3. SendsFrom(n, log[n])
    BY <1>reply, <2>1, <2>2
  <2>4. FollowSender(n, m) /\ UNCHANGED <<log, committed, applied, elected>>
    BY <1>11 DEF HandleAppendBehindCommit
  <2>5. QED
    BY <1>3, <2>3, <2>4 DEF LeavesLogs
<1>12. CASE HandleAppendReject(n, m)
  <2> DEFINE rsp == AppendRspMsg(n, m.from, m.term, 0, TRUE, FindConflict(log[n], m.prevIndex))
  <2>1. rsp.type \in OtherType
    BY DEF AppendRspMsg, OtherType
  <2>2. Exchange({m}, {rsp}) /\ FollowSender(n, m) /\ UNCHANGED <<log, committed, applied, elected>>
    BY <1>12 DEF HandleAppendReject
  <2> HIDE DEF rsp
  <2>3. QED
    BY <1>1, <1>3, <2>1, <2>2 DEF LeavesLogs
<1>13. CASE HandleAppendAccept(n, m)
  <2> DEFINE l == AppendEntries(log[n], m.entries)
             rsp == AppendRspMsg(n, m.from, m.term, LastIndex(l), FALSE, 0)
  <2>1. rsp.type \in OtherType
    BY DEF AppendRspMsg, OtherType
  <2>2. Exchange({m}, {rsp})
    BY <1>13 DEF HandleAppendAccept
  <2> HIDE DEF rsp
  <2>3. SendsFrom(n, log[n])
    BY <1>reply, <2>1, <2>2
  <2>4. /\ m.type = "Append" /\ FollowSender(n, m) /\ ~BehindCommit(n, m)
        /\ LogConsistencyCheck(log[n], m.prevIndex, m.prevTerm)
        /\ Ready(n, l, CommitTo(l, committed[n], m.commit)) /\ UNCHANGED elected
    BY <1>13 DEF HandleAppendAccept
  <2>5. QED
    BY <1>3, <2>3, <2>4 DEF Accepts
<1>14. CASE HandleHeartbeatRsp(n, m)
  <2> DEFINE new == AppendMsg(n, m.from, term[n], nextIndex[n][m.from], log[n], committed[n])
             out == IF matchIndex[n][m.from] < LastIndex(log[n]) THEN {new} ELSE {}
  <2>1. /\ Exchange({m}, out) /\ state[n] = "Leader"
        /\ UNCHANGED <<term, state, log, committed, applied, elected>>
    BY <1>14 DEF HandleHeartbeatRsp
  <2>2. nextIndex[n][m.from] \in Nat \ {0}
    <3>1. nextIndex[n] \in [Server -> Nat \ {0}]
      BY DEF TypeOK
    <3>2. QED
      BY <3>1
  <2>3. out \subseteq {new}
    OBVIOUS
  <2> HIDE DEF out
  <2>4. SendsFrom(n, log[n])
    BY <2>1, <2>2, <2>3, OneAppend
  <2>5. QED
    BY <1>5, <2>1, <2>4 DEF LeavesLogs
<1>15. CASE HandleAppendSuccess(n, m)
  <2> DEFINE match == [matchIndex[n] EXCEPT ![m.from] = m.index]
             next  == IF pstate[n][m.from] = "Replicate"
                      THEN MaxOf(nextIndex[n][m.from], m.index + 1)
                      ELSE m.index + 1
             c     == MaybeCommit(n, log[n], match, committed[n], term[n])
             new   == AppendMsg(n, m.from, term[n], next, log[n], c)
             out   == IF m.index < LastIndex(log[n]) THEN {new} ELSE {}
  <2>1. /\ Exchange({m}, out) /\ state[n] = "Leader" /\ Ready(n, log[n], c)
        /\ UNCHANGED <<term, state, elected>>
    BY <1>15 DEF HandleAppendSuccess
  <2>2. c \in Nat /\ committed[n] <= c /\ (c > committed[n] => c <= Len(log[n]))
    BY MaybeCommitType
  <2>3. next \in Nat \ {0}
    <3>1. m.index \in Nat
      BY <1>15, MessageShape DEF HandleAppendSuccess, AppendRspMessage
    <3>2. nextIndex[n][m.from] \in Nat
      BY SMTT(30) DEF TypeOK
    <3>3. QED
      BY <3>1, <3>2 DEF MaxOf
  <2>4. out \subseteq {new}
    OBVIOUS
  <2> HIDE DEF out, c, next
  <2>5. SendsFrom(n, log[n])
    BY <2>1, <2>2, <2>3, <2>4, OneAppend
  <2>6. QED
    BY <1>5, <2>1, <2>2, <2>5 DEF Commits
<1>16. CASE HandleAppendRejected(n, m)
  <2> DEFINE p    == m.from
             next == MaybeDecrTo(n, p, m.index, m.conflict)
             new  == AppendMsg(n, p, term[n], next, log[n], committed[n])
             out  == IF pstate[n][p] = "Replicate" \/ next < nextIndex[n][p] THEN {new} ELSE {}
  <2>1. /\ Exchange({m}, out) /\ state[n] = "Leader"
        /\ UNCHANGED <<term, state, log, committed, applied, elected>>
    BY <1>16 DEF HandleAppendRejected
  <2>2. m.conflict \in Nat
    BY <1>16, MessageShape DEF HandleAppendRejected, AppendRspMessage
  <2>3. nextIndex[n][p] \in Nat \ {0} /\ matchIndex[n][p] \in Nat
    BY ZenonT(40) DEF TypeOK
  <2>4. next \in Nat \ {0}
    <3>1. MaxOf(m.conflict, 1) \in Nat \ {0}
      BY <2>2 DEF MaxOf
    <3>2. MinOf(nextIndex[n][p], MaxOf(m.conflict, 1)) \in Nat \ {0}
      BY <2>3, <3>1 DEF MinOf
    <3>3. matchIndex[n][p] + 1 \in Nat \ {0}
      BY <2>3
    <3>4. QED
      BY <2>3, <3>2, <3>3 DEF MaybeDecrTo
  <2>5. out \subseteq {new}
    OBVIOUS
  <2> HIDE DEF out, next
  <2>6. SendsFrom(n, log[n])
    BY <2>1, <2>4, <2>5, OneAppend
  <2>7. QED
    BY <1>5, <2>1, <2>6 DEF LeavesLogs
<1>17. CASE HandleForwardedProposal(n, m)
  <2>1. HandleProposal(n, m.cmd, {m}) /\ m.cmd \in Value
    BY <1>17, MessageShape DEF HandleForwardedProposal, ProposeMessage
  <2>2. QED
    BY <2>1, ProposalKind
<1>18. CASE ForwardProposal(n, m)
  <2>1. [m EXCEPT !.to = lead[n]].type \in OtherType
    BY <1>18, MessageShape DEF ForwardProposal, ProposeMessage, OtherType
  <2>2. Exchange({m}, {[m EXCEPT !.to = lead[n]]})
    BY <1>18 DEF ForwardProposal
  <2>3. SendsFrom(n, log[n])
    BY <1>reply, <2>1, <2>2
  <2>4. UNCHANGED <<term, state, log, committed, applied, elected>>
    BY <1>18 DEF ForwardProposal
  <2>5. QED
    BY <1>5, <2>3, <2>4 DEF LeavesLogs
<1>19. CASE ForwardHigherTermProposal(n, m)
  <2>1. [m EXCEPT !.to = m.from].type \in OtherType
    BY <1>19, MessageShape DEF ForwardHigherTermProposal, ProposeMessage, OtherType
  <2>2. Exchange({m}, {[m EXCEPT !.to = m.from]})
    BY <1>19 DEF ForwardHigherTermProposal
  <2>3. SendsFrom(n, log[n])
    BY <1>reply, <2>1, <2>2
  <2>4. /\ m.term > term[n] /\ term' = [term EXCEPT ![n] = m.term]
        /\ state' = [state EXCEPT ![n] = "Follower"]
        /\ UNCHANGED <<log, committed, applied, elected>>
    BY <1>19 DEF ForwardHigherTermProposal
  <2>5. QED
    BY <1>4, <2>3, <2>4 DEF LeavesLogs
<1>20. CASE HandleHigherTermRsp(n, m)
  BY <1>2, <1>4, <1>20 DEF HandleHigherTermRsp, LeavesLogs
<1>21. CASE Ignore(n, m)
  BY <1>2, <1>5, <1>21 DEF Ignore, LeavesLogs
<1>22. QED
  BY <1>6, <1>7, <1>8, <1>9, <1>10, <1>11, <1>12, <1>13, <1>14, <1>15, <1>16, <1>17, <1>18,
     <1>19, <1>20, <1>21 DEF Deliver

\* Every step is of one of the kinds.
LEMMA StepKinds ==
    ASSUME TypeOK, Next
    PROVE  \E n \in Server : \/ LeavesLogs(n) \/ Commits(n) \/ Accepts(n) \/ Proposes(n)
                             \/ TakesOver(n) \/ Restart(n)
<1> USE DEF serverVars, logVars, leaderVars, history
<1>1. ASSUME NEW n \in Server, Timeout(n) PROVE LeavesLogs(n) \/ TakesOver(n)
  <2> term[n] \in Nat /\ term[n] + 1 \in Nat /\ term[n] + 1 > term[n]
    BY DEF TypeOK
  <2>1. CASE Peers[n] = {}
    <3>1. /\ BecomeLeader(n, term[n] + 1) /\ state[n] # "Leader"
          /\ term' = [term EXCEPT ![n] = term[n] + 1] /\ UNCHANGED <<msgs, committed, applied>>
      BY <1>1, <2>1 DEF Timeout
    <3>2. SendsFrom(n, log[n])
      BY <3>1 DEF SendsFrom
    <3>3. QED
      BY <3>1, <3>2, TakeOverKind
  <2>2. CASE Peers[n] # {}
    <3> DEFINE out == {VoteMsg(n, p, term[n] + 1, log[n]) : p \in Peers[n]}
    <3>1. /\ Exchange({}, out) /\ UNCHANGED <<log, committed, applied, elected>>
          /\ term' = [term EXCEPT ![n] = term[n] + 1]
          /\ state' = [state EXCEPT ![n] = "Candidate"] /\ state[n] # "Leader"
      BY <1>1, <2>2 DEF Timeout
    <3>2. \A w \in out : w.type \in OtherType
      BY DEF VoteMsg, OtherType
    <3> HIDE DEF out
    <3>3. SendsFrom(n, log[n])
      BY <3>1, <3>2, ExchangeSends
    <3>4. Calm
      <4> SUFFICES ASSUME NEW p \in Server
                   PROVE  /\ term'[p] >= term[p]
                          /\ state'[p] = "Leader" => state[p] = "Leader" /\ term'[p] = term[p]
                          /\ state'[p] = "Candidate" => state[p] = "Candidate" \/ term'[p] > term[p]
                          /\ state[p] = "Leader" => state'[p] = "Leader"
        BY DEF Calm
      <4>1. CASE p = n
        <5>1. term'[p] = term[p] + 1 /\ state'[p] = "Candidate" /\ state[p] # "Leader"
          BY <3>1, <4>1 DEF TypeOK
        <5>2. QED
          BY <4>1, <5>1
      <4>2. CASE p # n
        <5>1. term'[p] = term[p] /\ state'[p] = state[p] /\ term[p] \in Nat
          BY <3>1, <4>2 DEF TypeOK
        <5>2. QED
          BY <5>1
      <4>3. QED
        BY <4>1, <4>2
    <3>5. QED
      BY <3>1, <3>3, <3>4 DEF LeavesLogs
  <2>3. QED
    BY <2>1, <2>2
<1>2. ASSUME NEW n \in Server, HeartbeatTimeout(n) PROVE LeavesLogs(n)
  <2> DEFINE out == {HeartbeatMsg(n, p, term[n], committed[n]) : p \in Peers[n]}
  <2>1. Exchange({}, out) /\ UNCHANGED <<term, state, log, committed, applied, elected>>
    BY <1>2 DEF HeartbeatTimeout
  <2>2. \A w \in out : w.type \in OtherType
    BY DEF HeartbeatMsg, OtherType
  <2> HIDE DEF out
  <2>3. SendsFrom(n, log[n])
    BY <2>1, <2>2, ExchangeSends
  <2>4. QED
    BY <2>1, <2>3, CalmSteps DEF LeavesLogs
<1>3. ASSUME NEW n \in Server, NEW v \in Value, ProposeAtLeader(n, v) PROVE Proposes(n)
  BY <1>3, ProposalKind DEF ProposeAtLeader
<1>4. ASSUME NEW n \in Server, NEW v \in Value, ProposeAtFollower(n, v) PROVE LeavesLogs(n)
  <2>1. ProposeMsg(n, lead[n], term[n], v).type \in OtherType
    BY DEF ProposeMsg, OtherType
  <2>2. SendsFrom(n, log[n])
    BY <1>4, <2>1, ExchangeSends DEF ProposeAtFollower
  <2>3. UNCHANGED <<term, state, log, committed, applied, elected>>
    BY <1>4 DEF ProposeAtFollower
  <2>4. QED
    BY <2>2, <2>3, CalmSteps DEF LeavesLogs
<1>5. ASSUME NEW m \in msgs, Lose(m) PROVE m.to \in Server /\ LeavesLogs(m.to)
  <2>1. m.to \in Server
    BY MessageShape DEF TypeOK
  <2>2. SendsFrom(m.to, log[m.to])
    BY <1>5, ExchangeSends DEF Lose
  <2>3. UNCHANGED <<term, state, log, committed, applied, elected>>
    BY <1>5 DEF Lose
  <2>4. QED
    BY <2>1, <2>2, <2>3, CalmSteps DEF LeavesLogs
<1>6. QED
  BY <1>1, <1>2, <1>3, <1>4, <1>5, DeliverKinds DEF Next

-----------------------------------------------------------------------------
(* What a node applies *)

GoodLogs == \A n \in Server : GoodLog(log[n])

GoodPieces == \A m \in msgs : m.type = "Append" => GoodPiece(m)

\* A node that campaigns or leads is in a term it began.
ContendersHaveTerm == \A n \in Server : state[n] # "Follower" => term[n] > 0

\* AppliedIsCommittedPrefix with what it needs: an append message that would cut
\* the log starts at or beyond its previous index, and that index is in the log.
LogInv ==
    /\ GoodLogs
    /\ GoodPieces
    /\ ContendersHaveTerm
    /\ AppliedIsCommittedPrefix

\* Processing a Ready applies exactly what was committed since the last one,
\* when the new log keeps the committed entries.
LEMMA ReadyApplies ==
    ASSUME TypeOK, AppliedIsCommittedPrefix, NEW n \in Server, NEW l \in Seq(Entry),
           NEW c \in Nat, Ready(n, l, c), committed[n] <= c, c <= Len(l),
           \A i \in 1..committed[n] : l[i] = log[n][i]
    PROVE  AppliedIsCommittedPrefix'
<1> DEFINE a == applied[n]
           k == committed[n]
           es == Entries(l, Len(a) + 1, c + 1)
<1>1. /\ k \in Nat /\ Len(a) = k /\ a \in Seq(Entry) /\ Len(l) \in Nat
      /\ \A i \in 1..k : a[i] = l[i]
  <2>1. k \in Nat /\ a \in Seq(Entry)
    BY DEF TypeOK
  <2>2. Len(a) = k /\ \A i \in 1..k : a[i] = log[n][i]
    BY DEF AppliedIsCommittedPrefix
  <2>3. QED
    BY <2>1, <2>2
<1>2. /\ Len(a) + 1 \in Nat \ {0} /\ c + 1 \in Nat /\ c + 1 >= Len(a) + 1
      /\ (c + 1) - 1 <= Len(l)
  BY <1>1
<1>3. /\ \A i \in 1..Len(es) :
           (Len(a) + 1) + i - 1 \in 1..Len(l) /\ es[i] = l[(Len(a) + 1) + i - 1]
      /\ Len(es) = (c + 1) - (Len(a) + 1)
      /\ es \in Seq(Entry)
  BY <1>2, EntriesPointwise, EntriesType
<1> HIDE DEF es
<1>4. Len(es) = c - k /\ \A i \in 1..(c - k) : es[i] = l[k + i]
  BY <1>1, <1>3
<1>5. /\ Len(a \o es) = k + (c - k)
      /\ \A i \in 1..(k + (c - k)) : (a \o es)[i] = IF i <= k THEN a[i] ELSE es[i - k]
  <2>1. /\ Len(a \o es) = Len(a) + Len(es)
        /\ \A i \in 1..(Len(a) + Len(es)) :
             (a \o es)[i] = IF i <= Len(a) THEN a[i] ELSE es[i - Len(a)]
    BY <1>1, <1>3, ConcatProperties, Zenon
  <2>2. QED
    BY <1>1, <1>4, <2>1, Zenon
<1>6. Len(a \o es) = c /\ \A i \in 1..c : (a \o es)[i] = l[i]
  <2>1. Len(a \o es) = c
    BY <1>1, <1>5
  <2>2. ASSUME NEW i \in 1..c PROVE (a \o es)[i] = l[i]
    <3>1. i \in 1..(k + (c - k)) /\ k + (c - k) = c
      BY <1>1
    <3>2. CASE i <= k
      <4>1. i \in 1..k
        BY <1>1, <3>2
      <4>2. QED
        BY <1>1, <1>5, <3>1, <3>2, <4>1
    <3>3. CASE ~(i <= k)
      <4>1. i - k \in 1..(c - k) /\ k + (i - k) = i
        BY <1>1, <3>3
      <4>2. QED
        BY <1>4, <1>5, <3>1, <3>3, <4>1
    <3>4. QED
      BY <3>2, <3>3
  <2>3. QED
    BY <2>1, <2>2
<1>7. /\ log' = [log EXCEPT ![n] = l] /\ committed' = [committed EXCEPT ![n] = c]
      /\ applied' = [applied EXCEPT ![n] = a \o es]
  BY DEF Ready, es
<1>8. ASSUME NEW p \in Server
      PROVE  /\ committed'[p] <= Len(log'[p])
             /\ Len(applied'[p]) = committed'[p]
             /\ \A i \in 1..committed'[p] : applied'[p][i] = log'[p][i]
  <2>1. CASE p = n
    <3>1. log'[p] = l /\ committed'[p] = c /\ applied'[p] = a \o es
      BY <1>7, <2>1 DEF TypeOK
    <3>2. QED
      BY <1>6, <3>1
  <2>2. CASE p # n
    <3>1. log'[p] = log[p] /\ committed'[p] = committed[p] /\ applied'[p] = applied[p]
      BY <1>7, <2>2 DEF TypeOK
    <3>2. QED
      BY <3>1 DEF AppliedIsCommittedPrefix
  <2>3. QED
    BY <2>1, <2>2
<1>9. QED
  BY <1>8 DEF AppliedIsCommittedPrefix

\* A log that keeps the committed entries, and a commit index that moves forward
\* inside it.
LEMMA ReadyLogInv ==
    ASSUME TypeOK, LogInv, NEW n \in Server, NEW l \in Seq(Entry),
           NEW c \in Nat, Ready(n, l, c), committed[n] <= c, c <= Len(l), GoodLog(l),
           \A i \in 1..committed[n] : l[i] = log[n][i]
    PROVE  GoodLogs' /\ AppliedIsCommittedPrefix'
<1>1. AppliedIsCommittedPrefix'
  BY ReadyApplies DEF LogInv
<1>2. ASSUME NEW p \in Server PROVE GoodLog(log'[p])
  BY DEF Ready, TypeOK, LogInv, GoodLogs
<1>3. QED
  BY <1>1, <1>2 DEF GoodLogs

\* What is sent from a good log is good.
LEMMA SendsGood ==
    ASSUME GoodPieces, NEW n, NEW l \in Seq(Entry), GoodLog(l), SendsFrom(n, l)
    PROVE  GoodPieces'
<1> SUFFICES ASSUME NEW w \in msgs', w.type = "Append" PROVE GoodPiece(w)
  BY DEF GoodPieces
<1>1. CASE w \in msgs
  BY <1>1 DEF GoodPieces
<1>2. CASE w.entries = <<>> /\ w.prevIndex = 0
  BY <1>2 DEF GoodPiece
<1>3. ASSUME NEW p \in Server, NEW next \in Nat \ {0}, NEW c \in Nat,
             w = AppendMsg(n, p, term[n], next, l, c)
      PROVE  GoodPiece(w)
  BY <1>3, AppendMsgGood
<1>4. QED
  BY <1>1, <1>2, <1>3 DEF SendsFrom

LEMMA CalmTerms ==
    ASSUME TypeOK, TypeOK', ContendersHaveTerm, Calm
    PROVE  ContendersHaveTerm'
<1> SUFFICES ASSUME NEW p \in Server, state'[p] # "Follower" PROVE term'[p] > 0
  BY DEF ContendersHaveTerm
<1>1. /\ term[p] \in Nat /\ term'[p] \in Nat
      /\ state[p] \in {"Follower", "Candidate", "Leader"}
      /\ state'[p] \in {"Follower", "Candidate", "Leader"}
  BY DEF TypeOK
<1>2. term'[p] >= term[p]
  BY DEF Calm
<1>3. state[p] # "Follower" \/ term'[p] > term[p]
  BY <1>1 DEF Calm
<1>4. state[p] # "Follower" => term[p] > 0
  BY DEF ContendersHaveTerm
<1>5. QED
  BY <1>1, <1>2, <1>3, <1>4

\* Every step keeps the invariant of the logs.
LEMMA LogStep == TypeOK /\ TypeOK' /\ LogInv /\ [Next]_vars => LogInv'
<1> SUFFICES ASSUME TypeOK, TypeOK', LogInv, [Next]_vars PROVE LogInv'
  OBVIOUS
<1>1. /\ GoodLogs /\ GoodPieces /\ ContendersHaveTerm /\ AppliedIsCommittedPrefix
  BY DEF LogInv
<1>2. ASSUME NEW n \in Server
      PROVE  /\ log[n] \in Seq(Entry) /\ GoodLog(log[n]) /\ Len(log[n]) \in Nat
             /\ committed[n] \in Nat /\ committed[n] <= Len(log[n])
  <2>1. log[n] \in Seq(Entry) /\ committed[n] \in Nat
    BY DEF TypeOK
  <2>2. GoodLog(log[n]) /\ committed[n] <= Len(log[n])
    BY <1>1 DEF GoodLogs, AppliedIsCommittedPrefix
  <2>3. QED
    BY <2>1, <2>2
<1>3. ASSUME NEW n \in Server, LeavesLogs(n) PROVE LogInv'
  <2>1. GoodPieces' /\ ContendersHaveTerm'
    BY <1>1, <1>2, <1>3, SendsGood, CalmTerms DEF LeavesLogs
  <2>2. GoodLogs' /\ AppliedIsCommittedPrefix'
    BY <1>1, <1>3 DEF LeavesLogs, GoodLogs, AppliedIsCommittedPrefix
  <2>3. QED
    BY <2>1, <2>2 DEF LogInv
<1>4. ASSUME NEW n \in Server, Commits(n) PROVE LogInv'
  <2>1. PICK c \in Nat : /\ committed[n] <= c /\ (c > committed[n] => c <= Len(log[n]))
                         /\ Ready(n, log[n], c)
    BY <1>4 DEF Commits
  <2>2. GoodPieces' /\ ContendersHaveTerm'
    BY <1>1, <1>2, <1>4, SendsGood, CalmTerms DEF Commits
  <2>3. c <= Len(log[n])
    BY <1>2, <2>1
  <2>4. GoodLogs' /\ AppliedIsCommittedPrefix'
    BY <1>2, <2>1, <2>3, ReadyLogInv
  <2>5. QED
    BY <2>2, <2>4 DEF LogInv
<1>5. ASSUME NEW n \in Server, Accepts(n) PROVE LogInv'
  <2>1. PICK m \in msgs :
          /\ m.type = "Append" /\ ~BehindCommit(n, m)
          /\ LogConsistencyCheck(log[n], m.prevIndex, m.prevTerm)
          /\ Ready(n, AppendEntries(log[n], m.entries),
                   CommitTo(AppendEntries(log[n], m.entries), committed[n], m.commit))
    BY <1>5 DEF Accepts
  <2> DEFINE l == AppendEntries(log[n], m.entries)
             c == CommitTo(l, committed[n], m.commit)
  <2>2. m \in AppendMessage /\ GoodPiece(m)
    BY <1>1, <2>1, MessageShape DEF TypeOK, GoodPieces
  <2>3. m.entries \in Seq(Entry) /\ m.prevIndex \in Nat /\ m.commit \in Nat
    BY <2>2 DEF AppendMessage
  <2>4. l \in Seq(Entry) /\ Len(l) \in Nat
    BY <1>2, <2>3, AppendEntriesType
  <2>5. committed[n] <= m.prevIndex
    BY <1>2, <2>1, <2>3 DEF BehindCommit
  <2>6. /\ GoodLog(l) /\ committed[n] <= Len(l)
        /\ \A i \in 1..committed[n] : l[i] = log[n][i]
    BY <1>2, <2>1, <2>2, <2>5, AppendEntriesGood
  <2>7. Ready(n, l, c)
    BY <2>1
  <2> HIDE DEF l
  <2>8. c \in Nat /\ committed[n] <= c /\ c <= Len(l)
    BY <1>2, <2>3, <2>4, <2>6 DEF CommitTo, MaxOf, MinOf, LastIndex
  <2> HIDE DEF c
  <2>9. GoodLogs' /\ AppliedIsCommittedPrefix'
    BY <2>4, <2>6, <2>7, <2>8, ReadyLogInv
  <2>10. GoodPieces' /\ ContendersHaveTerm'
    BY <1>1, <1>2, <1>5, SendsGood, CalmTerms DEF Accepts
  <2>11. QED
    BY <2>9, <2>10 DEF LogInv
<1>6. ASSUME NEW n \in Server, Proposes(n) PROVE LogInv'
  <2>1. PICK v \in Value, c \in Nat :
          /\ SendsFrom(n, AppendOne(log[n], term[n], v))
          /\ committed[n] <= c
          /\ c > committed[n] => c <= Len(AppendOne(log[n], term[n], v))
          /\ Ready(n, AppendOne(log[n], term[n], v), c)
    BY <1>6 DEF Proposes
  <2> DEFINE l == AppendOne(log[n], term[n], v)
  <2>2. term[n] \in Nat /\ term[n] > 0
    BY <1>1, <1>6 DEF Proposes, ContendersHaveTerm, TypeOK
  <2>3. /\ l \in Seq(Entry) /\ GoodLog(l) /\ Len(l) = Len(log[n]) + 1
        /\ \A i \in 1..Len(log[n]) : l[i] = log[n][i]
    BY <1>2, <2>2, AppendOnePointwise, AppendOneGood
  <2>4. SendsFrom(n, l) /\ Ready(n, l, c) /\ (c > committed[n] => c <= Len(l))
    BY <2>1
  <2> HIDE DEF l
  <2>5. c <= Len(l) /\ \A i \in 1..committed[n] : i \in 1..Len(log[n])
    BY <1>2, <2>1, <2>3, <2>4
  <2>6. GoodLogs' /\ AppliedIsCommittedPrefix'
    BY <2>1, <2>3, <2>4, <2>5, ReadyLogInv
  <2>7. GoodPieces' /\ ContendersHaveTerm'
    BY <1>1, <1>6, <2>3, <2>4, SendsGood, CalmTerms DEF Proposes
  <2>8. QED
    BY <2>6, <2>7 DEF LogInv
<1>7. ASSUME NEW n \in Server, TakesOver(n) PROVE LogInv'
  <2> DEFINE l == AppendOne(log[n], term'[n], Noop)
  <2>1. term'[n] \in Nat /\ term'[n] > 0
    <3>1. term[n] \in Nat /\ term'[n] \in Nat
      BY DEF TypeOK
    <3>2. term'[n] > term[n] \/ (term'[n] = term[n] /\ state[n] = "Candidate")
      BY <1>7 DEF TakesOver
    <3>3. state[n] = "Candidate" => term[n] > 0
      BY <1>1 DEF ContendersHaveTerm
    <3>4. QED
      BY <3>1, <3>2, <3>3
  <2>2. /\ GoodLog(l) /\ Len(l) = Len(log[n]) + 1
        /\ \A i \in 1..Len(log[n]) : l[i] = log[n][i]
    BY <1>2, <2>1, AppendOnePointwise, AppendOneGood
  <2>3. log' = [log EXCEPT ![n] = l] /\ UNCHANGED <<committed, applied>>
    BY <1>7 DEF TakesOver
  <2> HIDE DEF l
  <2>4. ASSUME NEW p \in Server
        PROVE  /\ GoodLog(log'[p]) /\ committed'[p] <= Len(log'[p])
               /\ \A i \in 1..committed'[p] : log'[p][i] = log[p][i]
    <3>1. CASE p = n
      <4>1. log'[p] = l
        BY <2>3, <3>1 DEF TypeOK
      <4>2. \A i \in 1..committed[n] : i \in 1..Len(log[n])
        BY <1>2
      <4>3. committed[n] <= Len(l)
        BY <1>2, <2>2
      <4>4. QED
        BY <2>2, <2>3, <3>1, <4>1, <4>2, <4>3
    <3>2. CASE p # n
      <4>1. log'[p] = log[p]
        BY <2>3, <3>2 DEF TypeOK
      <4>2. QED
        BY <1>2, <2>3, <4>1
    <3>3. QED
      BY <3>1, <3>2
  <2>5. GoodLogs' /\ AppliedIsCommittedPrefix'
    BY <1>1, <2>3, <2>4 DEF GoodLogs, AppliedIsCommittedPrefix
  <2>6. GoodPieces'
    BY <1>1, <1>2, <1>7, SendsGood DEF TakesOver
  <2>7. ContendersHaveTerm'
    <3>1. \A p \in Server \ {n} : term'[p] = term[p] /\ state'[p] = state[p]
      BY <1>7 DEF TakesOver
    <3>2. QED
      BY <1>1, <2>1, <3>1 DEF ContendersHaveTerm
  <2>8. QED
    BY <2>5, <2>6, <2>7 DEF LogInv
<1>8. ASSUME NEW n \in Server, Restart(n) PROVE LogInv'
  <2>1. GoodPieces'
    BY <1>1, <1>8 DEF Restart, GoodPieces
  <2>2. ContendersHaveTerm'
    BY <1>1, <1>8 DEF Restart, ContendersHaveTerm, TypeOK
  <2>3. ASSUME NEW p \in Server
        PROVE  /\ GoodLog(log'[p]) /\ committed'[p] <= Len(log'[p])
               /\ Len(applied'[p]) = committed'[p]
               /\ \A i \in 1..committed'[p] : applied'[p][i] = log'[p][i]
    <3>1. CASE p = n
      <4>1. log'[p] = <<>> /\ applied'[p] = <<>> /\ committed'[p] = 0
        BY <1>8, <3>1 DEF Restart, TypeOK
      <4>2. QED
        BY <4>1, EmptySeq DEF GoodLog
    <3>2. CASE p # n
      <4>1. log'[p] = log[p] /\ applied'[p] = applied[p] /\ committed'[p] = committed[p]
        BY <1>8, <3>2 DEF Restart, TypeOK
      <4>2. QED
        BY <1>1, <4>1 DEF GoodLogs, AppliedIsCommittedPrefix
    <3>3. QED
      BY <3>1, <3>2
  <2>4. GoodLogs' /\ AppliedIsCommittedPrefix'
    BY <2>3 DEF GoodLogs, AppliedIsCommittedPrefix
  <2>5. QED
    BY <2>1, <2>2, <2>4 DEF LogInv
<1>9. CASE UNCHANGED vars
  BY <1>1, <1>9 DEF vars, serverVars, logVars, LogInv, GoodLogs, GoodPieces, ContendersHaveTerm,
     AppliedIsCommittedPrefix
<1>10. QED
  BY <1>3, <1>4, <1>5, <1>6, <1>7, <1>8, <1>9, StepKinds

LEMMA LogInvHolds == Spec => [](TypeOK /\ LogInv)
<1>1. Init => LogInv
  BY EmptySeq DEF Init, LogInv, GoodLogs, GoodLog, GoodPieces, ContendersHaveTerm,
     AppliedIsCommittedPrefix
<1>2. QED
  BY <1>1, LogStep, TypeCorrect, PTL DEF Spec

\* Whatever is lost, reordered or restarted, over either transport and for any
\* peer lists, a node applies exactly the committed prefix of its log, in order:
\* no applied entry is ever cut off or rewritten, skipped or applied twice.
THEOREM AppliedIsPrefix == Spec => []AppliedIsCommittedPrefix
<1>1. LogInv => AppliedIsCommittedPrefix
  BY DEF LogInv
<1>2. QED
  BY <1>1, LogInvHolds, PTL

-----------------------------------------------------------------------------
(* Log matching.  Every entry of term t was appended by the one leader of t, so *)
(* there is, for every term, one log L[t] (the leader's, as far as it got) of   *)
(* which every log and every append message holds pieces.                       *)

\* Up to any of its entries, l is the log of the leader of that entry's term.
Rooted(l, L) ==
    \A i \in 1..Len(l) : /\ i <= Len(L[l[i].term])
                         /\ \A j \in 1..i : l[j] = L[l[i].term][j]

\* The message holds a stretch of l and names the entry before it.
PieceOf(m, l) ==
    /\ \A k \in 1..Len(m.entries) :
         m.prevIndex + k <= Len(l) /\ m.entries[k] = l[m.prevIndex + k]
    /\ Len(m.entries) > 0 /\ m.prevIndex > 0 => m.prevTerm = l[m.prevIndex].term

\* Logs of leaders only grow.
Grows(L, R) ==
    \A t \in Nat : /\ Len(L[t]) <= Len(R[t])
                   /\ \A j \in 1..Len(L[t]) : R[t][j] = L[t][j]

LeaderLogs == [Nat -> Seq(Entry)]

\* A term without a leader has no entries.
OnlyElected(L) == \A t \in Nat : (\A w \in elected : w.term # t) => Len(L[t]) = 0

LeadersRoot(L) ==
    \A n \in Server : state[n] = "Leader" =>
        log[n] = L[term[n]] /\ [term |-> term[n], node |-> n] \in elected

LogsRooted(L) == \A n \in Server : Rooted(log[n], L)

RootsRooted(L) == \A t \in Nat : Rooted(L[t], L)

PiecesOf(L) == \A m \in msgs : m.type = "Append" => PieceOf(m, L[m.term])

\* Who won the election of its present term is still leading.
WinnersLead ==
    \A w \in elected : /\ w.term <= term[w.node]
                       /\ w.term = term[w.node] => state[w.node] = "Leader"

MatchInv(L) ==
    /\ OnlyElected(L)
    /\ LeadersRoot(L)
    /\ LogsRooted(L)
    /\ RootsRooted(L)
    /\ PiecesOf(L)

\* The invariant: some history of leaders' logs explains every log and message.
MatchInvHolds == WinnersLead /\ \E L \in LeaderLogs : MatchInv(L)

LEMMA GrowRooted ==
    ASSUME NEW L \in LeaderLogs, NEW R \in LeaderLogs, Grows(L, R),
           NEW l \in Seq(Entry), Rooted(l, L)
    PROVE  Rooted(l, R)
<1> SUFFICES ASSUME NEW i \in 1..Len(l)
             PROVE  /\ i <= Len(R[l[i].term])
                    /\ \A j \in 1..i : l[j] = R[l[i].term][j]
  BY DEF Rooted
<1> DEFINE t == l[i].term
<1>1. t \in Nat /\ i \in Nat
  <2>1. l[i] \in Entry /\ i \in Nat
    OBVIOUS
  <2>2. QED
    BY <2>1 DEF Entry
<1>2. L[t] \in Seq(Entry) /\ R[t] \in Seq(Entry)
  BY <1>1 DEF LeaderLogs
<1>3. i <= Len(L[t]) /\ \A j \in 1..i : l[j] = L[t][j]
  BY DEF Rooted
<1>4. Len(L[t]) <= Len(R[t]) /\ \A j \in 1..Len(L[t]) : R[t][j] = L[t][j]
  BY <1>1 DEF Grows
<1> HIDE DEF t
<1>5. Len(L[t]) \in Nat /\ Len(R[t]) \in Nat
  BY <1>2
<1>6. \A j \in 1..i : j \in 1..Len(L[t])
  BY <1>1, <1>3, <1>5
<1>7. i <= Len(R[t]) /\ \A j \in 1..i : l[j] = R[t][j]
  BY <1>1, <1>3, <1>4, <1>5, <1>6
<1>8. QED
  BY <1>7 DEF t

LEMMA GrowPiece ==
    ASSUME NEW L \in LeaderLogs, NEW R \in LeaderLogs, Grows(L, R),
           NEW m \in AppendMessage, PieceOf(m, L[m.term])
    PROVE  PieceOf(m, R[m.term])
<1> DEFINE t == m.term
           prev == m.prevIndex
<1>1. t \in Nat /\ prev \in Nat /\ m.entries \in Seq(Entry) /\ Len(m.entries) \in Nat
  BY DEF AppendMessage
<1>2. Len(L[t]) \in Nat /\ Len(R[t]) \in Nat
  <2>1. L[t] \in Seq(Entry) /\ R[t] \in Seq(Entry)
    BY <1>1 DEF LeaderLogs
  <2>2. QED
    BY <2>1
<1>3. Len(L[t]) <= Len(R[t]) /\ \A j \in 1..Len(L[t]) : R[t][j] = L[t][j]
  BY <1>1 DEF Grows
<1>4. ASSUME NEW k \in 1..Len(m.entries)
      PROVE  prev + k <= Len(R[t]) /\ m.entries[k] = R[t][prev + k]
  <2>1. prev + k <= Len(L[t]) /\ m.entries[k] = L[t][prev + k]
    BY DEF PieceOf
  <2>2. prev + k \in 1..Len(L[t])
    BY <1>1, <1>2, <2>1
  <2>3. QED
    BY <1>1, <1>2, <1>3, <2>1, <2>2
<1>5. ASSUME Len(m.entries) > 0, prev > 0 PROVE m.prevTerm = R[t][prev].term
  <2>1. 1 \in 1..Len(m.entries)
    BY <1>1, <1>5
  <2>2. prev + 1 <= Len(L[t])
    BY <2>1 DEF PieceOf
  <2>3. prev \in 1..Len(L[t])
    BY <1>1, <1>2, <1>5, <2>2
  <2>4. m.prevTerm = L[t][prev].term
    BY <1>5 DEF PieceOf
  <2>5. QED
    BY <1>3, <2>3, <2>4
<1>6. QED
  BY <1>4, <1>5 DEF PieceOf

\* Every append message cut from a log is a piece of it.
LEMMA AppendMsgPiece ==
    ASSUME NEW n, NEW p, NEW t, NEW next \in Nat \ {0}, NEW l \in Seq(Entry), NEW c
    PROVE  PieceOf(AppendMsg(n, p, t, next, l, c), l)
<1> DEFINE m == AppendMsg(n, p, t, next, l, c)
           es == Entries(l, next, next + MaxEntriesToSend)
<1>1. m.prevIndex = next - 1 /\ m.prevTerm = Term(l, next - 1) /\ m.entries = es
  BY DEF AppendMsg
<1>2. next + MaxEntriesToSend \in Nat
  BY BoundAssumption
<1>3. /\ Len(es) \in Nat
      /\ \A i \in 1..Len(es) : next + i - 1 \in 1..Len(l) /\ es[i] = l[next + i - 1]
  BY <1>2, EntriesPointwise
<1> HIDE DEF es, m
<1>4. \A i \in 1..Len(es) : (next - 1) + i <= Len(l) /\ es[i] = l[(next - 1) + i]
  <2>1. \A i \in 1..Len(es) : (next - 1) + i = next + i - 1
    BY <1>3
  <2>2. QED
    BY <1>3, <2>1
<1>5. Len(es) > 0 /\ next - 1 > 0 => Term(l, next - 1) = l[next - 1].term
  <2>1. ASSUME Len(es) > 0, next - 1 > 0 PROVE Term(l, next - 1) = l[next - 1].term
    <3>1. next - 1 \in 1..Len(l)
      <4>1. 1 \in 1..Len(es)
        BY <1>3, <2>1
      <4>2. next + 1 - 1 \in 1..Len(l)
        BY <1>3, <4>1
      <4>3. QED
        BY <2>1, <4>2
    <3>2. QED
      BY <3>1 DEF Term
  <2>2. QED
    BY <2>1
<1>6. QED
  BY <1>1, <1>4, <1>5 DEF PieceOf, m

\* What a leader sends from its log is a piece of the log of its term.
LEMMA SendsPieces ==
    ASSUME NEW L \in LeaderLogs, TypeOK, NEW n \in Server, NEW l \in Seq(Entry), SendsFrom(n, l),
           state[n] = "Leader" => l = L[term[n]], PiecesOf(L)
    PROVE  PiecesOf(L)'
<1> SUFFICES ASSUME NEW w \in msgs', w.type = "Append" PROVE PieceOf(w, L[w.term])
  BY DEF PiecesOf
<1>1. CASE w \in msgs
  BY <1>1 DEF PiecesOf
<1>2. CASE w.entries = <<>> /\ w.prevIndex = 0
  BY <1>2 DEF PieceOf
<1>3. ASSUME state[n] = "Leader", NEW p \in Server, NEW next \in Nat \ {0}, NEW c \in Nat,
             w = AppendMsg(n, p, term[n], next, l, c)
      PROVE  PieceOf(w, L[w.term])
  <2>1. PieceOf(w, l)
    BY <1>3, AppendMsgPiece
  <2>2. w.term = term[n]
    BY <1>3 DEF AppendMsg
  <2>3. QED
    BY <1>3, <2>1, <2>2
<1>4. QED
  BY <1>1, <1>2, <1>3 DEF SendsFrom

\* A follower that accepts a piece of a leader's log is left with its own log,
\* or with the leader's up to the last entry of the piece.
LEMMA AcceptRooted ==
    ASSUME NEW L \in LeaderLogs, RootsRooted(L), NEW l \in Seq(Entry), Rooted(l, L), GoodLog(l),
           NEW m \in AppendMessage, GoodPiece(m), PieceOf(m, L[m.term]),
           LogConsistencyCheck(l, m.prevIndex, m.prevTerm)
    PROVE  Rooted(AppendEntries(l, m.entries), L)
<1> DEFINE r == AppendEntries(l, m.entries)
           prev == m.prevIndex
           es == m.entries
           T == L[m.term]
<1>1. /\ es \in Seq(Entry) /\ prev \in Nat /\ Len(es) \in Nat /\ m.term \in Nat
      /\ Len(l) \in Nat
  BY DEF AppendMessage
<1>2. T \in Seq(Entry) /\ Len(T) \in Nat /\ Rooted(T, L)
  BY <1>1 DEF LeaderLogs, RootsRooted
<1>3. CASE r = l
  BY <1>3
<1>4. CASE r # l
  <2>1. Len(es) > 0
    <3>1. Len(es) = 0 => r = l
      BY DEF AppendEntries
    <3>2. QED
      BY <1>1, <1>4, <3>1
  <2>2. prev \in 0..Len(l)
    BY <2>1, AppendEntriesGood
  <2>3. \A i \in 1..Len(es) : es[i].index = prev + i
    BY DEF GoodPiece
  <2>4. /\ Len(r) = prev + Len(es)
        /\ \E cut \in prev..Len(l) :
             /\ cut < prev + Len(es)
             /\ \A j \in 1..cut : r[j] = l[j]
             /\ \A j \in (cut + 1)..(prev + Len(es)) : r[j] = es[j - prev]
             /\ cut > prev => l[cut].term = es[cut - prev].term
    BY <1>1, <1>4, <2>2, <2>3, AppendEntriesPointwise, ZenonT(40)
  <2>5. PICK cut \in prev..Len(l) :
             /\ cut < prev + Len(es)
             /\ \A j \in 1..cut : r[j] = l[j]
             /\ \A j \in (cut + 1)..(prev + Len(es)) : r[j] = es[j - prev]
             /\ cut > prev => l[cut].term = es[cut - prev].term
    BY <2>4
  <2>6. /\ \A k \in 1..Len(es) : prev + k <= Len(T) /\ es[k] = T[prev + k]
        /\ prev > 0 => m.prevTerm = T[prev].term
    BY <2>1 DEF PieceOf
  <2> HIDE DEF r, T, es
  <2>7. prev + Len(es) <= Len(T) /\ cut \in Nat /\ cut <= Len(T)
    <3>1. Len(es) \in 1..Len(es)
      BY <1>1, <2>1
    <3>2. prev + Len(es) <= Len(T)
      BY <2>6, <3>1
    <3>3. QED
      BY <1>1, <1>2, <2>2, <2>5, <3>2
  <2>8. cut > 0 => l[cut].term = T[cut].term
    <3>1. CASE cut > prev
      <4>1. cut - prev \in 1..Len(es) /\ prev + (cut - prev) = cut
        BY <1>1, <2>5, <2>7, <3>1
      <4>2. es[cut - prev] = T[cut]
        BY <2>6, <4>1
      <4>3. QED
        BY <2>5, <3>1, <4>2
    <3>2. CASE cut = prev /\ cut > 0
      <4>1. cut \in 1..Len(l) /\ prev # 0
        BY <1>1, <2>5, <2>7, <3>2
      <4>2. Term(l, prev) = m.prevTerm
        BY <4>1 DEF LogConsistencyCheck
      <4>3. Term(l, prev) = l[cut].term
        BY <3>2, <4>1 DEF Term
      <4>4. QED
        BY <2>6, <3>2, <4>2, <4>3
    <3>3. QED
      BY <1>1, <2>5, <2>7, <3>1, <3>2
  <2>9. \A j \in 1..cut : l[j] = T[j]
    <3>1. CASE cut = 0
      BY <3>1
    <3>2. CASE cut > 0
      <4>1. cut \in 1..Len(l) /\ cut \in 1..Len(T)
        BY <1>1, <1>2, <2>5, <2>7, <3>2
      <4>2. \A j \in 1..cut : l[j] = L[l[cut].term][j]
        BY <4>1 DEF Rooted
      <4>3. \A j \in 1..cut : T[j] = L[T[cut].term][j]
        BY <1>2, <4>1 DEF Rooted
      <4>4. l[cut].term = T[cut].term
        BY <2>8, <3>2
      <4>5. QED
        BY <4>2, <4>3, <4>4
    <3>3. QED
      BY <2>7, <3>1, <3>2
  <2>10. \A j \in 1..Len(r) : r[j] = T[j]
    <3>1. ASSUME NEW j \in 1..Len(r) PROVE r[j] = T[j]
      <4>1. CASE j <= cut
        <5>1. j \in 1..cut
          BY <2>7, <4>1
        <5>2. QED
          BY <2>5, <2>9, <5>1
      <4>2. CASE j > cut
        <5>1. /\ j \in (cut + 1)..(prev + Len(es)) /\ j - prev \in 1..Len(es)
              /\ prev + (j - prev) = j
          BY <1>1, <2>4, <2>5, <2>7, <4>2
        <5>2. r[j] = es[j - prev]
          BY <2>5, <5>1
        <5>3. es[j - prev] = T[j]
          BY <2>6, <5>1
        <5>4. QED
          BY <5>2, <5>3
      <4>3. QED
        BY <1>1, <2>7, <4>1, <4>2
    <3>2. QED
      BY <3>1
  <2>11. ASSUME NEW i \in 1..Len(r)
         PROVE  i <= Len(L[r[i].term]) /\ \A j \in 1..i : r[j] = L[r[i].term][j]
    <3>1. Len(r) \in Nat /\ Len(r) <= Len(T)
      BY <1>1, <2>4, <2>7
    <3>2. i \in 1..Len(T) /\ \A j \in 1..i : j \in 1..Len(r)
      BY <1>2, <3>1
    <3>3. i <= Len(L[T[i].term]) /\ \A j \in 1..i : T[j] = L[T[i].term][j]
      BY <1>2, <3>2 DEF Rooted
    <3>4. r[i] = T[i] /\ \A j \in 1..i : r[j] = T[j]
      BY <2>10, <3>2
    <3>5. QED
      BY <3>3, <3>4
  <2>12. Rooted(r, L)
    BY <2>11 DEF Rooted
  <2>13. QED
    BY <2>12 DEF r
<1>5. QED
  BY <1>3, <1>4

\* A leader grants no vote, having voted for itself; so it keeps its term.
LEMMA LeadersKeepTerm ==
    ASSUME TypeOK, ElectionInv, Calm, NEW p \in Server, state'[p] = "Leader"
    PROVE  state[p] = "Leader" /\ term'[p] = term[p]
<1>1. state[p] = "Leader" /\ (term'[p] = term[p] \/ \E m \in msgs : GrantVote(p, m))
  BY DEF Calm
<1>2. ASSUME NEW m \in msgs, GrantVote(p, m) PROVE FALSE
  <2>1. vote[p] = p
    BY <1>1 DEF ElectionInv, CandidatesVoteForThemselves
  <2>2. p # Nil
    BY ServerAssumption
  <2>3. m.type = "Vote" /\ m.to = p /\ vote[p] = m.from
    BY <1>2, <2>1, <2>2 DEF GrantVote, CanVote
  <2>4. QED
    BY <2>1, <2>3 DEF ElectionInv, RequestsGoToOthers
<1>3. QED
  BY <1>1, <1>2

LEMMA CalmWinners ==
    ASSUME TypeOK, TypeOK', WinnersLead, Calm, UNCHANGED elected
    PROVE  WinnersLead'
<1> SUFFICES ASSUME NEW w \in elected
             PROVE  /\ w.term <= term'[w.node]
                    /\ w.term = term'[w.node] => state'[w.node] = "Leader"
  BY DEF WinnersLead
<1>1. w.node \in Server /\ w.term \in Nat /\ term[w.node] \in Nat /\ term'[w.node] \in Nat
  BY DEF TypeOK, Win
<1>2. w.term <= term[w.node] /\ (w.term = term[w.node] => state[w.node] = "Leader")
  BY DEF WinnersLead
<1>3. /\ term'[w.node] >= term[w.node]
      /\ state[w.node] = "Leader" /\ term'[w.node] = term[w.node] => state'[w.node] = "Leader"
  BY <1>1 DEF Calm
<1>4. w.term <= term'[w.node]
  BY <1>1, <1>2, <1>3
<1>5. ASSUME w.term = term'[w.node] PROVE state'[w.node] = "Leader"
  <2>1. term'[w.node] = term[w.node] /\ w.term = term[w.node]
    BY <1>1, <1>2, <1>3, <1>5
  <2>2. QED
    BY <1>2, <1>3, <2>1
<1>6. QED
  BY <1>4, <1>5

\* Calm steps in which no leader's log changes keep the leaders' logs as roots.
LEMMA CalmRoots ==
    ASSUME TypeOK, ElectionInv, Calm, UNCHANGED elected, NEW L, LeadersRoot(L), OnlyElected(L),
           \A p \in Server : state'[p] = "Leader" => log'[p] = log[p]
    PROVE  LeadersRoot(L)' /\ OnlyElected(L)'
<1>1. \A p \in Server : state'[p] = "Leader" => state[p] = "Leader" /\ term'[p] = term[p]
  BY LeadersKeepTerm
<1>2. LeadersRoot(L)'
  BY <1>1 DEF LeadersRoot
<1>3. OnlyElected(L)'
  BY DEF OnlyElected
<1>4. QED
  BY <1>2, <1>3

\* The leader of term t, whose log was l, extends or begins the log of its term.
Extends(L, R, t, l, cmd) ==
    /\ L \in LeaderLogs /\ RootsRooted(L)
    /\ t \in Nat /\ l \in Seq(Entry) /\ cmd \in Value \cup {Noop}
    /\ Rooted(l, L)
    /\ Len(L[t]) = 0 \/ L[t] = l
    /\ R = [L EXCEPT ![t] = AppendOne(l, t, cmd)]

LEMMA ExtendRoot ==
    ASSUME NEW L, NEW R, NEW t, NEW l, NEW cmd, Extends(L, R, t, l, cmd)
    PROVE  /\ R \in LeaderLogs /\ Grows(L, R) /\ RootsRooted(R)
           /\ R[t] = AppendOne(l, t, cmd) /\ Rooted(AppendOne(l, t, cmd), R)
           /\ \A u \in Nat \ {t} : R[u] = L[u]
<1> DEFINE r == AppendOne(l, t, cmd)
<1> USE DEF Extends
<1>1. /\ r \in Seq(Entry) /\ Len(r) = Len(l) + 1 /\ \A i \in 1..Len(l) : r[i] = l[i]
      /\ r[Len(l) + 1].term = t
  BY AppendOnePointwise, SMTT(30)
<1>2. Len(l) \in Nat /\ Len(r) \in Nat
  BY <1>1
<1>3. R = [L EXCEPT ![t] = r]
  OBVIOUS
<1> HIDE DEF r
<1>4. R \in LeaderLogs /\ R[t] = r /\ \A u \in Nat \ {t} : R[u] = L[u]
  BY <1>1, <1>3 DEF LeaderLogs
<1>5. \A u \in Nat : L[u] \in Seq(Entry) /\ Len(L[u]) \in Nat
  <2>1. \A u \in Nat : L[u] \in Seq(Entry)
    BY DEF LeaderLogs
  <2>2. QED
    BY <2>1
<1>6. Grows(L, R)
  <2>1. ASSUME NEW u \in Nat
        PROVE  Len(L[u]) <= Len(R[u]) /\ \A j \in 1..Len(L[u]) : R[u][j] = L[u][j]
    <3>1. CASE u # t
      <4>1. R[u] = L[u] /\ Len(L[u]) \in Nat
        BY <1>4, <1>5, <3>1
      <4>2. QED
        BY <4>1
    <3>2. CASE u = t /\ L[t] = l
      BY <1>1, <1>2, <1>4, <3>2
    <3>3. CASE u = t /\ Len(L[t]) = 0
      BY <1>2, <1>4, <3>3
    <3>4. QED
      BY <3>1, <3>2, <3>3
  <2>2. QED
    BY <2>1 DEF Grows
<1>7. Rooted(r, R)
  <2>1. Rooted(l, R)
    BY <1>4, <1>6, GrowRooted
  <2>2. ASSUME NEW i \in 1..Len(r)
        PROVE  i <= Len(R[r[i].term]) /\ \A j \in 1..i : r[j] = R[r[i].term][j]
    <3>1. CASE i = Len(l) + 1
      <4>1. R[r[i].term] = r
        BY <1>1, <1>4, <3>1
      <4>2. QED
        BY <1>1, <1>2, <3>1, <4>1
    <3>2. CASE i # Len(l) + 1
      <4>1. i \in 1..Len(l) /\ \A j \in 1..i : j \in 1..Len(l)
        BY <1>1, <1>2, <3>2
      <4>2. i <= Len(R[l[i].term]) /\ \A j \in 1..i : l[j] = R[l[i].term][j]
        BY <2>1, <4>1 DEF Rooted
      <4>3. r[i] = l[i] /\ \A j \in 1..i : r[j] = l[j]
        BY <1>1, <4>1
      <4>4. QED
        BY <4>2, <4>3
    <3>3. QED
      BY <3>1, <3>2
  <2>3. QED
    BY <2>2 DEF Rooted
<1>8. RootsRooted(R)
  <2>1. ASSUME NEW u \in Nat PROVE Rooted(R[u], R)
    <3>1. CASE u = t
      BY <1>4, <1>7, <3>1
    <3>2. CASE u # t
      <4>1. Rooted(L[u], L)
        BY DEF RootsRooted
      <4>2. Rooted(L[u], R)
        BY <1>4, <1>5, <1>6, <4>1, GrowRooted
      <4>3. QED
        BY <1>4, <3>2, <4>2
    <3>3. QED
      BY <3>1, <3>2
  <2>2. QED
    BY <2>1 DEF RootsRooted
<1>9. QED
  BY <1>4, <1>6, <1>7, <1>8 DEF r

\* Logs and messages explained by L are explained by what L grows into.
LEMMA GrowAll ==
    ASSUME TypeOK, NEW L \in LeaderLogs, NEW R \in LeaderLogs, Grows(L, R),
           LogsRooted(L), PiecesOf(L)
    PROVE  LogsRooted(R) /\ PiecesOf(R)
<1>1. ASSUME NEW n \in Server PROVE Rooted(log[n], R)
  <2>1. log[n] \in Seq(Entry) /\ Rooted(log[n], L)
    BY DEF TypeOK, LogsRooted
  <2>2. QED
    BY <2>1, GrowRooted
<1>2. ASSUME NEW m \in msgs, m.type = "Append" PROVE PieceOf(m, R[m.term])
  <2>1. m \in AppendMessage /\ PieceOf(m, L[m.term])
    BY <1>2, MessageShape DEF TypeOK, PiecesOf
  <2>2. QED
    BY <2>1, GrowPiece
<1>3. QED
  BY <1>1, <1>2 DEF LogsRooted, PiecesOf

\* In a step the leaders' logs stay, or the leader of a term appends to its own.
Develops(L, R) ==
    \/ R = L
    \/ \E n \in Server, cmd \in Value \cup {Noop} :
         /\ state'[n] = "Leader"
         /\ log'[n] = AppendOne(log[n], term'[n], cmd)
         /\ R = [L EXCEPT ![term'[n]] = log'[n]]

\* The leaders' logs L develop so that they explain the next state.
ExplainsNext(L) ==
    \E R \in LeaderLogs : Grows(L, R) /\ Develops(L, R) /\ MatchInv(R)'

\* Every step of a static cluster whose processes do not restart is explained
\* by the leaders' logs.
LEMMA MatchStep ==
    ASSUME MaxRestarts = 0,
           TypeOK, TypeOK', LogInv, ElectionInv, ElectionSafety, ElectionSafety',
           WinnersLead, NEW L \in LeaderLogs, MatchInv(L), [Next]_vars
    PROVE  WinnersLead' /\ ExplainsNext(L)
<1> DEFINE Goal == WinnersLead' /\ ExplainsNext(L)
<1>1. WinnersLead
  OBVIOUS
<1>2. Grows(L, L) /\ Develops(L, L)
  BY DEF Grows, Develops
<1>3. OnlyElected(L) /\ LeadersRoot(L) /\ LogsRooted(L) /\ RootsRooted(L) /\ PiecesOf(L)
  BY DEF MatchInv
<1>4. \A n \in Server : log[n] \in Seq(Entry) /\ Rooted(log[n], L) /\ term[n] \in Nat
  BY <1>3 DEF TypeOK, LogsRooted
<1>5. \A n \in Server : state[n] = "Leader" => log[n] = L[term[n]]
  BY <1>3 DEF LeadersRoot
<1>6. ASSUME Calm, UNCHANGED elected, LogsRooted(L)',
             \A p \in Server : state'[p] = "Leader" => log'[p] = log[p],
             NEW n \in Server, SendsFrom(n, log[n])
      PROVE  Goal
  <2>1. WinnersLead'
    BY <1>1, <1>6, CalmWinners
  <2>2. LeadersRoot(L)' /\ OnlyElected(L)'
    BY <1>3, <1>6, CalmRoots
  <2>3. PiecesOf(L)'
    BY <1>3, <1>4, <1>5, <1>6, SendsPieces
  <2>4. RootsRooted(L)'
    BY <1>3 DEF RootsRooted
  <2>5. MatchInv(L)'
    BY <1>6, <2>2, <2>3, <2>4 DEF MatchInv
  <2>6. QED
    BY <1>2, <2>1, <2>5 DEF ExplainsNext
<1>7. ASSUME NEW n \in Server, LeavesLogs(n) PROVE Goal
  <2>1. LogsRooted(L)'
    BY <1>3, <1>7 DEF LeavesLogs, LogsRooted
  <2>2. QED
    BY <1>6, <1>7, <2>1 DEF LeavesLogs
<1>8. ASSUME NEW n \in Server, Commits(n) PROVE Goal
  <2>1. log' = log
    BY <1>8 DEF Commits, Ready, TypeOK
  <2>2. LogsRooted(L)'
    BY <1>3, <2>1 DEF LogsRooted
  <2>3. QED
    BY <1>6, <1>8, <2>1, <2>2 DEF Commits
<1>9. ASSUME NEW n \in Server, Accepts(n) PROVE Goal
  <2>1. PICK m \in msgs :
          /\ m.type = "Append"
          /\ LogConsistencyCheck(log[n], m.prevIndex, m.prevTerm)
          /\ Ready(n, AppendEntries(log[n], m.entries),
                   CommitTo(AppendEntries(log[n], m.entries), committed[n], m.commit))
    BY <1>9 DEF Accepts
  <2> DEFINE r == AppendEntries(log[n], m.entries)
  <2>2. m \in AppendMessage /\ GoodPiece(m) /\ PieceOf(m, L[m.term]) /\ GoodLog(log[n])
    BY <1>3, <2>1, MessageShape DEF TypeOK, LogInv, GoodPieces, GoodLogs, PiecesOf
  <2>3. Rooted(r, L)
    BY <1>3, <1>4, <2>1, <2>2, AcceptRooted
  <2>4. log' = [log EXCEPT ![n] = r]
    BY <2>1 DEF Ready
  <2> HIDE DEF r
  <2>5. LogsRooted(L)'
    BY <1>4, <2>3, <2>4 DEF LogsRooted, TypeOK
  <2>6. \A p \in Server : state'[p] = "Leader" => log'[p] = log[p]
    BY <1>9, <2>4 DEF Accepts, TypeOK
  <2>7. QED
    BY <1>6, <1>9, <2>5, <2>6 DEF Accepts
<1>10. ASSUME NEW n \in Server, Proposes(n) PROVE Goal
  <2>1. PICK v \in Value, c \in Nat :
          /\ SendsFrom(n, AppendOne(log[n], term[n], v))
          /\ Ready(n, AppendOne(log[n], term[n], v), c)
    BY <1>10 DEF Proposes
  <2>2. PICK l : l = AppendOne(log[n], term[n], v)
    OBVIOUS
  <2>3. PICK t \in Nat : t = term[n]
    BY <1>4
  <2>4. PICK R : R = [L EXCEPT ![t] = AppendOne(log[n], t, v)]
    OBVIOUS
  <2>5. /\ state[n] = "Leader" /\ UNCHANGED <<elected, term, state>> /\ Calm
        /\ log' = [log EXCEPT ![n] = l] /\ SendsFrom(n, l)
    BY <1>10, <2>1, <2>2 DEF Proposes, Ready
  <2>6. L[t] = log[n] /\ log[n] \in Seq(Entry) /\ Rooted(log[n], L)
    BY <1>4, <1>5, <2>3, <2>5
  <2>7. /\ R \in LeaderLogs /\ Grows(L, R) /\ RootsRooted(R)
        /\ R[t] = l /\ Rooted(l, R) /\ \A u \in Nat \ {t} : R[u] = L[u]
    <3>1. PICK old \in Seq(Entry) : old = log[n]
      BY <1>4
    <3>2. Rooted(old, L) /\ L[t] = old /\ v \in Value \cup {Noop}
      BY <2>6, <3>1
    <3>3. R = [L EXCEPT ![t] = AppendOne(old, t, v)] /\ l = AppendOne(old, t, v)
      BY <2>2, <2>3, <2>4, <3>1
    <3>4. /\ R \in LeaderLogs /\ Grows(L, R) /\ RootsRooted(R)
          /\ R[t] = AppendOne(old, t, v) /\ Rooted(AppendOne(old, t, v), R)
          /\ \A u \in Nat \ {t} : R[u] = L[u]
      <4>1. Extends(L, R, t, old, v)
        BY <1>3, <3>2, <3>3 DEF Extends
      <4>2. QED
        BY <4>1, ExtendRoot
    <3>5. QED
      BY <3>3, <3>4
  <2>8. LogsRooted(R) /\ PiecesOf(R)
    BY <1>3, <2>7, GrowAll
  <2>9. LogsRooted(R)'
    BY <2>5, <2>7, <2>8 DEF LogsRooted, TypeOK
  <2>10. PiecesOf(R)'
    <3>1. l \in Seq(Entry)
      BY <2>2, <2>3, <2>6, AppendOneType
    <3>2. QED
      BY <2>3, <2>5, <2>7, <2>8, <3>1, SendsPieces
  <2>11. LeadersRoot(R)'
    <3>1. ASSUME NEW p \in Server, state'[p] = "Leader"
          PROVE  log'[p] = R[term'[p]] /\ [term |-> term'[p], node |-> p] \in elected'
      <4>1. /\ state[p] = "Leader" /\ term'[p] = term[p] /\ log[p] = L[term[p]]
            /\ [term |-> term[p], node |-> p] \in elected
        BY <1>3, <2>5, <3>1 DEF LeadersRoot
      <4>2. CASE p = n
        BY <2>3, <2>5, <2>7, <4>1, <4>2 DEF TypeOK
      <4>3. CASE p # n
        <5>1. [term |-> term[n], node |-> n] \in elected
          BY <1>3, <2>5 DEF LeadersRoot
        <5>2. term[p] # t
          BY <2>3, <4>1, <4>3, <5>1 DEF ElectionSafety
        <5>3. R[term[p]] = L[term[p]]
          BY <1>4, <2>7, <5>2
        <5>4. QED
          BY <2>5, <4>1, <4>3, <5>3 DEF TypeOK
      <4>4. QED
        BY <4>2, <4>3
    <3>2. QED
      BY <3>1 DEF LeadersRoot
  <2>12. OnlyElected(R)'
    <3>1. [term |-> t, node |-> n] \in elected
      BY <1>3, <2>3, <2>5 DEF LeadersRoot
    <3>2. ASSUME NEW u \in Nat, \A w \in elected' : w.term # u PROVE Len(R[u]) = 0
      <4>1. u # t
        BY <2>5, <3>1, <3>2
      <4>2. QED
        BY <1>3, <2>5, <2>7, <3>2, <4>1 DEF OnlyElected
    <3>3. QED
      BY <3>2 DEF OnlyElected
  <2>13. RootsRooted(R)'
    BY <2>7 DEF RootsRooted
  <2>14. WinnersLead'
    BY <1>1, <2>5, CalmWinners
  <2>15. MatchInv(R)'
    BY <2>9, <2>10, <2>11, <2>12, <2>13 DEF MatchInv
  <2>16. Develops(L, R)
    <3>1. log'[n] = l /\ state'[n] = "Leader" /\ term'[n] = t /\ v \in Value \cup {Noop}
      BY <2>3, <2>5 DEF TypeOK
    <3>2. l = AppendOne(log[n], term'[n], v) /\ R = [L EXCEPT ![term'[n]] = log'[n]]
      BY <2>2, <2>3, <2>4, <3>1
    <3>3. QED
      BY <3>1, <3>2 DEF Develops
  <2>17. QED
    BY <2>7, <2>14, <2>15, <2>16 DEF ExplainsNext
<1>11. ASSUME NEW n \in Server, TakesOver(n) PROVE Goal
  <2>1. PICK t \in Nat : t = term'[n]
    BY DEF TypeOK
  <2>2. PICK l : l = AppendOne(log[n], t, Noop)
    OBVIOUS
  <2>3. PICK R : R = [L EXCEPT ![t] = AppendOne(log[n], t, Noop)]
    OBVIOUS
  <2>4. /\ SendsFrom(n, log[n]) /\ state[n] # "Leader" /\ state'[n] = "Leader"
        /\ t > term[n] \/ (t = term[n] /\ state[n] = "Candidate")
        /\ \A p \in Server \ {n} : term'[p] = term[p] /\ state'[p] = state[p]
        /\ log' = [log EXCEPT ![n] = l]
        /\ elected' = elected \cup {[term |-> t, node |-> n]}
    BY <1>11, <2>1, <2>2 DEF TakesOver
  <2>5. \A w \in elected : w.term # t
    <3>1. ASSUME NEW w \in elected, w.term = t PROVE FALSE
      <4>1. w.node = n
        <5>1. PICK new : new = [term |-> t, node |-> n]
          OBVIOUS
        <5>2. w \in elected' /\ new \in elected' /\ new.term = t /\ new.node = n
          BY <2>4, <5>1
        <5>3. QED
          BY <3>1, <5>2 DEF ElectionSafety
      <4>2. t <= term[n] /\ (t = term[n] => state[n] = "Leader")
        BY <1>1, <3>1, <4>1 DEF WinnersLead
      <4>3. QED
        BY <1>4, <2>4, <4>2
    <3>2. QED
      BY <3>1
  <2>6. Len(L[t]) = 0
    BY <1>3, <2>5 DEF OnlyElected
  <2>7. /\ R \in LeaderLogs /\ Grows(L, R) /\ RootsRooted(R)
        /\ R[t] = l /\ Rooted(l, R) /\ \A u \in Nat \ {t} : R[u] = L[u]
    <3>1. PICK old \in Seq(Entry) : old = log[n]
      BY <1>4
    <3>2. Rooted(old, L) /\ Noop \in Value \cup {Noop}
      BY <1>4, <3>1
    <3>3. R = [L EXCEPT ![t] = AppendOne(old, t, Noop)] /\ l = AppendOne(old, t, Noop)
      BY <2>2, <2>3, <3>1
    <3>4. /\ R \in LeaderLogs /\ Grows(L, R) /\ RootsRooted(R)
          /\ R[t] = AppendOne(old, t, Noop) /\ Rooted(AppendOne(old, t, Noop), R)
          /\ \A u \in Nat \ {t} : R[u] = L[u]
      <4>1. Extends(L, R, t, old, Noop)
        BY <1>3, <2>6, <3>2, <3>3 DEF Extends
      <4>2. QED
        BY <4>1, ExtendRoot
    <3>5. QED
      BY <3>3, <3>4
  <2>8. LogsRooted(R) /\ PiecesOf(R)
    BY <1>3, <2>7, GrowAll
  <2>9. LogsRooted(R)'
    BY <2>4, <2>7, <2>8 DEF LogsRooted, TypeOK
  <2>10. PiecesOf(R)'
    BY <1>4, <2>4, <2>7, <2>8, SendsPieces
  <2>11. LeadersRoot(R)'
    <3>1. ASSUME NEW p \in Server, state'[p] = "Leader"
          PROVE  log'[p] = R[term'[p]] /\ [term |-> term'[p], node |-> p] \in elected'
      <4>1. CASE p = n
        BY <2>1, <2>4, <2>7, <4>1 DEF TypeOK
      <4>2. CASE p # n
        <5>1. state[p] = "Leader" /\ term'[p] = term[p] /\ log'[p] = log[p]
          BY <2>4, <3>1, <4>2 DEF TypeOK
        <5>2. log[p] = L[term[p]] /\ [term |-> term[p], node |-> p] \in elected
          BY <1>3, <5>1 DEF LeadersRoot
        <5>3. term[p] # t
          BY <2>5, <5>2
        <5>4. R[term[p]] = L[term[p]]
          BY <1>4, <2>7, <5>3
        <5>5. QED
          BY <2>4, <5>1, <5>2, <5>4
      <4>3. QED
        BY <4>1, <4>2
    <3>2. QED
      BY <3>1 DEF LeadersRoot
  <2>12. OnlyElected(R)'
    <3>1. ASSUME NEW u \in Nat, \A w \in elected' : w.term # u PROVE Len(R[u]) = 0
      <4>1. [term |-> t, node |-> n] \in elected' /\ \A w \in elected : w \in elected'
        BY <2>4
      <4>2. u # t
        BY <3>1, <4>1
      <4>3. QED
        BY <1>3, <2>7, <3>1, <4>1, <4>2 DEF OnlyElected
    <3>2. QED
      BY <3>1 DEF OnlyElected
  <2>13. RootsRooted(R)'
    BY <2>7 DEF RootsRooted
  <2>14. WinnersLead'
    <3>1. ASSUME NEW w \in elected'
          PROVE  /\ w.term <= term'[w.node]
                 /\ w.term = term'[w.node] => state'[w.node] = "Leader"
      <4>1. CASE w = [term |-> t, node |-> n]
        BY <2>1, <2>4, <4>1
      <4>2. CASE w \in elected
        <5>1. w.node \in Server /\ w.term \in Nat
          BY <4>2 DEF TypeOK, Win
        <5>2. w.term <= term[w.node] /\ (w.term = term[w.node] => state[w.node] = "Leader")
          BY <1>1, <4>2 DEF WinnersLead
        <5>3. CASE w.node = n
          BY <1>4, <2>1, <2>4, <5>1, <5>2, <5>3
        <5>4. CASE w.node # n
          BY <2>4, <5>1, <5>2, <5>4
        <5>5. QED
          BY <5>3, <5>4
      <4>3. QED
        BY <2>4, <4>1, <4>2
    <3>2. QED
      BY <3>1 DEF WinnersLead
  <2>15. MatchInv(R)'
    BY <2>9, <2>10, <2>11, <2>12, <2>13 DEF MatchInv
  <2>16. Develops(L, R)
    <3>1. log'[n] = l /\ state'[n] = "Leader" /\ Noop \in Value \cup {Noop}
      BY <2>4 DEF TypeOK
    <3>2. l = AppendOne(log[n], term'[n], Noop) /\ R = [L EXCEPT ![term'[n]] = log'[n]]
      BY <2>1, <2>2, <2>3, <3>1
    <3>3. QED
      BY <3>1, <3>2 DEF Develops
  <2>17. QED
    BY <2>7, <2>14, <2>15, <2>16 DEF ExplainsNext
<1>12. ASSUME NEW n \in Server, Restart(n) PROVE Goal
  BY <1>12 DEF TypeOK, Restart
<1>13. CASE UNCHANGED vars
  <2>1. UNCHANGED <<term, state, log, msgs, elected>>
    BY <1>13 DEF vars, serverVars, logVars, history
  <2>2. MatchInv(L)'
    BY <1>3, <2>1 DEF MatchInv, OnlyElected, LeadersRoot, LogsRooted, RootsRooted, PiecesOf
  <2>3. WinnersLead'
    BY <1>1, <2>1 DEF WinnersLead
  <2>4. QED
    BY <1>2, <2>2, <2>3 DEF ExplainsNext
<1>14. QED
  BY <1>7, <1>8, <1>9, <1>10, <1>11, <1>12, <1>13, StepKinds

\* Two logs with the same root agree up to an entry of the same term.
LEMMA RootedLogsMatch == TypeOK /\ MatchInvHolds => LogMatching
<1> SUFFICES ASSUME TypeOK, MatchInvHolds, NEW a \in Server, NEW b \in Server,
                    NEW i \in 1..MinOf(Len(log[a]), Len(log[b])),
                    log[a][i].term = log[b][i].term
             PROVE  SubSeq(log[a], 1, i) = SubSeq(log[b], 1, i)
  BY DEF LogMatching
<1>1. PICK L \in LeaderLogs : LogsRooted(L)
  BY DEF MatchInvHolds, MatchInv
<1>2. log[a] \in Seq(Entry) /\ log[b] \in Seq(Entry)
  BY DEF TypeOK
<1>3. i \in 1..Len(log[a]) /\ i \in 1..Len(log[b]) /\ i \in Int
  BY <1>2 DEF MinOf
<1>4. \A j \in 1..i : log[a][j] = L[log[a][i].term][j] /\ log[b][j] = L[log[b][i].term][j]
  BY <1>1, <1>3 DEF LogsRooted, Rooted
<1>5. \A j \in 1..i : log[a][j] = log[b][j] /\ log[a][j] \in Entry /\ log[b][j] \in Entry
  <2>1. \A j \in 1..i : log[a][j] = log[b][j]
    BY <1>4
  <2>2. \A j \in 1..i : j \in 1..Len(log[a]) /\ j \in 1..Len(log[b])
    BY <1>2, <1>3
  <2>3. QED
    BY <1>2, <2>1, <2>2
<1> DEFINE x == SubSeq(log[a], 1, i)
           y == SubSeq(log[b], 1, i)
<1>6. /\ x \in Seq(Entry) /\ Len(x) = i /\ \A j \in 1..i : x[j] = log[a][j]
  <2>1. /\ x \in Seq(Entry) /\ Len(x) = (IF 1 <= i THEN i - 1 + 1 ELSE 0)
        /\ \A j \in 1..(i - 1 + 1) : x[j] = log[a][1 + j - 1]
    BY <1>3, <1>5, SubSeqProperties
  <2> HIDE DEF x
  <2>2. QED
    BY <1>3, <2>1
<1>7. /\ y \in Seq(Entry) /\ Len(y) = i /\ \A j \in 1..i : y[j] = log[b][j]
  <2>1. /\ y \in Seq(Entry) /\ Len(y) = (IF 1 <= i THEN i - 1 + 1 ELSE 0)
        /\ \A j \in 1..(i - 1 + 1) : y[j] = log[b][1 + j - 1]
    BY <1>3, <1>5, SubSeqProperties
  <2> HIDE DEF y
  <2>2. QED
    BY <1>3, <2>1
<1> HIDE DEF x, y
<1>8. x = y
  BY <1>5, <1>6, <1>7, SeqEqual
<1>9. QED
  BY <1>8 DEF x, y

\* In a static cluster whose processes do not restart, two logs that agree on the
\* term of an entry agree on everything up to it: for any number of nodes, over
\* either transport, whatever is lost or reordered.
THEOREM LogsMatch ==
    ASSUME StaticCluster, MaxRestarts = 0
    PROVE  Spec => []LogMatching
<1>1. Init => MatchInvHolds
  <2> SUFFICES ASSUME Init PROVE MatchInvHolds
    OBVIOUS
  <2>1. PICK L : L = [t \in Nat |-> <<>>]
    OBVIOUS
  <2>2. L \in LeaderLogs /\ \A t \in Nat : L[t] = <<>>
    BY <2>1, EmptySeq DEF LeaderLogs
  <2>3. \A s \in Seq(Entry) : Len(s) = 0 => Rooted(s, L)
    BY DEF Rooted
  <2>4. \A n \in Server : state[n] = "Follower" /\ log[n] = <<>>
    BY DEF Init
  <2>5. Rooted(<<>>, L) /\ Len(<<>>) = 0
    BY <2>3, EmptySeq
  <2>6. OnlyElected(L) /\ RootsRooted(L)
    BY <2>2, <2>5 DEF OnlyElected, RootsRooted
  <2>7. LogsRooted(L) /\ LeadersRoot(L)
    BY <2>4, <2>5 DEF LogsRooted, LeadersRoot
  <2>8. PiecesOf(L) /\ WinnersLead
    BY DEF Init, PiecesOf, WinnersLead
  <2>9. QED
    BY <2>2, <2>6, <2>7, <2>8 DEF MatchInvHolds, MatchInv
<1>2. Init => ElectionInv
  BY DEF Init, ElectionInv, OneBallotPerTerm, BallotsBind, CandidatesVoteForThemselves,
         RequestsGoToOthers, GrantsWereCast, VotesWereCast, WinsHaveMajority
<1>3. TypeOK /\ ElectionInv /\ [Next]_vars => ElectionInv'
  BY ElectionStep
<1>4. /\ TypeOK /\ TypeOK' /\ LogInv /\ ElectionInv /\ ElectionSafety /\ ElectionSafety'
      /\ MatchInvHolds /\ [Next]_vars
      => MatchInvHolds'
  <2> SUFFICES ASSUME TypeOK, TypeOK', LogInv, ElectionInv, ElectionSafety, ElectionSafety',
                      MatchInvHolds, [Next]_vars
               PROVE  MatchInvHolds'
    OBVIOUS
  <2>1. PICK L \in LeaderLogs : MatchInv(L)
    BY DEF MatchInvHolds
  <2>2. WinnersLead' /\ ExplainsNext(L)
    BY <2>1, MatchStep DEF MatchInvHolds
  <2>3. QED
    BY <2>2 DEF MatchInvHolds, ExplainsNext
<1>5. QED
  BY <1>1, <1>2, <1>3, <1>4, LogInvHolds, MajoritiesAgree, RootedLogsMatch, PTL DEF Spec

-----------------------------------------------------------------------------
(* What is committed stays.  An entry that a leader counts as committed was     *)
(* accepted by a majority in the leader's own term.  Whoever accepted it has a  *)
(* log that reaches that far for ever after, and votes only for logs that do;   *)
(* by induction over the terms every later leader's log holds the entry.        *)

Won(t) == \E w \in elected : w.term = t

\* By the comparison voters make, l is at least as far as entry i of term t.
Reaches(l, t, i) == LastTerm(l) > t \/ (LastTerm(l) = t /\ Len(l) >= i)

\* l holds entry i of term t, or an entry of a term between t and u.
Covers(l, t, i, u) ==
    \E j \in 1..Len(l) : \/ t < l[j].term /\ l[j].term < u
                         \/ l[j].term = t /\ j >= i

\* l is the log with which n is running for term u, or with which it leads or led.
Stands(n, u, l, L) ==
    \/ state[n] = "Candidate" /\ term[n] = u /\ l = log[n]
    \/ [term |-> u, node |-> n] \in elected /\ l = L[u]

\* q's log reaches entry i of term t, and for all later terms q has voted only
\* for logs that cover it.
Held(q, t, i, L) ==
    /\ Reaches(log[q], t, i)
    /\ \A b \in ballots : b.voter = q /\ b.term > t =>
         \A l \in Seq(Entry) : Stands(b.cand, b.term, l, L) => Covers(l, t, i, b.term)

\* A majority holds entry c of term t: it is committed.
Point(t, c, L) ==
    /\ c \in 1..Len(L[t]) /\ L[t][c].term = t
    /\ \E Q \in SUBSET Server : Majority(Q) /\ \A q \in Q : Held(q, t, c, L)

\* What a leader of term t may believe of p when it records that p's log matches
\* its own up to k: p holds the leader's own entries up to there, or they are
\* committed anyway.
Credit(p, t, k, L) ==
    /\ k <= Len(L[t])
    /\ \A i \in 1..k : L[t][i].term = t => Held(p, t, i, L) \/ Point(t, i, L)

\* Everything up to k was committed in some term up to t.
Reported(k, t, L) ==
    k = 0 \/ \E s \in 0..t, c \in Nat : k <= c /\ Point(s, c, L)

Prefix(l, r) == Len(l) <= Len(r) /\ \A i \in 1..Len(l) : r[i] = l[i]

Ordered(l) == \A i, j \in 1..Len(l) : i <= j => l[i].term <= l[j].term

\* The log of a leader of term t ends with an entry of that term, and no entry
\* has a lower term than one before it.
RootsOrdered(L) ==
    \A t \in Nat : /\ Ordered(L[t])
                   /\ \A i \in 1..Len(L[t]) : 0 < L[t][i].term /\ L[t][i].term <= t
                   /\ Len(L[t]) > 0 => L[t][Len(L[t])].term = t

\* No log has an entry of a term its node has not reached, and a candidate's has
\* none of the term it is running for.
TermsBelow ==
    \A n \in Server : \A i \in 1..Len(log[n]) :
        /\ log[n][i].term <= term[n]
        /\ state[n] = "Candidate" => log[n][i].term < term[n]

\* A vote request names an entry of the log it stands for, or (over gRPC) none.
Faithful(m, l) ==
    \/ m.lastIndex = 0 /\ m.lastTerm = 0
    \/ /\ m.lastIndex \in 1..Len(l) /\ l[m.lastIndex].term = m.lastTerm
       /\ m.lastTerm < m.term

\* Entry i of l, or the one before it, is of term t; so are all the later ones of
\* a log that the leader of t has.
OwnNext(l, t, i) == \E j \in 1..Len(l) : l[j].term = t /\ (j = i \/ j + 1 = i)

\* What the leader of term t with log l may send next to a node.
Askable(l, t, i) == i <= Len(l) + 1 /\ OwnNext(l, t, i)

\* An append message starts and ends with the leader's own entries; only the
\* heartbeat of the gRPC transport does not.
OwnEnd(m, L) ==
    \/ Transport = "grpc" /\ m.entries = <<>> /\ m.prevIndex = 0
    \/ /\ OwnNext(L[m.term], m.term, m.prevIndex + 1)
       /\ m.prevIndex + Len(m.entries) \in 1..Len(L[m.term])
       /\ L[m.term][m.prevIndex + Len(m.entries)].term = m.term
       /\ Len(m.entries) = 0 => m.prevTerm = m.term

LEMMA LastTermIs ==
    ASSUME NEW l \in Seq(Entry)
    PROVE  /\ Len(l) \in Nat
           /\ Len(l) > 0 => LastTerm(l) = l[Len(l)].term /\ l[Len(l)].term \in Nat
           /\ Len(l) = 0 => LastTerm(l) = 0
           /\ LastTerm(l) \in Nat
<1>1. Len(l) \in Nat
  OBVIOUS
<1>2. Len(l) > 0 => Len(l) \in 1..Len(l) /\ l[Len(l)] \in Entry
  BY <1>1
<1>3. Len(l) > 0 => l[Len(l)].term \in Nat
  BY <1>2 DEF Entry
<1>4. QED
  BY <1>1, <1>2, <1>3 DEF LastTerm, Term, LastIndex

LEMMA EntryTerms ==
    ASSUME NEW l \in Seq(Entry), NEW i \in 1..Len(l)
    PROVE  l[i] \in Entry /\ l[i].term \in Nat /\ l[i].index \in Nat
<1>1. l[i] \in Entry
  OBVIOUS
<1>2. QED
  BY <1>1 DEF Entry

\* The order of the terms is that of the leaders' logs.
LEMMA RootedOrdered ==
    ASSUME NEW L \in LeaderLogs, RootsOrdered(L), NEW l \in Seq(Entry), Rooted(l, L)
    PROVE  Ordered(l)
<1> SUFFICES ASSUME NEW i \in 1..Len(l), NEW j \in 1..Len(l), i <= j
             PROVE  l[i].term <= l[j].term
  BY DEF Ordered
<1>1. PICK t \in Nat : t = l[j].term
  BY EntryTerms
<1>2. L[t] \in Seq(Entry) /\ Ordered(L[t])
  BY DEF LeaderLogs, RootsOrdered
<1>3. j <= Len(L[t]) /\ \A k \in 1..j : l[k] = L[t][k]
  BY <1>1 DEF Rooted
<1>4. i \in 1..j /\ j \in 1..j /\ i \in 1..Len(L[t]) /\ j \in 1..Len(L[t])
  BY <1>2, <1>3
<1>5. l[i] = L[t][i] /\ l[j] = L[t][j]
  BY <1>3, <1>4
<1>6. QED
  BY <1>2, <1>4, <1>5 DEF Ordered

LEMMA CoversGrows ==
    ASSUME NEW l \in Seq(Entry), NEW r \in Seq(Entry), Prefix(l, r),
           NEW t, NEW i, NEW u, Covers(l, t, i, u)
    PROVE  Covers(r, t, i, u)
<1>1. PICK j \in 1..Len(l) : \/ t < l[j].term /\ l[j].term < u
                             \/ l[j].term = t /\ j >= i
  BY DEF Covers
<1>2. j \in 1..Len(r) /\ r[j] = l[j]
  BY DEF Prefix
<1>3. QED
  BY <1>1, <1>2 DEF Covers

\* Of a log with lower terms only, what reaches an entry covers it.
LEMMA ReachesCovers ==
    ASSUME NEW l \in Seq(Entry), NEW t \in Nat, NEW i \in Nat \ {0}, NEW u \in Nat,
           t < u, Reaches(l, t, i), \A j \in 1..Len(l) : l[j].term < u
    PROVE  Covers(l, t, i, u)
<1>1. Len(l) > 0
  BY LastTermIs DEF Reaches
<1>2. Len(l) \in 1..Len(l) /\ LastTerm(l) = l[Len(l)].term /\ l[Len(l)].term \in Nat
  BY <1>1, LastTermIs
<1>3. QED
  BY <1>2 DEF Reaches, Covers

\* A voter only grants its vote to a log that covers what its own log reaches.
LEMMA VoteCovers ==
    ASSUME NEW l \in Seq(Entry), NEW r \in Seq(Entry), NEW m \in VoteMessage,
           IsUpToDate(l, m.lastIndex, m.lastTerm), Faithful(m, r),
           NEW t \in Nat, NEW i \in Nat \ {0}, Reaches(l, t, i)
    PROVE  Covers(r, t, i, m.term)
<1>1. m.lastIndex \in Nat /\ m.lastTerm \in Nat /\ m.term \in Nat
  BY DEF VoteMessage
<1>2. Len(l) \in Nat /\ LastTerm(l) \in Nat /\ (Len(l) = 0 => LastTerm(l) = 0)
  BY LastTermIs
<1>3. \/ m.lastTerm > LastTerm(l)
      \/ m.lastTerm = LastTerm(l) /\ m.lastIndex >= Len(l)
  BY DEF IsUpToDate, LastIndex
<1>4. m.lastTerm > t \/ (m.lastTerm = t /\ m.lastIndex >= i)
  BY <1>1, <1>2, <1>3 DEF Reaches
<1>5. ~(m.lastIndex = 0 /\ m.lastTerm = 0)
  BY <1>1, <1>4
<1>6. /\ m.lastIndex \in 1..Len(r) /\ r[m.lastIndex].term = m.lastTerm
      /\ m.lastTerm < m.term
  BY <1>5 DEF Faithful
<1>7. QED
  BY <1>1, <1>4, <1>6 DEF Covers

\* A log whose last entry is of term t is a piece of the log of the leader of t.
LEMMA EndsInTerm ==
    ASSUME NEW L \in LeaderLogs, NEW l \in Seq(Entry), Rooted(l, L), NEW t \in Nat,
           Len(l) > 0, LastTerm(l) = t
    PROVE  Len(l) <= Len(L[t]) /\ \A j \in 1..Len(l) : l[j] = L[t][j]
<1>1. Len(l) \in 1..Len(l) /\ l[Len(l)].term = t
  BY LastTermIs
<1>2. QED
  BY <1>1 DEF Rooted

\* What a follower of the leader of term m.term is left with after it accepts an
\* append message: its own log, or one that ends in that term; and it reaches
\* whatever it reached before.
LEMMA AcceptEnds ==
    ASSUME NEW L \in LeaderLogs, RootsRooted(L), RootsOrdered(L),
           NEW l \in Seq(Entry), Rooted(l, L), GoodLog(l),
           NEW m \in AppendMessage, GoodPiece(m), PieceOf(m, L[m.term]), OwnEnd(m, L),
           LogConsistencyCheck(l, m.prevIndex, m.prevTerm),
           \A i \in 1..Len(l) : l[i].term <= m.term,
           NEW r \in Seq(Entry), r = AppendEntries(l, m.entries)
    PROVE  /\ Rooted(r, L)
           /\ r = l \/ (Len(r) > 0 /\ LastTerm(r) = m.term)
           /\ Transport = "mem" => Len(r) > 0 /\ LastTerm(r) = m.term
           /\ \A i \in 1..Len(r) : r[i].term <= m.term
           /\ \A t \in Nat, i \in Nat \ {0} : Reaches(l, t, i) => Reaches(r, t, i)
<1> DEFINE es == m.entries
           prev == m.prevIndex
           T == m.term
           k == prev + Len(es)
<1>1. /\ es \in Seq(Entry) /\ prev \in Nat /\ Len(es) \in Nat /\ T \in Nat
      /\ Len(l) \in Nat /\ Len(r) \in Nat /\ k \in Nat
  BY DEF AppendMessage
<1>2. Rooted(r, L)
  BY AcceptRooted
<1>3. Ordered(r) /\ L[T] \in Seq(Entry)
  BY <1>1, <1>2, RootedOrdered DEF LeaderLogs
<1>4. Len(es) = 0 => r = l
  BY DEF AppendEntries
<1>cases. prev \in 0..Len(l) /\ (\A i \in 1..Len(es) : es[i].index = prev + i) =>
            \/ /\ r = l
               /\ \A i \in 1..Len(es) : prev + i <= Len(l) /\ l[prev + i].term = es[i].term
            \/ /\ \E i \in 1..Len(es) : prev + i > Len(l) \/ l[prev + i].term # es[i].term
               /\ Len(r) = k
               /\ \E cut \in prev..Len(l) :
                    /\ cut < k
                    /\ \A j \in (cut + 1)..k : r[j] = es[j - prev]
  <2> SUFFICES ASSUME prev \in 0..Len(l), \A i \in 1..Len(es) : es[i].index = prev + i
               PROVE  \/ /\ r = l
                         /\ \A i \in 1..Len(es) :
                              prev + i <= Len(l) /\ l[prev + i].term = es[i].term
                      \/ /\ \E i \in 1..Len(es) :
                              prev + i > Len(l) \/ l[prev + i].term # es[i].term
                         /\ Len(r) = k
                         /\ \E cut \in prev..Len(l) :
                              /\ cut < k
                              /\ \A j \in (cut + 1)..k : r[j] = es[j - prev]
    OBVIOUS
  <2>1. PICK e \in Seq(Entry) : e = es
    BY <1>1
  <2>2. PICK p \in 0..Len(l) : p = prev
    OBVIOUS
  <2>3. r = AppendEntries(l, e) /\ \A i \in 1..Len(e) : e[i].index = p + i
    BY <2>1, <2>2
  <2>4. \/ /\ AppendEntries(l, e) = l
           /\ \A i \in 1..Len(e) : p + i <= Len(l) /\ l[p + i].term = e[i].term
        \/ /\ \E i \in 1..Len(e) : p + i > Len(l) \/ l[p + i].term # e[i].term
           /\ Len(AppendEntries(l, e)) = p + Len(e)
           /\ \E cut \in p..Len(l) :
                /\ cut < p + Len(e)
                /\ \A j \in 1..cut : AppendEntries(l, e)[j] = l[j]
                /\ \A j \in (cut + 1)..(p + Len(e)) : AppendEntries(l, e)[j] = e[j - p]
                /\ cut > p => l[cut].term = e[cut - p].term
    BY <2>3, AppendEntriesPointwise, ZenonT(40)
  <2>5. QED
    BY <2>1, <2>2, <2>3, <2>4
<1>5. CASE Transport = "grpc" /\ es = <<>> /\ prev = 0
  <2>1. r = l
    BY <1>4, <1>5, EmptySeq
  <2>2. QED
    BY <1>2, <1>5, <2>1
<1>6. CASE ~(Transport = "grpc" /\ es = <<>> /\ prev = 0)
  <2>1. /\ k \in 1..Len(L[T]) /\ L[T][k].term = T
        /\ Len(es) = 0 => m.prevTerm = T
    BY <1>6 DEF OwnEnd
  <2>2. T > 0
    BY <1>1, <2>1 DEF RootsOrdered
  <2>3. k \in 1..Len(r) /\ r[k].term = T /\ (r = l \/ Len(r) = k)
    <3>1. CASE Len(es) = 0
      <4>1. r = l /\ k = prev /\ prev > 0
        BY <1>1, <1>4, <2>1, <3>1
      <4>2. Term(l, prev) = T
        BY <1>1, <2>1, <3>1, <4>1 DEF LogConsistencyCheck
      <4>3. prev \in 1..Len(l) /\ l[prev].term = T
        BY <2>2, <4>2 DEF Term
      <4>4. QED
        BY <4>1, <4>3
    <3>2. CASE Len(es) > 0
      <4>1. prev \in 0..Len(l)
        BY <3>2, AppendEntriesGood
      <4>2. \A i \in 1..Len(es) : es[i].index = prev + i
        BY DEF GoodPiece
      <4>3. Len(es) \in 1..Len(es) /\ es[Len(es)] = L[T][k]
        <5>1. Len(es) \in 1..Len(es)
          BY <1>1, <3>2
        <5>2. \A j \in 1..Len(es) : es[j] = L[T][prev + j]
          BY DEF PieceOf
        <5>3. QED
          BY <5>1, <5>2
      <4>4. \/ /\ r = l
               /\ \A i \in 1..Len(es) : prev + i <= Len(l) /\ l[prev + i].term = es[i].term
            \/ /\ Len(r) = k
               /\ \E cut \in prev..Len(l) :
                    /\ cut < k
                    /\ \A j \in (cut + 1)..k : r[j] = es[j - prev]
        BY <1>cases, <4>1, <4>2
      <4>5. CASE /\ r = l
                 /\ \A i \in 1..Len(es) : prev + i <= Len(l) /\ l[prev + i].term = es[i].term
        <5>1. k <= Len(l) /\ l[k].term = T
          BY <2>1, <4>3, <4>5
        <5>2. QED
          BY <1>1, <2>1, <4>5, <5>1
      <4>6. CASE /\ Len(r) = k
                 /\ \E cut \in prev..Len(l) :
                      /\ cut < k
                      /\ \A j \in (cut + 1)..k : r[j] = es[j - prev]
        <5>1. PICK cut \in prev..Len(l) : cut < k /\ \A j \in (cut + 1)..k : r[j] = es[j - prev]
          BY <4>6
        <5>2. k \in (cut + 1)..k /\ k - prev = Len(es)
          BY <1>1, <5>1
        <5>3. r[k] = es[Len(es)]
          BY <5>1, <5>2
        <5>4. QED
          BY <1>1, <2>1, <4>3, <4>6, <5>3
      <4>7. QED
        BY <4>4, <4>5, <4>6
    <3>3. QED
      BY <1>1, <3>1, <3>2
  <2>4. \A i \in 1..Len(r) : r[i].term <= T
    <3>1. CASE r = l
      BY <3>1
    <3>2. CASE Len(r) = k
      BY <1>3, <2>3, <3>2 DEF Ordered
    <3>3. QED
      BY <2>3, <3>1, <3>2
  <2>5. Len(r) > 0 /\ LastTerm(r) = T
    <3>1. Len(r) \in 1..Len(r) /\ k <= Len(r)
      BY <1>1, <2>3
    <3>2. r[k].term <= r[Len(r)].term
      BY <1>3, <2>3, <3>1 DEF Ordered
    <3>3. r[Len(r)].term <= T /\ r[Len(r)].term \in Nat
      BY <2>4, <3>1, EntryTerms
    <3>4. QED
      BY <1>1, <2>3, <3>1, <3>2, <3>3, LastTermIs
  <2>6. ASSUME NEW t \in Nat, NEW i \in Nat \ {0}, Reaches(l, t, i)
        PROVE  Reaches(r, t, i)
    <3>1. LastTerm(l) \in Nat /\ (Len(l) > 0 => LastTerm(l) = l[Len(l)].term)
          /\ (Len(l) = 0 => LastTerm(l) = 0)
      BY LastTermIs
    <3>2. LastTerm(l) <= T
      <4>1. Len(l) > 0 => Len(l) \in 1..Len(l)
        BY <1>1
      <4>2. QED
        BY <1>1, <3>1, <4>1
    <3>3. CASE LastTerm(l) < T
      BY <1>1, <2>5, <2>6, <3>1, <3>3 DEF Reaches
    <3>4. CASE LastTerm(l) = T
      <4>1. Len(l) > 0
        BY <1>1, <2>2, <3>1, <3>4
      <4>2. Len(l) <= Len(L[T]) /\ \A j \in 1..Len(l) : l[j] = L[T][j]
        BY <1>1, <3>4, <4>1, EndsInTerm
      <4>3. Len(r) >= Len(l)
        <5>1. CASE r = l
          BY <1>1, <5>1
        <5>2. CASE r # l
          <6>1. Len(es) > 0
            BY <1>1, <1>4, <5>2
          <6>2. prev \in 0..Len(l) /\ \A j \in 1..Len(es) : es[j].index = prev + j
            BY <6>1, AppendEntriesGood DEF GoodPiece
          <6>3. /\ \E j \in 1..Len(es) : prev + j > Len(l) \/ l[prev + j].term # es[j].term
                /\ Len(r) = k
            BY <1>cases, <5>2, <6>2
          <6>4. PICK j \in 1..Len(es) : prev + j > Len(l) \/ l[prev + j].term # es[j].term
            BY <6>3
          <6>5. es[j] = L[T][prev + j]
            BY DEF PieceOf
          <6>6. prev + j \in 1..Len(l) => l[prev + j].term = es[j].term
            BY <4>2, <6>5
          <6>7. prev + j > Len(l)
            BY <1>1, <6>4, <6>6
          <6>8. QED
            BY <1>1, <6>3, <6>7
        <5>3. QED
          BY <5>1, <5>2
      <4>4. QED
        BY <1>1, <2>5, <2>6, <3>4, <4>3 DEF Reaches
    <3>5. QED
      BY <1>1, <3>1, <3>2, <3>3, <3>4
  <2>7. QED
    BY <1>2, <2>4, <2>5, <2>6
<1>7. QED
  BY <1>5, <1>6

-----------------------------------------------------------------------------
(* One step, seen from what a node holds *)

\* A step from a state that the leaders' logs L explain to one that R explains.
Context(L, R) ==
    /\ MaxRestarts = 0
    /\ TypeOK /\ TypeOK' /\ LogInv /\ LogInv'
    /\ ElectionInv /\ ElectionInv' /\ ElectionSafety /\ ElectionSafety'
    /\ WinnersLead /\ WinnersLead'
    /\ L \in LeaderLogs /\ R \in LeaderLogs
    /\ MatchInv(L) /\ MatchInv(R)'
    /\ Grows(L, R) /\ Develops(L, R)
    /\ [Next]_vars

EndsOwn(L) == \A m \in msgs : m.type = "Append" => OwnEnd(m, L)

TermsGrow == \A p \in Server : term'[p] >= term[p]

ReachGrows ==
    \A q \in Server, t \in Nat, i \in Nat \ {0} :
        Reaches(log[q], t, i) => Reaches(log'[q], t, i)

\* Nobody begins to stand for a term but by campaigning for a new one.
StandsBefore(L, R) ==
    \A n \in Server, u \in Nat, r \in Seq(Entry) :
        Stands(n, u, r, R)' =>
            u > term[n] \/ \E l \in Seq(Entry) : Stands(n, u, l, L) /\ Prefix(l, r)

LEMMA CalmStands ==
    ASSUME NEW L, NEW R, Context(L, R), Calm, UNCHANGED elected,
           \A p \in Server : state'[p] = "Candidate" => log'[p] = log[p]
    PROVE  StandsBefore(L, R)
<1> SUFFICES ASSUME NEW n \in Server, NEW u \in Nat, NEW r \in Seq(Entry), Stands(n, u, r, R)',
                    ~(u > term[n])
             PROVE  \E l \in Seq(Entry) : Stands(n, u, l, L) /\ Prefix(l, r)
  BY DEF StandsBefore
<1>1. term[n] \in Nat /\ term'[n] \in Nat /\ log[n] \in Seq(Entry) /\ L[u] \in Seq(Entry)
  BY DEF Context, TypeOK, LeaderLogs
<1>2. CASE state'[n] = "Candidate" /\ term'[n] = u /\ r = log'[n]
  <2>1. /\ term'[n] >= term[n]
        /\ state[n] = "Candidate" \/ term'[n] > term[n]
    BY <1>2 DEF Calm
  <2>2. state[n] = "Candidate" /\ term[n] = u /\ r = log[n]
    BY <1>1, <1>2, <2>1
  <2>3. Stands(n, u, r, L) /\ Prefix(r, r)
    BY <2>2 DEF Stands, Prefix
  <2>4. QED
    BY <2>3
<1>3. CASE [term |-> u, node |-> n] \in elected' /\ r = R[u]
  <2>1. Stands(n, u, L[u], L)
    BY <1>3 DEF Stands
  <2>2. Prefix(L[u], r)
    BY <1>3 DEF Context, Grows, Prefix
  <2>3. QED
    BY <1>1, <2>1, <2>2
<1>4. QED
  BY <1>2, <1>3 DEF Stands

\* A leader, old or new, that appends to its log reaches what it reached.
LEMMA AppendReaches ==
    ASSUME NEW l \in Seq(Entry), NEW u \in Nat, NEW cmd \in Value \cup {Noop},
           \A i \in 1..Len(l) : l[i].term <= u,
           NEW t \in Nat, NEW i \in Nat \ {0}, Reaches(l, t, i)
    PROVE  Reaches(AppendOne(l, u, cmd), t, i)
<1> DEFINE r == AppendOne(l, u, cmd)
<1>1. r \in Seq(Entry) /\ Len(r) = Len(l) + 1 /\ r[Len(l) + 1].term = u
  BY AppendOnePointwise, ZenonT(40)
<1>2. /\ Len(l) \in Nat /\ LastTerm(l) \in Nat
      /\ Len(l) > 0 => LastTerm(l) = l[Len(l)].term
      /\ Len(l) = 0 => LastTerm(l) = 0
  BY LastTermIs
<1>3. LastTerm(l) <= u
  BY <1>2
<1>4. LastTerm(r) = u
  BY <1>1, <1>2, LastTermIs
<1>5. QED
  BY <1>1, <1>2, <1>3, <1>4 DEF Reaches

LEMMA AppendTerms ==
    ASSUME NEW l \in Seq(Entry), NEW u \in Nat, NEW cmd \in Value \cup {Noop},
           \A i \in 1..Len(l) : l[i].term <= u
    PROVE  \A i \in 1..Len(AppendOne(l, u, cmd)) : AppendOne(l, u, cmd)[i].term <= u
<1>1. /\ Len(AppendOne(l, u, cmd)) = Len(l) + 1 /\ AppendOne(l, u, cmd)[Len(l) + 1].term = u
      /\ \A i \in 1..Len(l) : AppendOne(l, u, cmd)[i] = l[i]
  BY AppendOnePointwise
<1>2. Len(l) \in Nat
  OBVIOUS
<1>3. QED
  BY <1>1, <1>2

LEMMA RootsOrderedStep ==
    ASSUME NEW L, NEW R, Context(L, R), RootsOrdered(L), TermsBelow, TermsGrow
    PROVE  RootsOrdered(R)
<1>1. CASE R = L
  BY <1>1
<1>2. ASSUME NEW n \in Server, NEW cmd \in Value \cup {Noop},
             state'[n] = "Leader", log'[n] = AppendOne(log[n], term'[n], cmd),
             R = [L EXCEPT ![term'[n]] = log'[n]]
      PROVE  RootsOrdered(R)
  <2>1. PICK l \in Seq(Entry) : l = log[n]
    BY DEF Context, TypeOK
  <2>2. PICK u \in Nat : u = term'[n]
    BY DEF Context, TypeOK
  <2>3. PICK r : r = AppendOne(l, u, cmd)
    OBVIOUS
  <2>4. /\ r \in Seq(Entry) /\ Len(r) = Len(l) + 1 /\ r[Len(l) + 1].term = u
        /\ \A i \in 1..Len(l) : r[i] = l[i]
    BY <2>3, AppendOnePointwise, ZenonT(40)
  <2>5. \A i \in 1..Len(l) : 0 < l[i].term /\ l[i].term <= u /\ l[i].term \in Nat
    <3>1. ASSUME NEW i \in 1..Len(l) PROVE 0 < l[i].term /\ l[i].term <= u /\ l[i].term \in Nat
      <4>1. l[i].term <= term[n] /\ term[n] \in Nat /\ term[n] <= u /\ l[i].term \in Nat
        BY <2>1, <2>2, EntryTerms DEF TermsBelow, TermsGrow, Context, TypeOK
      <4>2. l[i].term > 0
        BY <2>1 DEF Context, LogInv, GoodLogs, GoodLog
      <4>3. QED
        BY <4>1, <4>2
    <3>2. QED
      BY <3>1
  <2>6. u > 0
    BY <1>2, <2>2 DEF Context, LogInv, ContendersHaveTerm
  <2>7. Ordered(l)
    <3>1. Rooted(l, L) /\ L \in LeaderLogs
      BY <2>1 DEF Context, MatchInv, LogsRooted
    <3>2. QED
      BY <3>1, RootedOrdered
  <2>8. Len(l) \in Nat
    OBVIOUS
  <2>9. Ordered(r)
    <3>1. ASSUME NEW i \in 1..Len(r), NEW j \in 1..Len(r), i <= j PROVE r[i].term <= r[j].term
      <4>1. CASE j = Len(l) + 1
        <5>1. i = Len(l) + 1 \/ i \in 1..Len(l)
          BY <2>4, <2>8
        <5>2. QED
          BY <2>4, <2>5, <4>1, <5>1
      <4>2. CASE j # Len(l) + 1
        <5>1. i \in 1..Len(l) /\ j \in 1..Len(l)
          BY <2>4, <2>8, <3>1, <4>2
        <5>2. QED
          BY <2>4, <2>7, <3>1, <5>1 DEF Ordered
      <4>3. QED
        BY <4>1, <4>2
    <3>2. QED
      BY <3>1 DEF Ordered
  <2>10. \A i \in 1..Len(r) : 0 < r[i].term /\ r[i].term <= u
    BY <2>4, <2>5, <2>6, <2>8
  <2>11. R = [L EXCEPT ![u] = r] /\ L \in LeaderLogs
    BY <1>2, <2>1, <2>2, <2>3 DEF Context
  <2>12. R[u] = r /\ \A t \in Nat \ {u} : R[t] = L[t]
    BY <2>11 DEF LeaderLogs
  <2>13. ASSUME NEW t \in Nat
         PROVE  /\ Ordered(R[t])
                /\ \A i \in 1..Len(R[t]) : 0 < R[t][i].term /\ R[t][i].term <= t
                /\ Len(R[t]) > 0 => R[t][Len(R[t])].term = t
    <3>1. CASE t = u
      BY <2>4, <2>9, <2>10, <2>12, <3>1
    <3>2. CASE t # u
      BY <2>12, <3>2 DEF RootsOrdered
    <3>3. QED
      BY <3>1, <3>2
  <2>14. QED
    BY <2>13 DEF RootsOrdered
<1>3. QED
  BY <1>1, <1>2 DEF Context, Develops

\* Every step: terms only grow, logs have entries of terms their nodes have
\* reached, reach what they reached, and stand for the terms they stood for.
LEMMA LogsAdvance ==
    ASSUME NEW L, NEW R, Context(L, R), RootsOrdered(L), TermsBelow, EndsOwn(L)
    PROVE  TermsGrow /\ TermsBelow' /\ ReachGrows /\ StandsBefore(L, R)
<1> DEFINE Goal == TermsGrow /\ TermsBelow' /\ ReachGrows /\ StandsBefore(L, R)
<1>1. TypeOK /\ TypeOK' /\ LogInv /\ ElectionInv /\ MatchInv(L) /\ MatchInv(R)' /\ [Next]_vars
      /\ L \in LeaderLogs /\ R \in LeaderLogs /\ MaxRestarts = 0 /\ Grows(L, R)
  BY DEF Context
<1>2. \A n \in Server : /\ log[n] \in Seq(Entry) /\ log'[n] \in Seq(Entry)
                        /\ term[n] \in Nat /\ term'[n] \in Nat
  BY <1>1 DEF TypeOK
<1>3. \A n \in Server : \A i \in 1..Len(log[n]) :
        /\ log[n][i].term \in Nat /\ log[n][i].term <= term[n]
        /\ state[n] = "Candidate" => log[n][i].term < term[n]
  BY <1>2, EntryTerms DEF TermsBelow
<1>4. ASSUME Calm, log' = log PROVE TermsGrow /\ TermsBelow' /\ ReachGrows
  <2>1. TermsGrow
    BY <1>4 DEF Calm, TermsGrow
  <2>2. ASSUME NEW n \in Server, NEW i \in 1..Len(log'[n])
        PROVE  /\ log'[n][i].term <= term'[n]
               /\ state'[n] = "Candidate" => log'[n][i].term < term'[n]
    <3>1. i \in 1..Len(log[n]) /\ log'[n][i] = log[n][i]
      BY <1>4
    <3>2. /\ term'[n] >= term[n]
          /\ state'[n] = "Candidate" => state[n] = "Candidate" \/ term'[n] > term[n]
      BY <1>4 DEF Calm
    <3>3. QED
      BY <1>2, <1>3, <3>1, <3>2
  <2>3. ReachGrows
    BY <1>4 DEF ReachGrows
  <2>4. QED
    BY <2>1, <2>2, <2>3 DEF TermsBelow
<1>5. ASSUME NEW n \in Server, LeavesLogs(n) PROVE Goal
  <2>1. Calm /\ log' = log /\ UNCHANGED elected
    BY <1>5 DEF LeavesLogs
  <2>2. StandsBefore(L, R)
    BY <2>1, CalmStands
  <2>3. QED
    BY <1>4, <2>1, <2>2
<1>6. ASSUME NEW n \in Server, Commits(n) PROVE Goal
  <2>1. Calm /\ log' = log /\ UNCHANGED elected
    BY <1>1, <1>6 DEF Commits, Ready, TypeOK
  <2>2. StandsBefore(L, R)
    BY <2>1, CalmStands
  <2>3. QED
    BY <1>4, <2>1, <2>2
<1>7. ASSUME NEW n \in Server, Accepts(n) PROVE Goal
  <2>1. PICK m \in msgs :
          /\ m.type = "Append" /\ FollowSender(n, m)
          /\ LogConsistencyCheck(log[n], m.prevIndex, m.prevTerm)
          /\ Ready(n, AppendEntries(log[n], m.entries),
                   CommitTo(AppendEntries(log[n], m.entries), committed[n], m.commit))
    BY <1>7 DEF Accepts
  <2>2. PICK l \in Seq(Entry) : l = log[n]
    BY <1>2
  <2>3. PICK r \in Seq(Entry) : r = log'[n]
    BY <1>2
  <2>4. log' = [log EXCEPT ![n] = r] /\ r = AppendEntries(l, m.entries)
    BY <1>1, <2>1, <2>2, <2>3 DEF Ready, TypeOK
  <2>5. /\ m \in AppendMessage /\ GoodPiece(m) /\ PieceOf(m, L[m.term]) /\ OwnEnd(m, L)
        /\ GoodLog(l) /\ Rooted(l, L) /\ RootsRooted(L)
    BY <1>1, <2>1, <2>2, MessageShape
       DEF TypeOK, LogInv, GoodPieces, GoodLogs, MatchInv, PiecesOf, LogsRooted, EndsOwn
  <2>6. m.term \in Nat /\ term[n] <= m.term /\ term'[n] = m.term
    BY <1>1, <2>1, <2>5 DEF FollowSender, AppendMessage, TypeOK
  <2>7. \A i \in 1..Len(l) : l[i].term <= m.term
    BY <1>2, <1>3, <2>2, <2>6
  <2>8. /\ \A i \in 1..Len(r) : r[i].term <= m.term
        /\ \A t \in Nat, i \in Nat \ {0} : Reaches(l, t, i) => Reaches(r, t, i)
    BY <1>1, <2>1, <2>2, <2>4, <2>5, <2>7, AcceptEnds
  <2>9. Calm /\ UNCHANGED elected /\ state'[n] = "Follower"
    BY <1>7 DEF Accepts
  <2>10. \A p \in Server : p # n => log'[p] = log[p]
    BY <1>1, <2>4 DEF TypeOK
  <2>11. TermsGrow
    BY <2>9 DEF Calm, TermsGrow
  <2>12. ASSUME NEW p \in Server, NEW i \in 1..Len(log'[p])
         PROVE  /\ log'[p][i].term <= term'[p]
                /\ state'[p] = "Candidate" => log'[p][i].term < term'[p]
    <3>1. CASE p = n
      BY <2>3, <2>6, <2>8, <2>9, <3>1
    <3>2. CASE p # n
      <4>1. i \in 1..Len(log[p]) /\ log'[p][i] = log[p][i]
        BY <2>10, <3>2
      <4>2. /\ term'[p] >= term[p]
            /\ state'[p] = "Candidate" => state[p] = "Candidate" \/ term'[p] > term[p]
        BY <2>9 DEF Calm
      <4>3. QED
        BY <1>2, <1>3, <4>1, <4>2
    <3>3. QED
      BY <3>1, <3>2
  <2>13. ReachGrows
    <3>1. ASSUME NEW q \in Server, NEW t \in Nat, NEW i \in Nat \ {0}, Reaches(log[q], t, i)
          PROVE  Reaches(log'[q], t, i)
      <4>1. CASE q = n
        <5>1. Reaches(l, t, i)
          BY <2>2, <3>1, <4>1
        <5>2. Reaches(r, t, i)
          BY <2>8, <5>1
        <5>3. QED
          BY <2>3, <4>1, <5>2
      <4>2. CASE q # n
        <5>1. log'[q] = log[q]
          BY <2>10, <4>2
        <5>2. QED
          BY <3>1, <5>1
      <4>3. QED
        BY <4>1, <4>2
    <3>2. QED
      BY <3>1 DEF ReachGrows
  <2>14. StandsBefore(L, R)
    <3>1. \A p \in Server : state'[p] = "Candidate" => log'[p] = log[p]
      BY <2>9, <2>10
    <3>2. QED
      BY <2>9, <3>1, CalmStands
  <2>15. QED
    BY <2>11, <2>12, <2>13, <2>14 DEF TermsBelow
<1>8. ASSUME NEW n \in Server, NEW cmd \in Value \cup {Noop},
             log' = [log EXCEPT ![n] = AppendOne(log[n], term'[n], cmd)],
             TermsGrow, state'[n] = "Leader",
             \A p \in Server \ {n} :
                state'[p] = "Candidate" => state[p] = "Candidate" \/ term'[p] > term[p]
      PROVE  TermsBelow' /\ ReachGrows
  <2>1. PICK l \in Seq(Entry) : l = log[n]
    BY <1>2
  <2>2. PICK u \in Nat : u = term'[n]
    BY <1>2
  <2>3. PICK r : r = AppendOne(l, u, cmd)
    OBVIOUS
  <2>4. log'[n] = r /\ \A p \in Server : p # n => log'[p] = log[p]
    BY <1>1, <1>8, <2>1, <2>2, <2>3 DEF TypeOK
  <2>5. \A i \in 1..Len(l) : l[i].term <= u
    BY <1>2, <1>3, <1>8, <2>1, <2>2 DEF TermsGrow
  <2>6. \A i \in 1..Len(r) : r[i].term <= u
    BY <2>3, <2>5, AppendTerms
  <2>7. \A t \in Nat, i \in Nat \ {0} : Reaches(l, t, i) => Reaches(r, t, i)
    BY <2>3, <2>5, AppendReaches
  <2>8. ASSUME NEW p \in Server, NEW i \in 1..Len(log'[p])
        PROVE  /\ log'[p][i].term <= term'[p]
               /\ state'[p] = "Candidate" => log'[p][i].term < term'[p]
    <3>1. CASE p = n
      BY <1>8, <2>2, <2>4, <2>6, <3>1
    <3>2. CASE p # n
      <4>1. i \in 1..Len(log[p]) /\ log'[p][i] = log[p][i]
        BY <2>4, <3>2
      <4>2. /\ term'[p] >= term[p]
            /\ state'[p] = "Candidate" => state[p] = "Candidate" \/ term'[p] > term[p]
        BY <1>8, <3>2 DEF TermsGrow
      <4>3. QED
        BY <1>2, <1>3, <4>1, <4>2
    <3>3. QED
      BY <3>1, <3>2
  <2>9. ASSUME NEW q \in Server, NEW t \in Nat, NEW i \in Nat \ {0}, Reaches(log[q], t, i)
        PROVE  Reaches(log'[q], t, i)
    <3>1. CASE q = n
      <4>1. Reaches(l, t, i)
        BY <2>1, <2>9, <3>1
      <4>2. Reaches(r, t, i)
        BY <2>7, <4>1
      <4>3. QED
        BY <2>4, <3>1, <4>2
    <3>2. CASE q # n
      <4>1. log'[q] = log[q]
        BY <2>4, <3>2
      <4>2. QED
        BY <2>9, <4>1
    <3>3. QED
      BY <3>1, <3>2
  <2>10. QED
    BY <2>8, <2>9 DEF TermsBelow, ReachGrows
<1>9. ASSUME NEW n \in Server, Proposes(n) PROVE Goal
  <2>1. /\ Calm /\ UNCHANGED <<elected, term, state>> /\ state[n] = "Leader"
        /\ \E v \in Value : log' = [log EXCEPT ![n] = AppendOne(log[n], term[n], v)]
    BY <1>9 DEF Proposes, Ready
  <2>2. PICK v \in Value : log' = [log EXCEPT ![n] = AppendOne(log[n], term'[n], v)]
    BY <2>1
  <2>3. TermsGrow
    BY <2>1 DEF Calm, TermsGrow
  <2>4. v \in Value \cup {Noop} /\ state'[n] = "Leader"
        /\ \A p \in Server \ {n} :
             state'[p] = "Candidate" => state[p] = "Candidate" \/ term'[p] > term[p]
    BY <2>1
  <2>5. TermsBelow' /\ ReachGrows
    BY <1>8, <2>2, <2>3, <2>4
  <2>6. \A p \in Server : state'[p] = "Candidate" => log'[p] = log[p]
    BY <1>1, <2>2, <2>4 DEF TypeOK
  <2>7. StandsBefore(L, R)
    BY <2>1, <2>6, CalmStands
  <2>8. QED
    BY <2>3, <2>5, <2>7
<1>10. ASSUME NEW n \in Server, TakesOver(n) PROVE Goal
  <2>1. PICK l \in Seq(Entry) : l = log[n]
    BY <1>2
  <2>2. PICK u \in Nat : u = term'[n]
    BY <1>2
  <2>3. /\ state'[n] = "Leader"
        /\ u > term[n] \/ (u = term[n] /\ state[n] = "Candidate")
        /\ \A p \in Server \ {n} : term'[p] = term[p] /\ state'[p] = state[p]
        /\ log' = [log EXCEPT ![n] = AppendOne(log[n], term'[n], Noop)]
        /\ elected' = elected \cup {[term |-> u, node |-> n]}
    BY <1>10, <2>2 DEF TakesOver
  <2>4. TermsGrow
    BY <1>2, <2>2, <2>3 DEF TermsGrow
  <2>5. TermsBelow' /\ ReachGrows
    BY <1>8, <2>3, <2>4
  <2>6. ASSUME NEW p \in Server, NEW w \in Nat, NEW r \in Seq(Entry), Stands(p, w, r, R)',
               ~(w > term[p])
        PROVE  \E k \in Seq(Entry) : Stands(p, w, k, L) /\ Prefix(k, r)
    <3>1. CASE state'[p] = "Candidate" /\ term'[p] = w /\ r = log'[p]
      <4>1. p # n
        BY <2>3, <3>1
      <4>2. state[p] = "Candidate" /\ term[p] = w /\ r = log[p]
        BY <1>1, <2>3, <3>1, <4>1 DEF TypeOK
      <4>3. Stands(p, w, r, L) /\ Prefix(r, r)
        BY <4>2 DEF Stands, Prefix
      <4>4. QED
        BY <4>3
    <3>2. CASE [term |-> w, node |-> p] \in elected /\ r = R[w]
      <4>1. Stands(p, w, L[w], L) /\ L[w] \in Seq(Entry)
        BY <1>1, <3>2 DEF Stands, LeaderLogs
      <4>2. Prefix(L[w], r)
        BY <1>1, <3>2 DEF Grows, Prefix
      <4>3. QED
        BY <4>1, <4>2
    <3>3. CASE [term |-> w, node |-> p] = [term |-> u, node |-> n] /\ r = R[w]
      <4>1. w = u /\ p = n
        BY <3>3
      <4>2. u = term[n] /\ state[n] = "Candidate"
        BY <1>2, <2>3, <2>6, <4>1
      <4>3. Stands(n, u, l, L)
        BY <2>1, <4>2 DEF Stands
      <4>4. r = log'[n]
        BY <1>1, <2>2, <2>3, <3>3, <4>1 DEF MatchInv, LeadersRoot
      <4>5. log'[n] = AppendOne(l, u, Noop)
        BY <1>1, <2>1, <2>2, <2>3 DEF TypeOK
      <4>6. Prefix(l, AppendOne(l, u, Noop))
        <5>1. Noop \in Value \cup {Noop} /\ Len(l) \in Nat
          OBVIOUS
        <5>2. /\ Len(AppendOne(l, u, Noop)) = Len(l) + 1
              /\ \A i \in 1..Len(l) : AppendOne(l, u, Noop)[i] = l[i]
          BY <5>1, AppendOnePointwise
        <5>3. QED
          BY <5>1, <5>2 DEF Prefix
      <4>7. QED
        BY <4>1, <4>3, <4>4, <4>5, <4>6
    <3>4. QED
      BY <2>3, <2>6, <3>1, <3>2, <3>3 DEF Stands
  <2>7. QED
    BY <2>4, <2>5, <2>6 DEF StandsBefore
<1>11. ASSUME NEW n \in Server, Restart(n) PROVE Goal
  BY <1>1, <1>11 DEF TypeOK, Restart
<1>12. CASE UNCHANGED vars
  <2>1. UNCHANGED <<term, state, log, elected>>
    BY <1>12 DEF vars, serverVars, logVars, history
  <2>2. TermsGrow /\ TermsBelow' /\ ReachGrows
    BY <1>2, <2>1 DEF TermsGrow, TermsBelow, ReachGrows
  <2>3. Calm
    BY <1>2, <2>1 DEF Calm
  <2>4. StandsBefore(L, R)
    BY <2>1, <2>3, CalmStands
  <2>5. QED
    BY <2>2, <2>4
<1>13. QED
  BY <1>1, <1>5, <1>6, <1>7, <1>9, <1>10, <1>11, <1>12, StepKinds

-----------------------------------------------------------------------------
(* What is held stays held *)

\* Nobody has been voted for a term it has not reached.
BallotsReached == \A b \in ballots : b.term <= term[b.cand]

\* A vote request is of a term its sender has reached, and tells of the log with
\* which the sender stands for it.
VotesFaithful(L) ==
    \A m \in msgs : m.type = "Vote" =>
        /\ m.term <= term[m.from]
        /\ \A l \in Seq(Entry) : Stands(m.from, m.term, l, L) => Faithful(m, l)

HeldGrows(L, R) ==
    \A q \in Server, t \in Nat, i \in Nat \ {0} : Held(q, t, i, L) => Held(q, t, i, R)'

\* Votes are cast by campaigning and by granting a request.
LEMMA BallotSteps ==
    ASSUME Next
    PROVE  \/ UNCHANGED ballots
           \/ \E n \in Server : Timeout(n)
           \/ \E n \in Server, m \in msgs : GrantVote(n, m)
<1> USE DEF history
<1>1. ASSUME NEW n \in Server, NEW m \in msgs, Deliver(n, m)
      PROVE  GrantVote(n, m) \/ UNCHANGED ballots
  <2>1. CASE RejectVote(n, m)
    BY <2>1 DEF RejectVote
  <2>2. CASE HandleVoteGranted(n, m)
    BY <2>2 DEF HandleVoteGranted
  <2>3. CASE HandleVoteDenied(n, m)
    BY <2>3 DEF HandleVoteDenied
  <2>4. CASE HandleHeartbeat(n, m)
    BY <2>4 DEF HandleHeartbeat
  <2>5. CASE HandleAppendBehindCommit(n, m)
    BY <2>5 DEF HandleAppendBehindCommit
  <2>6. CASE HandleAppendReject(n, m)
    BY <2>6 DEF HandleAppendReject
  <2>7. CASE HandleAppendAccept(n, m)
    BY <2>7 DEF HandleAppendAccept
  <2>8. CASE HandleHeartbeatRsp(n, m)
    BY <2>8 DEF HandleHeartbeatRsp
  <2>9. CASE HandleAppendSuccess(n, m)
    BY <2>9 DEF HandleAppendSuccess
  <2>10. CASE HandleAppendRejected(n, m)
    BY <2>10 DEF HandleAppendRejected
  <2>11. CASE HandleForwardedProposal(n, m)
    BY <2>11 DEF HandleForwardedProposal, HandleProposal
  <2>12. CASE ForwardProposal(n, m)
    BY <2>12 DEF ForwardProposal
  <2>13. CASE ForwardHigherTermProposal(n, m)
    BY <2>13 DEF ForwardHigherTermProposal
  <2>14. CASE HandleHigherTermRsp(n, m)
    BY <2>14 DEF HandleHigherTermRsp
  <2>15. CASE Ignore(n, m)
    BY <2>15 DEF Ignore
  <2>16. QED
    BY <1>1, <2>1, <2>2, <2>3, <2>4, <2>5, <2>6, <2>7, <2>8, <2>9, <2>10, <2>11, <2>12, <2>13,
       <2>14, <2>15 DEF Deliver
<1>2. ASSUME NEW n \in Server, HeartbeatTimeout(n) PROVE UNCHANGED ballots
  BY <1>2 DEF HeartbeatTimeout
<1>3. ASSUME NEW n \in Server, Restart(n) PROVE UNCHANGED ballots
  BY <1>3 DEF Restart
<1>4. ASSUME NEW n \in Server, NEW v \in Value, ProposeAtLeader(n, v) PROVE UNCHANGED ballots
  BY <1>4 DEF ProposeAtLeader, HandleProposal
<1>5. ASSUME NEW n \in Server, NEW v \in Value, ProposeAtFollower(n, v) PROVE UNCHANGED ballots
  BY <1>5 DEF ProposeAtFollower
<1>6. ASSUME NEW m \in msgs, Lose(m) PROVE UNCHANGED ballots
  BY <1>6 DEF Lose
<1>7. QED
  BY <1>1, <1>2, <1>3, <1>4, <1>5, <1>6 DEF Next

\* A node that campaigns stands for the new term with the log it has, and a node
\* that wins at once with what its log grows into.
LEMMA TimeoutStands ==
    ASSUME NEW L, NEW R, Context(L, R), NEW n \in Server, Timeout(n),
           NEW u \in Nat, u = term[n] + 1, NEW r \in Seq(Entry), Stands(n, u, r, R)'
    PROVE  r = log'[n] /\ Prefix(log[n], r)
<1>0. TypeOK /\ TypeOK' /\ WinnersLead /\ MatchInv(R)'
  BY DEF Context
<1>1. /\ TypeOK /\ TypeOK' /\ WinnersLead /\ MatchInv(R)' /\ term[n] \in Nat
      /\ log[n] \in Seq(Entry) /\ Len(log[n]) \in Nat
  <2>1. term[n] \in Nat /\ log[n] \in Seq(Entry)
    BY <1>0 DEF TypeOK
  <2>2. QED
    BY <1>0, <2>1
<1>2. term' = [term EXCEPT ![n] = @ + 1]
  BY DEF Timeout
<1>3. term'[n] = term[n] + 1
  BY <1>1, <1>2 DEF TypeOK
<1>4. CASE Peers[n] = {} /\ BecomeLeader(n, term[n] + 1)
  <2>1. state' = [state EXCEPT ![n] = "Leader"]
        /\ log' = [log EXCEPT ![n] = AppendOne(@, term[n] + 1, Noop)]
    BY <1>4 DEF BecomeLeader
  <2>2. state'[n] = "Leader" /\ log'[n] = AppendOne(log[n], term[n] + 1, Noop)
    BY <1>1, <2>1 DEF TypeOK
  <2>3. log'[n] = R[term'[n]]
    BY <1>1, <2>2 DEF MatchInv, LeadersRoot
  <2>4. r = log'[n]
    BY <1>3, <2>2, <2>3 DEF Stands
  <2>5. PICK l \in Seq(Entry) : l = log[n]
    BY <1>1
  <2>6. /\ Len(AppendOne(l, u, Noop)) = Len(l) + 1
        /\ \A i \in 1..Len(l) : AppendOne(l, u, Noop)[i] = l[i]
    BY AppendOnePointwise
  <2>7. QED
    BY <1>1, <2>2, <2>4, <2>5, <2>6 DEF Prefix
<1>5. CASE UNCHANGED <<log, elected>>
  <2>1. [term |-> term[n] + 1, node |-> n] \notin elected
    <3>1. ASSUME NEW w \in elected, w.term = term[n] + 1, w.node = n PROVE FALSE
      BY <1>1, <3>1 DEF WinnersLead
    <3>2. QED
      BY <3>1
  <2>2. r = log'[n]
    BY <1>5, <2>1 DEF Stands
  <2>3. QED
    BY <1>5, <2>2 DEF Prefix
<1>6. QED
  BY <1>4, <1>5 DEF Timeout

LEMMA HeldStep ==
    ASSUME NEW L, NEW R, Context(L, R), TermsGrow, ReachGrows, StandsBefore(L, R),
           TermsBelow, BallotsReached, VotesFaithful(L)
    PROVE  HeldGrows(L, R) /\ BallotsReached'
<1>1. /\ TypeOK /\ TypeOK' /\ [Next]_vars /\ ElectionInv
      /\ \A n \in Server : term[n] \in Nat /\ term'[n] \in Nat /\ log[n] \in Seq(Entry)
                           /\ log'[n] \in Seq(Entry)
  BY DEF Context, TypeOK
<1>2. \A b \in ballots : b.voter \in Server /\ b.cand \in Server /\ b.term \in Nat
  BY <1>1 DEF TypeOK, Ballot
<1>3. ASSUME NEW n \in Server, Timeout(n), NEW b \in ballots', b \notin ballots
      PROVE  /\ b.voter = n /\ b.cand = n /\ b.term = term[n] + 1 /\ b.term = term'[n]
  <2>1. /\ term' = [term EXCEPT ![n] = @ + 1]
        /\ ballots' = ballots \cup {[voter |-> n, term |-> term[n] + 1, cand |-> n]}
    BY <1>3 DEF Timeout
  <2>2. QED
    BY <1>1, <1>3, <2>1 DEF TypeOK
<1>4. ASSUME NEW n \in Server, NEW m \in msgs, GrantVote(n, m), NEW b \in ballots', b \notin ballots
      PROVE  /\ b.voter = n /\ b.cand = m.from /\ b.term = m.term
             /\ m \in VoteMessage /\ m.type = "Vote" /\ m.from \in Server /\ m.term \in Nat
             /\ IsUpToDate(log[n], m.lastIndex, m.lastTerm)
  <2>1. /\ m.type = "Vote" /\ IsUpToDate(log[n], m.lastIndex, m.lastTerm)
        /\ ballots' = ballots \cup {[voter |-> n, term |-> m.term, cand |-> m.from]}
    BY <1>4 DEF GrantVote
  <2>2. m \in VoteMessage
    BY <1>1, <2>1, MessageShape DEF TypeOK
  <2>3. QED
    BY <1>4, <2>1, <2>2 DEF VoteMessage
<1>5. BallotsReached'
  <2>1. ASSUME NEW b \in ballots' PROVE b.term <= term'[b.cand]
    <3>1. CASE b \in ballots
      BY <1>1, <1>2, <3>1 DEF BallotsReached, TermsGrow
    <3>2. CASE b \notin ballots
      <4>1. ~(UNCHANGED ballots) /\ Next
        BY <1>1, <2>1, <3>2 DEF vars, history
      <4>2. ASSUME NEW n \in Server, Timeout(n) PROVE b.term <= term'[b.cand]
        BY <1>1, <1>3, <2>1, <3>2, <4>2
      <4>3. ASSUME NEW n \in Server, NEW m \in msgs, GrantVote(n, m) PROVE b.term <= term'[b.cand]
        <5>1. b.cand = m.from /\ b.term = m.term /\ m.type = "Vote" /\ m.from \in Server
              /\ m.term \in Nat
          BY <1>4, <2>1, <3>2, <4>3
        <5>2. m.term <= term[m.from]
          BY <5>1 DEF VotesFaithful
        <5>3. QED
          BY <1>1, <5>1, <5>2 DEF TermsGrow
      <4>4. QED
        BY <4>1, <4>2, <4>3, BallotSteps
    <3>3. QED
      BY <3>1, <3>2
  <2>2. QED
    BY <2>1 DEF BallotsReached
<1>6. ASSUME NEW q \in Server, NEW t \in Nat, NEW i \in Nat \ {0}, Held(q, t, i, L),
             NEW b \in ballots', b.voter = q, b.term > t,
             NEW r \in Seq(Entry), Stands(b.cand, b.term, r, R)'
      PROVE  Covers(r, t, i, b.term)
  <2>1. Reaches(log[q], t, i)
    BY <1>6 DEF Held
  <2>2. CASE b \in ballots
    <3>1. b.cand \in Server /\ b.term \in Nat /\ ~(b.term > term[b.cand])
      BY <1>1, <1>2, <2>2 DEF BallotsReached
    <3>2. PICK l \in Seq(Entry) : Stands(b.cand, b.term, l, L) /\ Prefix(l, r)
      BY <1>6, <3>1 DEF StandsBefore
    <3>3. Covers(l, t, i, b.term)
      BY <1>6, <2>2, <3>2 DEF Held
    <3>4. QED
      BY <3>2, <3>3, CoversGrows
  <2>3. CASE b \notin ballots
    <3>1. ~(UNCHANGED ballots) /\ Next
      BY <1>1, <1>6, <2>3 DEF vars, history
    <3>2. ASSUME NEW n \in Server, Timeout(n) PROVE Covers(r, t, i, b.term)
      <4>1. b.voter = n /\ b.cand = n /\ b.term = term[n] + 1 /\ q = n
        BY <1>3, <1>6, <2>3, <3>2
      <4>2. PICK u \in Nat : u = b.term
        BY <1>1, <4>1
      <4>3. Prefix(log[n], r)
        <5>1. Stands(n, u, r, R)' /\ u = term[n] + 1
          BY <1>6, <4>1, <4>2
        <5>2. QED
          BY <3>2, <5>1, TimeoutStands
      <4>4. PICK l \in Seq(Entry) : l = log[n]
        BY <1>1
      <4>6. \A j \in 1..Len(l) : l[j].term < u
        <5>1. ASSUME NEW j \in 1..Len(l) PROVE l[j].term < u
          <6>1. l[j].term <= term[n] /\ l[j].term \in Nat
            BY <4>4, EntryTerms DEF TermsBelow
          <6>2. QED
            BY <1>1, <4>1, <4>2, <6>1
        <5>2. QED
          BY <5>1
      <4>7. Covers(l, t, i, u)
        BY <1>6, <2>1, <4>1, <4>2, <4>4, <4>6, ReachesCovers
      <4>8. QED
        BY <4>2, <4>3, <4>4, <4>7, CoversGrows
    <3>3. ASSUME NEW n \in Server, NEW m \in msgs, GrantVote(n, m) PROVE Covers(r, t, i, b.term)
      <4>1. /\ b.voter = n /\ b.cand = m.from /\ b.term = m.term /\ m \in VoteMessage
            /\ m.type = "Vote" /\ m.from \in Server /\ m.term \in Nat
            /\ IsUpToDate(log[n], m.lastIndex, m.lastTerm)
        BY <1>4, <1>6, <2>3, <3>3
      <4>2. m.term <= term[m.from] /\ term[m.from] \in Nat
        BY <1>1, <4>1 DEF VotesFaithful
      <4>3. ~(b.term > term[b.cand]) /\ b.cand \in Server /\ b.term \in Nat
        BY <4>1, <4>2
      <4>4. PICK l \in Seq(Entry) : Stands(b.cand, b.term, l, L) /\ Prefix(l, r)
        BY <1>6, <4>3 DEF StandsBefore
      <4>5. Faithful(m, l)
        BY <4>1, <4>4 DEF VotesFaithful
      <4>6. PICK k \in Seq(Entry) : k = log[n]
        BY <1>1
      <4>7. IsUpToDate(k, m.lastIndex, m.lastTerm) /\ Reaches(k, t, i)
        BY <1>6, <2>1, <4>1, <4>6
      <4>8. Covers(l, t, i, m.term)
        BY <4>1, <4>5, <4>7, VoteCovers
      <4>9. QED
        BY <4>1, <4>4, <4>8, CoversGrows
    <3>4. QED
      BY <3>1, <3>2, <3>3, BallotSteps
  <2>4. QED
    BY <2>2, <2>3
<1>7. ASSUME NEW q \in Server, NEW t \in Nat, NEW i \in Nat \ {0}, Held(q, t, i, L)
      PROVE  Held(q, t, i, R)'
  <2>1. Reaches(log'[q], t, i)
    BY <1>7 DEF Held, ReachGrows
  <2>2. QED
    BY <1>6, <1>7, <2>1 DEF Held
<1>8. QED
  BY <1>5, <1>7 DEF HeldGrows

-----------------------------------------------------------------------------
(* What is committed is in the log of every later leader *)

\* Who holds an entry holds the entries before it.
LEMMA HeldDown ==
    ASSUME TypeOK, NEW q \in Server, NEW t \in Nat, NEW c \in Nat, NEW i \in 1..c, NEW L,
           Held(q, t, c, L)
    PROVE  Held(q, t, i, L)
<1>1. log[q] \in Seq(Entry)
  BY DEF TypeOK
<1>2. Reaches(log[q], t, i)
  BY <1>1, LastTermIs DEF Held, Reaches
<1>3. ASSUME NEW b \in ballots, b.voter = q, b.term > t, NEW l \in Seq(Entry),
             Stands(b.cand, b.term, l, L)
      PROVE  Covers(l, t, i, b.term)
  <2>1. Covers(l, t, c, b.term)
    BY <1>3 DEF Held
  <2>2. QED
    BY <2>1 DEF Covers
<1>4. QED
  BY <1>2, <1>3 DEF Held

LEMMA PointDown ==
    ASSUME TypeOK, NEW L \in LeaderLogs, NEW t \in Nat, NEW c \in Nat, NEW i \in 1..c,
           Point(t, c, L), L[t][i].term = t
    PROVE  Point(t, i, L)
<1>1. PICK Q \in SUBSET Server : Majority(Q) /\ \A q \in Q : Held(q, t, c, L)
  BY DEF Point
<1>2. \A q \in Q : Held(q, t, i, L)
  BY <1>1, HeldDown
<1>3. i \in 1..Len(L[t])
  BY DEF Point
<1>4. QED
  BY <1>1, <1>2, <1>3 DEF Point

\* The first leader without the entry would have been elected by a node that
\* holds it, with a log that covers it: it has the entry, or one of a later
\* leader's, who would have had the entry.
LEMMA CommittedStays ==
    ASSUME TypeOK, ElectionInv, NEW L \in LeaderLogs, MatchInv(L), RootsOrdered(L),
           NEW t \in Nat, NEW c \in Nat, Point(t, c, L)
    PROVE  \A u \in Nat : u > t /\ Won(u) => c <= Len(L[u]) /\ L[u][c] = L[t][c]
<1> DEFINE Lacks == {u \in Nat : u > t /\ Won(u) /\ ~(c <= Len(L[u]) /\ L[u][c] = L[t][c])}
<1> SUFFICES ASSUME Lacks # {} PROVE FALSE
  OBVIOUS
<1>1. PICK x \in Lacks : \A y \in Lacks : x <= y
  BY NatMin
<1>2. x \in Nat /\ x > t /\ Won(x) /\ ~(c <= Len(L[x]) /\ L[x][c] = L[t][c])
  OBVIOUS
<1>3. \A y \in Nat : y > t /\ y < x /\ Won(y) => c <= Len(L[y]) /\ L[y][c] = L[t][c]
  BY <1>1
<1> HIDE DEF Lacks
<1>4. PICK w \in elected : w.term = x
  BY <1>2 DEF Won
<1>5. w.node \in Server /\ w = [term |-> x, node |-> w.node]
  BY <1>4 DEF TypeOK, Win
<1>6. PICK V \in SUBSET Server :
        /\ Cardinality(V) * 2 > Cardinality(Server)
        /\ \A v \in V : [voter |-> v, term |-> w.term, cand |-> w.node] \in ballots
  BY DEF ElectionInv, WinsHaveMajority
<1>7. PICK Q \in SUBSET Server : Majority(Q) /\ \A q \in Q : Held(q, t, c, L)
  BY DEF Point
<1>8. PICK q \in Server : q \in V /\ q \in Q
  BY <1>6, <1>7, MajoritiesMeet DEF Majority
<1>9. L[x] \in Seq(Entry) /\ L[t] \in Seq(Entry)
  BY <1>2 DEF LeaderLogs
<1>10. c \in 1..Len(L[t]) /\ L[t][c].term = t
  BY DEF Point
<1>11. Covers(L[x], t, c, x)
  <2>1. PICK b \in ballots : b = [voter |-> q, term |-> x, cand |-> w.node]
    BY <1>4, <1>6, <1>8
  <2>2. Stands(w.node, x, L[x], L)
    BY <1>4, <1>5 DEF Stands
  <2>3. Held(q, t, c, L)
    BY <1>7, <1>8
  <2>4. b.voter = q /\ b.term = x /\ b.cand = w.node
    BY <2>1
  <2>5. QED
    BY <1>2, <1>9, <2>2, <2>3, <2>4 DEF Held
<1>12. PICK j \in 1..Len(L[x]) : \/ t < L[x][j].term /\ L[x][j].term < x
                                 \/ L[x][j].term = t /\ j >= c
  BY <1>11 DEF Covers
<1>13. Rooted(L[x], L)
  BY <1>2 DEF MatchInv, RootsRooted
<1>14. PICK v \in Nat : v = L[x][j].term
  BY <1>9, EntryTerms
<1>15. j <= Len(L[v]) /\ \A k \in 1..j : L[x][k] = L[v][k]
  BY <1>13, <1>14 DEF Rooted
<1>16. CASE v = t /\ j >= c
  <2>1. c \in 1..j /\ c <= Len(L[x])
    BY <1>9, <1>10, <1>16
  <2>2. QED
    BY <1>2, <1>15, <1>16, <2>1
<1>17. CASE t < v /\ v < x
  <2>1. L[v] \in Seq(Entry) /\ j \in 1..Len(L[v])
    BY <1>15 DEF LeaderLogs
  <2>2. Won(v)
    <3>1. Len(L[v]) # 0
      BY <2>1
    <3>2. QED
      BY <3>1 DEF MatchInv, OnlyElected, Won
  <2>3. c <= Len(L[v]) /\ L[v][c] = L[t][c]
    BY <1>3, <1>17, <2>2
  <2>4. c \in 1..Len(L[v]) /\ L[v][j].term = v
    <3>1. c \in 1..Len(L[v])
      BY <1>10, <2>1, <2>3
    <3>2. j \in 1..j
      OBVIOUS
    <3>3. L[x][j] = L[v][j]
      BY <1>15, <3>2
    <3>4. QED
      BY <1>14, <3>1, <3>3
  <2>5. c < j
    <3>1. ASSUME j <= c PROVE FALSE
      <4>1. L[v][j].term <= L[v][c].term
        BY <2>1, <2>4, <3>1 DEF RootsOrdered, Ordered
      <4>2. QED
        BY <1>10, <1>17, <2>3, <2>4, <4>1
    <3>2. QED
      BY <3>1
  <2>6. c \in 1..j /\ c <= Len(L[x])
    BY <1>9, <1>10, <2>5
  <2>7. QED
    BY <1>2, <1>15, <2>3, <2>6
<1>18. QED
  BY <1>12, <1>14, <1>16, <1>17

\* What is committed, a leader may credit to anybody.
LEMMA ReportedCredit ==
    ASSUME TypeOK, ElectionInv, NEW L \in LeaderLogs, MatchInv(L), RootsOrdered(L),
           NEW t \in Nat, NEW k \in Nat, Won(t), Reported(k, t, L), NEW p
    PROVE  Credit(p, t, k, L)
<1>1. CASE k = 0
  BY <1>1 DEF Credit, LeaderLogs
<1>2. ASSUME NEW s \in 0..t, NEW c \in Nat, k <= c, Point(s, c, L), k > 0
      PROVE  Credit(p, t, k, L)
  <2>1. s \in Nat /\ L[s] \in Seq(Entry) /\ L[t] \in Seq(Entry)
    BY DEF LeaderLogs
  <2>2. c \in 1..Len(L[s]) /\ L[s][c].term = s
    BY <1>2 DEF Point
  <2>3. CASE s = t
    <3>1. k <= Len(L[t])
      BY <1>2, <2>1, <2>2, <2>3
    <3>2. ASSUME NEW i \in 1..k, L[t][i].term = t PROVE Point(t, i, L)
      BY <1>2, <2>3, <3>2, PointDown
    <3>3. QED
      BY <3>1, <3>2 DEF Credit
  <2>4. CASE s < t
    <3>1. c <= Len(L[t]) /\ L[t][c] = L[s][c]
      BY <1>2, <2>1, <2>4, CommittedStays
    <3>2. c \in 1..Len(L[t]) /\ L[t][c].term = s
      BY <2>1, <2>2, <3>1
    <3>3. k <= Len(L[t])
      BY <1>2, <2>1, <3>2
    <3>4. ASSUME NEW i \in 1..k PROVE L[t][i].term # t
      <4>1. i \in 1..Len(L[t]) /\ i <= c
        BY <1>2, <2>1, <3>2
      <4>2. L[t][i].term <= s
        BY <3>2, <4>1 DEF RootsOrdered, Ordered
      <4>3. QED
        BY <2>4, <4>2
    <3>5. QED
      BY <3>3, <3>4 DEF Credit
  <2>5. QED
    BY <2>1, <2>3, <2>4
<1>3. QED
  BY <1>1, <1>2 DEF Reported

-----------------------------------------------------------------------------
(* Beliefs stay true *)

\* What L's terms say of an entry, of a node's progress and of a commit index
\* is still true of R's terms after the step.
BeliefsGrow(L, R) ==
    /\ \A t \in Nat, c \in Nat : Point(t, c, L) => Point(t, c, R)'
    /\ \A p \in Server, t \in Nat, k \in Nat : Credit(p, t, k, L) => Credit(p, t, k, R)'
    /\ \A k \in Nat, t \in Nat : Reported(k, t, L) => Reported(k, t, R)'

LEMMA BeliefsStep ==
    ASSUME NEW L \in LeaderLogs, NEW R \in LeaderLogs, Grows(L, R), HeldGrows(L, R)
    PROVE  BeliefsGrow(L, R)
<1>1. \A t \in Nat : /\ L[t] \in Seq(Entry) /\ R[t] \in Seq(Entry) /\ Len(L[t]) \in Nat
                     /\ Len(R[t]) \in Nat
                     /\ Len(L[t]) <= Len(R[t]) /\ \A j \in 1..Len(L[t]) : R[t][j] = L[t][j]
  <2>1. \A t \in Nat : L[t] \in Seq(Entry) /\ R[t] \in Seq(Entry)
    BY DEF LeaderLogs
  <2>2. QED
    BY <2>1 DEF Grows
<1>2. ASSUME NEW t \in Nat, NEW c \in Nat, Point(t, c, L) PROVE Point(t, c, R)'
  <2>1. PICK Q \in SUBSET Server : Majority(Q) /\ \A q \in Q : Held(q, t, c, L)
    BY <1>2 DEF Point
  <2>2. c \in 1..Len(L[t]) /\ L[t][c].term = t
    BY <1>2 DEF Point
  <2>3. c \in 1..Len(R[t]) /\ R[t][c].term = t /\ c \in Nat \ {0}
    BY <1>1, <2>2
  <2>4. \A q \in Q : Held(q, t, c, R)'
    BY <2>1, <2>3 DEF HeldGrows
  <2>5. QED
    BY <2>1, <2>3, <2>4 DEF Point
<1>3. ASSUME NEW p \in Server, NEW t \in Nat, NEW k \in Nat, Credit(p, t, k, L)
      PROVE  Credit(p, t, k, R)'
  <2>1. k <= Len(L[t]) /\ k <= Len(R[t])
    BY <1>1, <1>3 DEF Credit
  <2>2. ASSUME NEW i \in 1..k, R[t][i].term = t PROVE Held(p, t, i, R)' \/ Point(t, i, R)'
    <3>1. i \in 1..Len(L[t]) /\ i \in Nat \ {0} /\ L[t][i].term = t
      BY <1>1, <2>1, <2>2
    <3>2. Held(p, t, i, L) \/ Point(t, i, L)
      BY <1>3, <3>1 DEF Credit
    <3>3. QED
      BY <1>2, <3>1, <3>2 DEF HeldGrows
  <2>3. QED
    BY <2>1, <2>2 DEF Credit
<1>4. ASSUME NEW k \in Nat, NEW t \in Nat, Reported(k, t, L) PROVE Reported(k, t, R)'
  <2>1. CASE k = 0
    BY <2>1 DEF Reported
  <2>2. CASE k # 0
    <3>1. PICK s \in 0..t, c \in Nat : k <= c /\ Point(s, c, L)
      BY <1>4, <2>2 DEF Reported
    <3>2. Point(s, c, R)'
      BY <1>2, <3>1
    <3>3. QED
      BY <3>1, <3>2 DEF Reported
  <2>3. QED
    BY <2>1, <2>2
<1>5. QED
  BY <1>2, <1>3, <1>4 DEF BeliefsGrow

\* A later term has seen no fewer commits.
LEMMA ReportedLater ==
    ASSUME NEW L, NEW k \in Nat, NEW t \in Nat, NEW u \in Nat, t <= u, Reported(k, t, L)
    PROVE  Reported(k, u, L)
BY DEF Reported

\* Nor has a smaller index.
LEMMA ReportedLess ==
    ASSUME NEW L, NEW k \in Nat, NEW j \in Nat, NEW t \in Nat, j <= k, Reported(k, t, L)
    PROVE  Reported(j, t, L)
BY DEF Reported

-----------------------------------------------------------------------------
(* What messages say *)

StandsFor(m, L) ==
    /\ m.term <= term[m.from]
    /\ \A l \in Seq(Entry) : Stands(m.from, m.term, l, L) => Faithful(m, l)

FromLeader(m, L) == Won(m.term) /\ Reported(m.commit, m.term, L)

\* A response reports an entry of the leader's own term, or nothing; a rejection
\* always reports nothing.
Told(m, L) ==
    /\ Credit(m.from, m.term, m.index, L)
    /\ m.index > 0 => L[m.term][m.index].term = m.term
    /\ m.reject => m.index = 0

\* What a message in flight says is true: of the log its sender stands with, of
\* what is committed, of the leader's log, of what the sender holds.
MsgOK(m, L) ==
    /\ m.type = "Vote" => StandsFor(m, L)
    /\ m.type \in {"Heartbeat", "Append"} => FromLeader(m, L)
    /\ m.type = "Append" => OwnEnd(m, L)
    /\ m.type = "AppendRsp" => Told(m, L)

\* The same of a message that is about to be sent; the gRPC transport drops what
\* an append response says.
Sendable(m, L) ==
    /\ m.type = "Vote" => StandsFor(m, L)
    /\ m.type \in {"Heartbeat", "Append"} => FromLeader(m, L)
    /\ m.type = "Append" => OwnEnd(m, L)
    /\ m.type = "AppendRsp" /\ Transport = "mem" => Told(m, L)

NetOK(L) == \A m \in msgs : MsgOK(m, L)

LEMMA ElectedGrows ==
    ASSUME TypeOK, [Next]_vars
    PROVE  elected \subseteq elected'
<1>1. CASE UNCHANGED vars
  BY <1>1 DEF vars, history
<1>2. CASE Next
  <2>1. PICK n \in Server : \/ LeavesLogs(n) \/ Commits(n) \/ Accepts(n) \/ Proposes(n)
                            \/ TakesOver(n) \/ Restart(n)
    BY <1>2, StepKinds
  <2>2. CASE Restart(n)
    BY <2>2 DEF Restart, history
  <2>3. QED
    BY <2>1, <2>2 DEF LeavesLogs, Commits, Accepts, Proposes, TakesOver
<1>3. QED
  BY <1>1, <1>2

LEMMA OwnNextGrows ==
    ASSUME NEW l \in Seq(Entry), NEW r \in Seq(Entry), Len(l) <= Len(r),
           \A j \in 1..Len(l) : r[j] = l[j], NEW t, NEW i \in Nat
    PROVE  /\ OwnNext(l, t, i) => OwnNext(r, t, i)
           /\ Askable(l, t, i) => Askable(r, t, i)
<1>1. Len(l) \in Nat /\ Len(r) \in Nat
  OBVIOUS
<1>2. OwnNext(l, t, i) => OwnNext(r, t, i)
  BY <1>1 DEF OwnNext
<1>3. QED
  BY <1>1, <1>2 DEF Askable

\* What the leader sends or hears of from its own entries on is its own.
LEMMA OwnFrom ==
    ASSUME NEW L \in LeaderLogs, RootsOrdered(L), NEW t \in Nat, NEW i \in Nat,
           OwnNext(L[t], t, i), NEW k \in 1..Len(L[t]), k >= i
    PROVE  L[t][k].term = t
<1>1. L[t] \in Seq(Entry) /\ Len(L[t]) \in Nat
  BY DEF LeaderLogs
<1>2. PICK j \in 1..Len(L[t]) : L[t][j].term = t /\ (j = i \/ j + 1 = i)
  BY DEF OwnNext
<1>3. j <= k
  BY <1>1, <1>2
<1>4. L[t][j].term <= L[t][k].term /\ L[t][k].term <= t
  BY <1>2, <1>3 DEF RootsOrdered, Ordered
<1>5. L[t][k].term \in Nat
  BY <1>1, EntryTerms
<1>6. QED
  BY <1>2, <1>4, <1>5

LEMMA OwnEndGrows ==
    ASSUME NEW L \in LeaderLogs, NEW R \in LeaderLogs, Grows(L, R), NEW m \in AppendMessage,
           OwnEnd(m, L)
    PROVE  OwnEnd(m, R)
<1>1. m.term \in Nat /\ L[m.term] \in Seq(Entry) /\ R[m.term] \in Seq(Entry)
  BY DEF AppendMessage, LeaderLogs
<1>2. /\ Len(L[m.term]) <= Len(R[m.term])
      /\ \A j \in 1..Len(L[m.term]) : R[m.term][j] = L[m.term][j]
  BY <1>1 DEF Grows
<1>3. Len(L[m.term]) \in Nat /\ Len(R[m.term]) \in Nat
  BY <1>1
<1>4. m.prevIndex + 1 \in Nat
  BY DEF AppendMessage
<1>5. OwnNext(L[m.term], m.term, m.prevIndex + 1) => OwnNext(R[m.term], m.term, m.prevIndex + 1)
  BY <1>1, <1>2, <1>4, OwnNextGrows
<1>6. QED
  BY <1>2, <1>3, <1>5 DEF OwnEnd

LEMMA FaithfulGrows ==
    ASSUME NEW l \in Seq(Entry), NEW r \in Seq(Entry), Prefix(l, r), NEW m, Faithful(m, l)
    PROVE  Faithful(m, r)
BY DEF Prefix, Faithful

\* A message in flight goes on being true.
LEMMA MsgStays ==
    ASSUME NEW L, NEW R, Context(L, R), TermsGrow, StandsBefore(L, R), BeliefsGrow(L, R),
           NEW m \in msgs, MsgOK(m, L)
    PROVE  MsgOK(m, R)'
<1>1. TypeOK /\ [Next]_vars /\ L \in LeaderLogs /\ R \in LeaderLogs /\ Grows(L, R)
  BY DEF Context
<1>2. \A t : Won(t) => Won(t)'
  BY <1>1, ElectedGrows DEF Won
<1>3. m \in Message
  BY <1>1 DEF TypeOK
<1>4. ASSUME m.type = "Vote" PROVE StandsFor(m, R)'
  <2>1. m.from \in Server /\ m.term \in Nat /\ term[m.from] \in Nat /\ term'[m.from] \in Nat
    BY <1>3, <1>4, MessageShape DEF VoteMessage, Context, TypeOK
  <2>2. /\ m.term <= term[m.from]
        /\ \A l \in Seq(Entry) : Stands(m.from, m.term, l, L) => Faithful(m, l)
    BY <1>4 DEF MsgOK, StandsFor
  <2>3. m.term <= term'[m.from]
    BY <2>1, <2>2 DEF TermsGrow
  <2>4. ASSUME NEW r \in Seq(Entry), Stands(m.from, m.term, r, R)' PROVE Faithful(m, r)
    <3>1. PICK l \in Seq(Entry) : Stands(m.from, m.term, l, L) /\ Prefix(l, r)
      BY <2>1, <2>2, <2>4 DEF StandsBefore
    <3>2. QED
      BY <2>2, <3>1, FaithfulGrows
  <2>5. QED
    BY <2>3, <2>4 DEF StandsFor
<1>5. ASSUME m.type \in {"Heartbeat", "Append"} PROVE FromLeader(m, R)'
  <2>1. m.term \in Nat /\ m.commit \in Nat
    BY <1>3, <1>5, MessageShape DEF HeartbeatMessage, AppendMessage
  <2>2. Won(m.term) /\ Reported(m.commit, m.term, L)
    BY <1>5 DEF MsgOK, FromLeader
  <2>3. QED
    BY <1>2, <2>1, <2>2 DEF FromLeader, BeliefsGrow
<1>6. ASSUME m.type = "Append" PROVE OwnEnd(m, R)
  <2>1. m \in AppendMessage /\ OwnEnd(m, L)
    BY <1>3, <1>6, MessageShape DEF MsgOK
  <2>2. QED
    BY <1>1, <2>1, OwnEndGrows
<1>7. ASSUME m.type = "AppendRsp" PROVE Told(m, R)'
  <2>1. m.from \in Server /\ m.term \in Nat /\ m.index \in Nat
    BY <1>3, <1>7, MessageShape DEF AppendRspMessage
  <2>2. Told(m, L)
    BY <1>7 DEF MsgOK
  <2>3. Credit(m.from, m.term, m.index, R)'
    BY <2>1, <2>2 DEF Told, BeliefsGrow
  <2>4. ASSUME m.index > 0 PROVE R[m.term][m.index].term = m.term
    <3>1. L[m.term] \in Seq(Entry) /\ m.index <= Len(L[m.term])
      BY <1>1, <2>1, <2>2 DEF Told, Credit, LeaderLogs
    <3>2. m.index \in 1..Len(L[m.term])
      BY <2>1, <2>4, <3>1
    <3>3. R[m.term][m.index] = L[m.term][m.index]
      BY <1>1, <2>1, <3>2 DEF Grows
    <3>4. QED
      BY <2>2, <2>4, <3>3 DEF Told
  <2>5. QED
    BY <2>2, <2>3, <2>4 DEF Told
<1>8. QED
  BY <1>4, <1>5, <1>6, <1>7 DEF MsgOK, OwnEnd, OwnNext

\* Neither transport makes a true message false.
LEMMA WireKeeps ==
    ASSUME NEW R \in LeaderLogs, NEW m \in Message, Sendable(m, R)', NEW w \in OnWire(m)
    PROVE  MsgOK(w, R)'
<1>1. CASE Transport = "mem"
  BY <1>1 DEF OnWire, Sendable, MsgOK
<1>2. CASE Transport = "grpc"
  <2>1. m.type \in {"Vote", "VoteRsp", "Heartbeat", "HeartbeatRsp", "Append", "AppendRsp", "Propose"}
    BY DEF Message, VoteMessage, VoteRspMessage, HeartbeatMessage, HeartbeatRspMessage,
           AppendMessage, AppendRspMessage, ProposeMessage
  <2>2. CASE m.type = "Heartbeat"
    <3>1. w = AppendMsg(m.from, m.to, m.term, 1, <<>>, m.commit)
      BY <1>2, <2>2 DEF OnWire
    <3>2. w.type = "Append" /\ w.term = m.term /\ w.commit = m.commit
      BY <3>1 DEF AppendMsg
    <3>3. w.entries = <<>> /\ w.prevIndex = 0
      <4>1. m.type \in OtherType /\ w # m
        BY <2>2, <3>2 DEF OtherType
      <4>2. QED
        BY <3>2, <4>1, OnWireAppend
    <3>4. FromLeader(w, R)'
      BY <2>2, <3>2 DEF Sendable, FromLeader
    <3>5. QED
      BY <1>2, <3>2, <3>3, <3>4 DEF MsgOK, OwnEnd
  <2>3. CASE m.type = "Vote"
    <3>1. w = VoteMsg(m.from, m.to, m.term, <<>>)
      BY <1>2, <2>3 DEF OnWire
    <3>2. w.type = "Vote" /\ w.term = m.term /\ w.from = m.from
      BY <3>1 DEF VoteMsg
    <3>3. w.lastIndex = 0 /\ w.lastTerm = 0
      <4>1. <<>> \in Seq(Entry) /\ Len(<<>>) = 0
        BY EmptySeq
      <4>2. LastIndex(<<>>) = 0 /\ LastTerm(<<>>) = 0
        BY <4>1, LastTermIs DEF LastIndex
      <4>3. QED
        BY <3>1, <4>2 DEF VoteMsg
    <3>4. \A l : Faithful(w, l)
      BY <3>3 DEF Faithful
    <3>5. QED
      BY <2>3, <3>2, <3>4 DEF MsgOK, Sendable, StandsFor
  <2>4. CASE m.type = "AppendRsp"
    <3>1. w = AppendRspMsg(m.from, m.to, m.term, 0, FALSE, m.conflict)
      BY <1>2, <2>4 DEF OnWire
    <3>2. w.type = "AppendRsp" /\ w.term = m.term /\ w.index = 0 /\ m.term \in Nat
      BY <2>4, <3>1, MessageShape DEF AppendRspMsg, AppendRspMessage
    <3>3. Credit(w.from, w.term, 0, R)'
      BY <3>2 DEF Credit, LeaderLogs
    <3>4. Told(w, R)'
      BY <3>2, <3>3 DEF Told
    <3>5. QED
      BY <3>2, <3>4 DEF MsgOK
  <2>5. CASE m.type \in {"Append", "VoteRsp"}
    <3>1. w = m
      BY <1>2, <2>5 DEF OnWire
    <3>2. QED
      BY <2>5, <3>1 DEF MsgOK, Sendable
  <2>6. CASE m.type \in {"HeartbeatRsp", "Propose"}
    BY <1>2, <2>6 DEF OnWire
  <2>7. QED
    BY <2>1, <2>2, <2>3, <2>4, <2>5, <2>6
<1>3. QED
  BY <1>1, <1>2, TransportAssumption

\* The network after a step that sends what is true.
LEMMA NetStep ==
    ASSUME NEW L, NEW R, Context(L, R), TermsGrow, StandsBefore(L, R), BeliefsGrow(L, R),
           NetOK(L), NEW taken, NEW out, Exchange(taken, out),
           \A m \in out : m \in Message /\ Sendable(m, R)'
    PROVE  NetOK(R)'
<1> SUFFICES ASSUME NEW w \in msgs' PROVE MsgOK(w, R)'
  BY DEF NetOK
<1>1. CASE w \in msgs
  BY <1>1, MsgStays DEF NetOK
<1>2. CASE w \notin msgs
  <2>1. PICK m \in out : w \in OnWire(m)
    BY <1>2 DEF Exchange
  <2>2. m \in Message /\ Sendable(m, R)' /\ R \in LeaderLogs
    BY <2>1 DEF Context
  <2>3. QED
    BY <2>1, <2>2, WireKeeps
<1>3. QED
  BY <1>1, <1>2

-----------------------------------------------------------------------------
(* The invariant *)

\* What a leader records of a node's log is true, and it goes on from there or
\* from its own first entry.
ProgressOK(L) ==
    \A n \in Server : state[n] = "Leader" => \A p \in Server :
        /\ Askable(log[n], term[n], nextIndex[n][p])
        /\ pstate[n][p] = "Replicate" => OwnNext(log[n], term[n], matchIndex[n][p] + 1)
        /\ Credit(p, term[n], matchIndex[n][p], L)

CommitsOK(L) == \A n \in Server : Reported(committed[n], term[n], L)

\* What a leader found committed lies at or before a committed entry of a term.
ChosenOK(L) ==
    \A e \in chosen : \E t \in Nat, c \in Nat :
        Point(t, c, L) /\ e.index \in 1..c /\ e = L[t][e.index]

LeadersHaveLogs(L) == \A w \in elected : Len(L[w.term]) > 0

CommitInv(L) ==
    /\ RootsOrdered(L) /\ TermsBelow /\ BallotsReached /\ LeadersHaveLogs(L)
    /\ NetOK(L)
    /\ ProgressOK(L)
    /\ CommitsOK(L)
    /\ ChosenOK(L)

\* An odd number of nodes, each of which knows all the others.
OddCluster == StaticCluster /\ \E k \in Nat : Cardinality(Server) = 2 * k + 1

\* A step in which what does not depend on the action has already been carried
\* over to the next state.
Advances(L, R) ==
    /\ Context(L, R) /\ CommitInv(L)
    /\ TermsGrow /\ StandsBefore(L, R) /\ HeldGrows(L, R) /\ BeliefsGrow(L, R)
    /\ RootsOrdered(R) /\ TermsBelow' /\ BallotsReached' /\ LeadersHaveLogs(R)'
    /\ MaxEntriesToSend > 0 /\ OddCluster

LEMMA LeadersHaveLogsStep ==
    ASSUME NEW L, NEW R, Context(L, R), LeadersHaveLogs(L)
    PROVE  LeadersHaveLogs(R)'
<1>1. TypeOK /\ TypeOK' /\ [Next]_vars /\ L \in LeaderLogs /\ R \in LeaderLogs /\ Grows(L, R)
      /\ MatchInv(R)' /\ MaxRestarts = 0
  BY DEF Context
<1>2. ASSUME NEW w \in elected PROVE Len(R[w.term]) > 0
  <2>1. w.term \in Nat
    BY <1>1 DEF TypeOK, Win
  <2>2. L[w.term] \in Seq(Entry) /\ R[w.term] \in Seq(Entry) /\ Len(L[w.term]) <= Len(R[w.term])
    BY <1>1, <2>1 DEF LeaderLogs, Grows
  <2>3. Len(L[w.term]) \in Nat /\ Len(R[w.term]) \in Nat /\ Len(L[w.term]) > 0
    BY <2>2 DEF LeadersHaveLogs
  <2>4. QED
    BY <2>2, <2>3
<1>3. CASE UNCHANGED elected
  BY <1>2, <1>3 DEF LeadersHaveLogs
<1>4. ASSUME NEW n \in Server, TakesOver(n) PROVE LeadersHaveLogs(R)'
  <2>1. PICK u \in Nat : u = term'[n]
    BY <1>1 DEF TypeOK
  <2>2. PICK l \in Seq(Entry) : l = log[n]
    BY <1>1 DEF TypeOK
  <2>3. /\ state'[n] = "Leader" /\ elected' = elected \cup {[term |-> u, node |-> n]}
        /\ log'[n] = AppendOne(l, u, Noop)
    BY <1>1, <1>4, <2>1, <2>2 DEF TakesOver, TypeOK
  <2>4. R[u] = AppendOne(l, u, Noop)
    BY <1>1, <2>1, <2>3 DEF MatchInv, LeadersRoot
  <2>5. Noop \in Value \cup {Noop} /\ Len(l) \in Nat
    OBVIOUS
  <2>6. Len(AppendOne(l, u, Noop)) = Len(l) + 1
    BY <2>5, AppendOnePointwise
  <2>7. QED
    BY <1>2, <2>3, <2>4, <2>5, <2>6 DEF LeadersHaveLogs
<1>5. CASE UNCHANGED vars
  BY <1>3, <1>5 DEF vars, history
<1>6. ASSUME NEW n \in Server,
             LeavesLogs(n) \/ Commits(n) \/ Accepts(n) \/ Proposes(n) \/ Restart(n)
      PROVE  LeadersHaveLogs(R)'
  BY <1>3, <1>6 DEF LeavesLogs, Commits, Accepts, Proposes, Restart, history
<1>7. QED
  BY <1>1, <1>4, <1>5, <1>6, StepKinds

\* Who leads after a step without an election led before it, in the same term.
LEMMA LeadersBefore ==
    ASSUME NEW L, NEW R, Context(L, R), UNCHANGED elected, NEW p \in Server, state'[p] = "Leader"
    PROVE  state[p] = "Leader" /\ term'[p] = term[p]
<1>1. TypeOK /\ TypeOK' /\ [Next]_vars /\ ElectionInv /\ WinnersLead /\ MaxRestarts = 0
  BY DEF Context
<1>2. CASE UNCHANGED vars
  BY <1>2 DEF vars, serverVars
<1>3. CASE Calm
  BY <1>1, <1>3, LeadersKeepTerm
<1>4. ASSUME NEW n \in Server, TakesOver(n) PROVE FALSE
  <2>1. [term |-> term'[n], node |-> n] \in elected /\ state[n] # "Leader"
    BY <1>4 DEF TakesOver
  <2>2. term'[n] <= term[n] /\ (term'[n] = term[n] => state[n] = "Leader")
    BY <1>1, <2>1 DEF WinnersLead
  <2>3. term'[n] > term[n] \/ term'[n] = term[n]
    BY <1>4 DEF TakesOver
  <2>4. term[n] \in Nat /\ term'[n] \in Nat
    BY <1>1 DEF TypeOK
  <2>5. QED
    BY <2>1, <2>2, <2>3, <2>4
<1>5. ASSUME NEW n \in Server, Restart(n) PROVE FALSE
  BY <1>1, <1>5 DEF TypeOK, Restart
<1>6. QED
  BY <1>1, <1>2, <1>3, <1>4, <1>5, StepKinds DEF LeavesLogs, Commits, Accepts, Proposes

\* What a leader records stays true while it leads.
LEMMA ProgressStays ==
    ASSUME NEW L, NEW R, Advances(L, R), UNCHANGED elected, NEW n \in Server, state'[n] = "Leader",
           NEW p \in Server, NEW t \in Nat, t = term'[n], NEW k \in Nat, k = matchIndex[n][p]
    PROVE  /\ state[n] = "Leader" /\ t = term[n]
           /\ Askable(log'[n], t, nextIndex[n][p])
           /\ pstate[n][p] = "Replicate" => OwnNext(log'[n], t, k + 1)
           /\ Credit(p, t, k, L) /\ Credit(p, t, k, R)'
<1>1. Context(L, R) /\ CommitInv(L) /\ BeliefsGrow(L, R)
  BY DEF Advances
<1>2. TypeOK /\ L \in LeaderLogs /\ R \in LeaderLogs /\ Grows(L, R) /\ MatchInv(L) /\ MatchInv(R)'
  BY <1>1 DEF Context
<1>3. state[n] = "Leader" /\ t = term[n]
  BY <1>1, LeadersBefore
<1>4. log[n] = L[t] /\ log'[n] = R[t]
  BY <1>2, <1>3 DEF MatchInv, LeadersRoot
<1>5. L[t] \in Seq(Entry) /\ R[t] \in Seq(Entry) /\ Len(L[t]) <= Len(R[t])
      /\ \A j \in 1..Len(L[t]) : R[t][j] = L[t][j]
  BY <1>2 DEF LeaderLogs, Grows
<1>6. /\ Askable(L[t], t, nextIndex[n][p])
      /\ pstate[n][p] = "Replicate" => OwnNext(L[t], t, k + 1)
      /\ Credit(p, t, k, L)
  BY <1>1, <1>3, <1>4 DEF CommitInv, ProgressOK
<1>7. nextIndex[n][p] \in Nat /\ k + 1 \in Nat
  <2>1. nextIndex[n] \in [Server -> Nat \ {0}]
    BY <1>2 DEF TypeOK
  <2>2. QED
    BY <2>1
<1>8. /\ Askable(R[t], t, nextIndex[n][p])
      /\ pstate[n][p] = "Replicate" => OwnNext(R[t], t, k + 1)
  BY <1>5, <1>6, <1>7, OwnNextGrows
<1>9. QED
  BY <1>1, <1>3, <1>4, <1>6, <1>8 DEF BeliefsGrow

LEMMA ProgressFrame ==
    ASSUME NEW L, NEW R, Advances(L, R), UNCHANGED <<elected, nextIndex, matchIndex, pstate>>
    PROVE  ProgressOK(R)'
<1> SUFFICES ASSUME NEW n \in Server, state'[n] = "Leader", NEW p \in Server
             PROVE  /\ Askable(log'[n], term'[n], nextIndex'[n][p])
                    /\ pstate'[n][p] = "Replicate"
                         => OwnNext(log'[n], term'[n], matchIndex'[n][p] + 1)
                    /\ Credit(p, term[n], matchIndex[n][p], R)'
  BY DEF ProgressOK
<1>1. PICK t \in Nat : t = term'[n]
  BY DEF Advances, Context, TypeOK
<1>2. PICK k \in Nat : k = matchIndex[n][p]
  BY DEF Advances, Context, TypeOK
<1>3. /\ Askable(log'[n], t, nextIndex[n][p])
      /\ pstate[n][p] = "Replicate" => OwnNext(log'[n], t, k + 1)
      /\ Credit(p, t, k, R)'
  BY <1>1, <1>2, ProgressStays
<1>4. k = matchIndex'[n][p]
  BY <1>2
<1>5. QED
  BY <1>1, <1>3, <1>4

LEMMA CommitsFrame ==
    ASSUME NEW L, NEW R, Advances(L, R), NEW n \in Server, committed'[n] = committed[n]
    PROVE  Reported(committed[n], term[n], R)'
<1>1. BeliefsGrow(L, R) /\ TypeOK /\ TypeOK' /\ CommitsOK(L) /\ TermsGrow
  BY DEF Advances, Context, CommitInv
<1>2. PICK k \in Nat : k = committed[n]
  BY <1>1 DEF TypeOK
<1>3. PICK t \in Nat : t = term[n]
  BY <1>1 DEF TypeOK
<1>4. PICK u \in Nat : u = term'[n]
  BY <1>1 DEF TypeOK
<1>5. t <= u
  BY <1>1, <1>3, <1>4 DEF TermsGrow
<1>6. Reported(k, t, L)
  BY <1>1, <1>2, <1>3 DEF CommitsOK
<1>7. Reported(k, u, L)
  BY <1>5, <1>6, ReportedLater
<1>8. Reported(k, u, R)'
  BY <1>1, <1>7 DEF BeliefsGrow
<1>9. k = committed'[n]
  BY <1>2
<1>10. QED
  BY <1>4, <1>8, <1>9

LEMMA ChosenStays ==
    ASSUME NEW L, NEW R, Advances(L, R), NEW e \in chosen
    PROVE  \E t \in Nat, c \in Nat : Point(t, c, R)' /\ e.index \in 1..c /\ e = R[t][e.index]
<1>1. PICK t \in Nat, c \in Nat : Point(t, c, L) /\ e.index \in 1..c /\ e = L[t][e.index]
  BY DEF Advances, CommitInv, ChosenOK
<1>2. Point(t, c, R)'
  BY <1>1 DEF Advances, BeliefsGrow
<1>3. L \in LeaderLogs /\ R \in LeaderLogs /\ Grows(L, R)
  BY DEF Advances, Context
<1>4. L[t] \in Seq(Entry) /\ c \in 1..Len(L[t])
  BY <1>1, <1>3 DEF LeaderLogs, Point
<1>5. e.index \in 1..Len(L[t])
  BY <1>1, <1>4
<1>6. R[t][e.index] = L[t][e.index]
  BY <1>3, <1>5 DEF Grows
<1>7. QED
  BY <1>1, <1>2, <1>6

LEMMA ChosenFrame ==
    ASSUME NEW L, NEW R, Advances(L, R), UNCHANGED chosen
    PROVE  ChosenOK(R)'
BY ChosenStays DEF ChosenOK

\* A step that sends what is true and leaves progress, commit indexes and
\* elections alone.
Quietly ==
    /\ UNCHANGED <<elected, nextIndex, matchIndex, pstate, committed, chosen>>

LEMMA QuietStep ==
    ASSUME NEW L, NEW R, Advances(L, R), Quietly, NetOK(R)'
    PROVE  CommitInv(R)'
<1>1. ProgressOK(R)'
  BY ProgressFrame DEF Quietly
<1>2. ChosenOK(R)'
  BY ChosenFrame DEF Quietly
<1>3. CommitsOK(R)'
  <2>1. ASSUME NEW n \in Server PROVE Reported(committed[n], term[n], R)'
    BY CommitsFrame DEF Quietly
  <2>2. QED
    BY <2>1 DEF CommitsOK
<1>4. QED
  BY <1>1, <1>2, <1>3 DEF Advances, CommitInv

\* The network, from what is sent.
LEMMA SendsTrue ==
    ASSUME NEW L, NEW R, Advances(L, R), NEW taken, NEW out, Exchange(taken, out),
           \A m \in out : m \in Message /\ Sendable(m, R)'
    PROVE  NetOK(R)'
BY NetStep DEF Advances, CommitInv

\* Votes granted or refused, responses to heartbeats and proposals say nothing of logs.
PlainType == {"VoteRsp", "HeartbeatRsp", "Propose"}

LEMMA PlainSendable ==
    ASSUME NEW R, NEW m, m.type \in PlainType
    PROVE  Sendable(m, R)'
BY DEF PlainType, Sendable

LEMMA PlainSends ==
    ASSUME NEW L, NEW R, Advances(L, R), NEW taken, NEW out, Exchange(taken, out),
           \A m \in out : m \in Message /\ m.type \in PlainType
    PROVE  NetOK(R)'
BY PlainSendable, SendsTrue

-----------------------------------------------------------------------------
(* What is sent is true *)

\* A batch that starts in the log is not empty and stays in it.
LEMMA EntriesLength ==
    ASSUME NEW l \in Seq(Entry), NEW lo \in Nat \ {0}, lo <= Len(l) + 1, NEW hi \in Nat, lo < hi
    PROVE  /\ Len(Entries(l, lo, hi)) \in Nat
           /\ lo + Len(Entries(l, lo, hi)) <= Len(l) + 1
           /\ lo <= Len(l) => Len(Entries(l, lo, hi)) > 0
<1>1. Len(l) \in Nat
  OBVIOUS
<1>2. PICK k \in Nat : k = MinOf(hi - 1, Len(l))
  BY <1>1 DEF MinOf
<1>3. k <= Len(l) /\ (lo <= Len(l) => lo <= k)
  BY <1>1, <1>2 DEF MinOf
<1>4. Entries(l, lo, hi) = SubSeq(l, lo, k)
  BY <1>2 DEF Entries, LastIndex
<1>5. \A i \in lo..k : l[i] \in Entry
  BY <1>1, <1>3
<1>6. Len(SubSeq(l, lo, k)) = IF lo <= k THEN k - lo + 1 ELSE 0
  BY <1>5, SubSeqProperties
<1>7. QED
  BY <1>1, <1>3, <1>4, <1>6

\* A leader's append messages end with an entry of its own.
LEMMA AppendSendable ==
    ASSUME NEW L, NEW R, Advances(L, R), NEW n \in Server, state'[n] = "Leader",
           NEW t \in Nat, t = term'[n], NEW l, l = log'[n], NEW p \in Server,
           NEW next \in Nat \ {0}, Askable(l, t, next), NEW c \in Nat, Reported(c, t, R)',
           NEW m, m = AppendMsg(n, p, t, next, l, c)
    PROVE  m \in Message /\ Sendable(m, R)'
<1>1. R \in LeaderLogs /\ MatchInv(R)' /\ RootsOrdered(R) /\ LeadersHaveLogs(R)'
      /\ MaxEntriesToSend > 0
  BY DEF Advances, Context
<1>2. l = R[t] /\ [term |-> t, node |-> n] \in elected'
  BY <1>1 DEF MatchInv, LeadersRoot
<1>3. l \in Seq(Entry)
  BY <1>1, <1>2 DEF LeaderLogs
<1>4. Len(l) \in Nat /\ Len(l) > 0 /\ l[Len(l)].term = t
  BY <1>1, <1>2, <1>3 DEF LeadersHaveLogs, RootsOrdered
<1>5. next <= Len(l) + 1 /\ OwnNext(R[t], t, next)
  BY <1>2 DEF Askable
<1>6. PICK hi \in Nat : hi = next + MaxEntriesToSend /\ next < hi
  BY <1>1, BoundAssumption
<1>7. PICK k \in Nat : k = Len(Entries(l, next, hi))
  BY <1>3, <1>5, <1>6, EntriesLength
<1>8. next + k <= Len(l) + 1 /\ (next <= Len(l) => k > 0)
  BY <1>3, <1>5, <1>6, <1>7, EntriesLength
<1>9. /\ m.type = "Append" /\ m.term = t /\ m.commit = c /\ m.prevIndex = next - 1
      /\ m.entries = Entries(l, next, hi) /\ m.prevTerm = Term(l, next - 1)
  BY <1>6 DEF AppendMsg
<1>10. PICK e \in Nat : e = m.prevIndex + Len(m.entries)
  BY <1>7, <1>9
<1>11. e \in 1..Len(l) /\ l[e].term = t
  <2>1. CASE k = 0
    <3>1. e = Len(l)
      BY <1>4, <1>5, <1>7, <1>8, <1>9, <1>10, <2>1
    <3>2. QED
      BY <1>4, <3>1
  <2>2. CASE k > 0
    <3>1. e \in 1..Len(R[t]) /\ e >= next
      BY <1>2, <1>4, <1>7, <1>8, <1>9, <1>10, <2>2
    <3>2. QED
      BY <1>1, <1>2, <1>5, <3>1, OwnFrom
  <2>3. QED
    BY <2>1, <2>2
<1>12. ASSUME Len(m.entries) = 0 PROVE m.prevTerm = t
  <2>1. e = next - 1 /\ next - 1 \in 1..Len(l)
    BY <1>9, <1>10, <1>11, <1>12
  <2>2. QED
    BY <1>9, <1>11, <2>1 DEF Term
<1>13. OwnEnd(m, R)
  <2>1. m.prevIndex + 1 = next
    BY <1>9
  <2>2. QED
    BY <1>2, <1>5, <1>9, <1>10, <1>11, <1>12, <2>1 DEF OwnEnd
<1>14. FromLeader(m, R)'
  BY <1>2, <1>9 DEF FromLeader, Won
<1>15. m \in Message
  <2>1. m \in AppendMessage
    BY <1>3, ConstructorType
  <2>2. QED
    BY <2>1 DEF Message
<1>16. Sendable(m, R)'
  BY <1>9, <1>13, <1>14 DEF Sendable, OwnEnd, OwnNext
<1>17. QED
  BY <1>15, <1>16

LEMMA HeartbeatSendable ==
    ASSUME NEW L, NEW R, Advances(L, R), NEW n \in Server, state'[n] = "Leader",
           committed'[n] = committed[n], NEW p \in Server,
           NEW m, m = HeartbeatMsg(n, p, term'[n], committed[n])
    PROVE  m \in Message /\ Sendable(m, R)'
<1>1. TypeOK' /\ MatchInv(R)'
  BY DEF Advances, Context
<1>2. PICK t \in Nat : t = term'[n]
  BY <1>1 DEF TypeOK
<1>3. PICK k \in Nat : k = committed'[n]
  BY <1>1 DEF TypeOK
<1>4. Reported(committed[n], term[n], R)'
  BY CommitsFrame
<1>5. Reported(k, t, R)'
  BY <1>2, <1>3, <1>4
<1>6. m = HeartbeatMsg(n, p, t, k)
  BY <1>2, <1>3
<1>7. m \in HeartbeatMessage
  BY <1>6, ConstructorType
<1>8. m.type = "Heartbeat" /\ m.term = t /\ m.commit = k
  BY <1>6 DEF HeartbeatMsg
<1>9. [term |-> t, node |-> n] \in elected'
  BY <1>1, <1>2 DEF MatchInv, LeadersRoot
<1>10. FromLeader(m, R)'
  BY <1>5, <1>8, <1>9 DEF FromLeader, Won
<1>11. QED
  BY <1>7, <1>8, <1>10 DEF Sendable, Message

\* A vote request tells of the log its sender stands with.
LEMMA VoteSendable ==
    ASSUME NEW L, NEW R, Advances(L, R), NEW n \in Server, Timeout(n), UNCHANGED log,
           NEW p \in Server, NEW m, m = VoteMsg(n, p, term[n] + 1, log[n])
    PROVE  m \in Message /\ Sendable(m, R)'
<1>1. Context(L, R) /\ TypeOK /\ TypeOK' /\ TermsBelow
  BY DEF Advances, Context, CommitInv
<1>2. PICK l \in Seq(Entry) : l = log[n]
  BY <1>1 DEF TypeOK
<1>3. term[n] \in Nat /\ term'[n] = term[n] + 1
  BY <1>1 DEF Timeout, TypeOK
<1>4. PICK u \in Nat : u = term[n] + 1
  BY <1>3
<1>5. m = VoteMsg(n, p, u, l)
  BY <1>2, <1>4
<1>6. m \in VoteMessage
  BY <1>5, ConstructorType
<1>7. /\ m.type = "Vote" /\ m.from = n /\ m.term = u /\ m.lastIndex = Len(l)
      /\ m.lastTerm = LastTerm(l)
  BY <1>5 DEF VoteMsg, LastIndex
<1>8. Faithful(m, l)
  <2>1. Len(l) \in Nat /\ (Len(l) = 0 => LastTerm(l) = 0)
        /\ (Len(l) > 0 => LastTerm(l) = l[Len(l)].term /\ l[Len(l)].term \in Nat)
    BY LastTermIs
  <2>2. ASSUME Len(l) > 0 PROVE l[Len(l)].term < u
    <3>1. Len(l) \in 1..Len(log[n]) /\ l[Len(l)] = log[n][Len(l)]
      BY <1>2, <2>1, <2>2
    <3>2. l[Len(l)].term <= term[n]
      BY <1>1, <3>1 DEF TermsBelow
    <3>3. QED
      BY <1>3, <1>4, <2>1, <2>2, <3>2
  <2>3. QED
    BY <1>7, <2>1, <2>2 DEF Faithful
<1>9. ASSUME NEW r \in Seq(Entry), Stands(n, u, r, R)' PROVE Faithful(m, r)
  <2>1. r = log'[n]
    BY <1>1, <1>4, <1>9, TimeoutStands
  <2>2. r = l
    BY <1>2, <2>1
  <2>3. QED
    BY <1>8, <2>2
<1>10. StandsFor(m, R)'
  <2>1. m.term <= term'[m.from]
    BY <1>3, <1>4, <1>7
  <2>2. QED
    BY <1>7, <1>9, <2>1 DEF StandsFor
<1>11. QED
  BY <1>6, <1>7, <1>10 DEF Sendable, Message

-----------------------------------------------------------------------------
(* The invariant, action by action *)

LEMMA OneSent ==
    ASSUME NEW L, NEW R, Advances(L, R), NEW taken, NEW w, Exchange(taken, {w}),
           w \in Message, Sendable(w, R)'
    PROVE  NetOK(R)'
<1>1. \A m \in {w} : m \in Message /\ Sendable(m, R)'
  OBVIOUS
<1>2. QED
  BY <1>1, SendsTrue

LEMMA NothingSent ==
    ASSUME NEW L, NEW R, Advances(L, R), NEW taken, Exchange(taken, {})
    PROVE  NetOK(R)'
BY SendsTrue

\* One append message, or none.
LEMMA AppendSends ==
    ASSUME NEW L, NEW R, Advances(L, R), NEW n \in Server, state'[n] = "Leader",
           NEW t \in Nat, t = term'[n], NEW p \in Server,
           NEW next \in Nat \ {0}, Askable(log'[n], t, next), NEW c \in Nat, Reported(c, t, R)',
           NEW taken, NEW out, Exchange(taken, out),
           out \subseteq {AppendMsg(n, p, t, next, log'[n], c)}
    PROVE  NetOK(R)'
<1>1. PICK l : l = log'[n]
  OBVIOUS
<1>2. ASSUME NEW m \in out PROVE m \in Message /\ Sendable(m, R)'
  <2>1. m = AppendMsg(n, p, t, next, l, c) /\ Askable(l, t, next)
    BY <1>1
  <2>2. QED
    BY <1>1, <2>1, AppendSendable
<1>3. QED
  BY <1>2, SendsTrue

\* Campaigning, unless there is nobody to ask.
LEMMA CampaignCommit ==
    ASSUME NEW L, NEW R, Advances(L, R), NEW n \in Server, Timeout(n), Peers[n] # {}
    PROVE  CommitInv(R)'
<1>1. /\ Exchange({}, {VoteMsg(n, p, term[n] + 1, log[n]) : p \in Peers[n]})
      /\ UNCHANGED <<log, leaderVars, elected, committed, chosen>>
  BY DEF Timeout
<1>2. \A m \in {VoteMsg(n, p, term[n] + 1, log[n]) : p \in Peers[n]} :
        m \in Message /\ Sendable(m, R)'
  <2>1. ASSUME NEW m \in {VoteMsg(n, p, term[n] + 1, log[n]) : p \in Peers[n]}
        PROVE  m \in Message /\ Sendable(m, R)'
    <3>1. PICK p \in Peers[n] : m = VoteMsg(n, p, term[n] + 1, log[n])
      OBVIOUS
    <3>2. p \in Server
      BY PeersAssumption
    <3>3. QED
      BY <1>1, <3>1, <3>2, VoteSendable
  <2>2. QED
    BY <2>1
<1>3. NetOK(R)'
  BY <1>1, <1>2, SendsTrue
<1>4. Quietly
  BY <1>1 DEF Quietly, leaderVars
<1>5. QED
  BY <1>3, <1>4, QuietStep

LEMMA HeartbeatTimeoutCommit ==
    ASSUME NEW L, NEW R, Advances(L, R), NEW n \in Server, HeartbeatTimeout(n)
    PROVE  CommitInv(R)'
<1> DEFINE out == {HeartbeatMsg(n, p, term[n], committed[n]) : p \in Peers[n]}
<1>1. /\ state[n] = "Leader" /\ Exchange({}, out)
      /\ UNCHANGED <<serverVars, logVars, leaderVars, history>>
  BY DEF HeartbeatTimeout
<1>2. \A m \in out : m \in Message /\ Sendable(m, R)'
  <2>1. ASSUME NEW m \in out PROVE m \in Message /\ Sendable(m, R)'
    <3>1. PICK p \in Peers[n] : m = HeartbeatMsg(n, p, term[n], committed[n])
      OBVIOUS
    <3>2. p \in Server
      BY PeersAssumption
    <3>3. /\ state'[n] = "Leader" /\ committed'[n] = committed[n]
          /\ m = HeartbeatMsg(n, p, term'[n], committed[n])
      BY <1>1, <3>1 DEF serverVars, logVars
    <3>4. QED
      BY <3>2, <3>3, HeartbeatSendable
  <2>2. QED
    BY <2>1
<1> HIDE DEF out
<1>3. NetOK(R)'
  BY <1>1, <1>2, SendsTrue
<1>4. Quietly
  BY <1>1 DEF Quietly, leaderVars, logVars, history
<1>5. QED
  BY <1>3, <1>4, QuietStep

LEMMA HeartbeatRspCommit ==
    ASSUME NEW L, NEW R, Advances(L, R), NEW n \in Server, NEW m \in msgs, HandleHeartbeatRsp(n, m)
    PROVE  CommitInv(R)'
<1> DEFINE new == AppendMsg(n, m.from, term[n], nextIndex[n][m.from], log[n], committed[n])
           out == IF matchIndex[n][m.from] < LastIndex(log[n]) THEN {new} ELSE {}
<1>1. /\ state[n] = "Leader" /\ Exchange({m}, out) /\ m.from \in Peers[n]
      /\ UNCHANGED <<serverVars, logVars, leaderVars, history>>
  BY DEF HandleHeartbeatRsp
<1>2. TypeOK
  BY DEF Advances, Context
<1>3. m.from \in Server
  BY <1>1, PeersAssumption
<1>4. PICK t \in Nat : t = term'[n]
  BY <1>1, <1>2 DEF TypeOK, serverVars
<1>5. PICK k \in Nat : k = committed'[n]
  BY <1>1, <1>2 DEF TypeOK, logVars
<1>6. PICK next \in Nat \ {0} : next = nextIndex[n][m.from]
  BY <1>2, <1>3 DEF TypeOK
<1>7. PICK j \in Nat : j = matchIndex[n][m.from]
  BY <1>2, <1>3 DEF TypeOK
<1>8. Reported(k, t, R)'
  <2>1. Reported(committed[n], term[n], R)'
    BY <1>1, CommitsFrame DEF logVars
  <2>2. QED
    BY <1>4, <1>5, <2>1
<1>9. state'[n] = "Leader" /\ UNCHANGED elected
  BY <1>1 DEF serverVars, history
<1>10. Askable(log'[n], t, next)
  BY <1>3, <1>4, <1>6, <1>7, <1>9, ProgressStays
<1>11. new = AppendMsg(n, m.from, t, next, log'[n], k)
  BY <1>1, <1>4, <1>5, <1>6 DEF serverVars, logVars
<1>12. out \subseteq {AppendMsg(n, m.from, t, next, log'[n], k)}
  BY <1>11
<1> HIDE DEF new, out
<1>13. NetOK(R)'
  BY <1>1, <1>3, <1>4, <1>8, <1>9, <1>10, <1>12, AppendSends
<1>14. Quietly
  BY <1>1 DEF Quietly, leaderVars, logVars, history
<1>15. QED
  BY <1>13, <1>14, QuietStep

\* One message that says nothing of logs.
LEMMA PlainReply ==
    ASSUME NEW L, NEW R, Advances(L, R), Quietly, NEW taken, NEW w, Exchange(taken, {w}),
           w \in Message, w.type \in PlainType
    PROVE  CommitInv(R)'
<1>1. \A m \in {w} : m \in Message /\ m.type \in PlainType
  OBVIOUS
<1>2. QED
  BY <1>1, PlainSends, QuietStep

\* Votes, forwarded proposals, and messages without effect.
LEMMA PlainCommit ==
    ASSUME NEW L, NEW R, Advances(L, R), NEW n \in Server, NEW m \in msgs,
           \/ GrantVote(n, m) \/ RejectVote(n, m) \/ HandleVoteDenied(n, m)
           \/ ForwardProposal(n, m) \/ ForwardHigherTermProposal(n, m)
           \/ HandleHigherTermRsp(n, m) \/ Ignore(n, m) \/ Lose(m)
    PROVE  CommitInv(R)'
<1> USE DEF serverVars, logVars, leaderVars, history, Quietly
<1>1. TypeOK
  BY DEF Advances, Context
<1>2. m \in Message /\ m.from \in Server /\ m.term \in Nat /\ term[n] \in Nat
      /\ lead[n] \in Server \cup {Nil}
  BY <1>1, MessageShape DEF TypeOK
<1>3. ASSUME Exchange({m}, {}), Quietly PROVE CommitInv(R)'
  BY <1>3, NothingSent, QuietStep
<1>4. CASE GrantVote(n, m)
  <2>1. PICK w : w = VoteRspMsg(n, m.from, m.term, TRUE)
    OBVIOUS
  <2>2. Exchange({m}, {w}) /\ Quietly
    BY <1>4, <2>1 DEF GrantVote
  <2>3. w \in VoteRspMessage
    BY <1>2, <2>1, ConstructorType
  <2>4. QED
    BY <2>2, <2>3, PlainReply DEF PlainType, Message, VoteRspMessage
<1>5. CASE RejectVote(n, m)
  <2>1. PICK w : w = VoteRspMsg(n, m.from, term[n], FALSE)
    OBVIOUS
  <2>2. Exchange({m}, {w}) /\ Quietly
    BY <1>5, <2>1 DEF RejectVote
  <2>3. w \in VoteRspMessage
    BY <1>2, <2>1, ConstructorType
  <2>4. QED
    BY <2>2, <2>3, PlainReply DEF PlainType, Message, VoteRspMessage
<1>6. CASE HandleVoteDenied(n, m)
  BY <1>3, <1>6 DEF HandleVoteDenied
<1>7. CASE ForwardProposal(n, m)
  <2>1. PICK w : w = [m EXCEPT !.to = lead[n]]
    OBVIOUS
  <2>2. Exchange({m}, {w}) /\ Quietly /\ lead[n] \in Server /\ m.type = "Propose"
    BY <1>2, <1>7, <2>1 DEF ForwardProposal
  <2>3. w \in ProposeMessage
    BY <1>2, <2>1, <2>2, MessageShape DEF ProposeMessage
  <2>4. QED
    BY <2>2, <2>3, PlainReply DEF PlainType, Message, ProposeMessage
<1>8. CASE ForwardHigherTermProposal(n, m)
  <2>1. PICK w : w = [m EXCEPT !.to = m.from]
    OBVIOUS
  <2>2. Exchange({m}, {w}) /\ Quietly /\ m.type = "Propose"
    BY <1>8, <2>1 DEF ForwardHigherTermProposal
  <2>3. w \in ProposeMessage
    BY <1>2, <2>1, <2>2, MessageShape DEF ProposeMessage
  <2>4. QED
    BY <2>2, <2>3, PlainReply DEF PlainType, Message, ProposeMessage
<1>9. CASE HandleHigherTermRsp(n, m)
  BY <1>3, <1>9 DEF HandleHigherTermRsp
<1>10. CASE Ignore(n, m)
  BY <1>3, <1>10 DEF Ignore
<1>11. CASE Lose(m)
  BY <1>3, <1>11 DEF Lose
<1>12. QED
  BY <1>4, <1>5, <1>6, <1>7, <1>8, <1>9, <1>10, <1>11

LEMMA ProposeAtFollowerCommit ==
    ASSUME NEW L, NEW R, Advances(L, R), NEW n \in Server, NEW v \in Value, ProposeAtFollower(n, v)
    PROVE  CommitInv(R)'
<1>1. PICK w : w = ProposeMsg(n, lead[n], term[n], v)
  OBVIOUS
<1>2. Exchange({}, {w}) /\ Quietly
  BY <1>1 DEF ProposeAtFollower, logVars, leaderVars, history, Quietly
<1>3. TypeOK /\ lead[n] # Nil
  BY DEF Advances, Context, ProposeAtFollower
<1>4. lead[n] \in Server /\ term[n] \in Nat
  BY <1>3 DEF TypeOK
<1>5. w \in ProposeMessage
  BY <1>1, <1>4, ConstructorType
<1>6. QED
  BY <1>2, <1>5, PlainReply DEF PlainType, Message, ProposeMessage

\* A vote that makes no majority.
LEMMA VoteCounted ==
    ASSUME NEW L, NEW R, Advances(L, R), NEW n \in Server, NEW m \in msgs, HandleVoteGranted(n, m),
           ~HasQuorum(n, votes[n] \cup {m.from})
    PROVE  CommitInv(R)'
<1>1. Exchange({m}, {}) /\ Quietly
  BY DEF HandleVoteGranted, Quietly, leaderVars
<1>2. QED
  BY <1>1, NothingSent, QuietStep

\* Refused or outdated entries: a response credits the follower with what it has
\* committed, or with nothing.
LEMMA NotAccepted ==
    ASSUME NEW L, NEW R, Advances(L, R), NEW n \in Server, NEW m \in msgs,
           HandleAppendBehindCommit(n, m) \/ HandleAppendReject(n, m)
    PROVE  CommitInv(R)'
<1>1. /\ TypeOK /\ ElectionInv /\ L \in LeaderLogs /\ MatchInv(L) /\ R \in LeaderLogs
      /\ RootsOrdered(L) /\ NetOK(L) /\ CommitsOK(L) /\ BeliefsGrow(L, R)
      /\ RootsOrdered(R) /\ Grows(L, R)
  BY DEF Advances, Context, CommitInv
<1>2. m.type = "Append" /\ FollowSender(n, m) /\ Quietly
  BY DEF HandleAppendBehindCommit, HandleAppendReject, Quietly, leaderVars, logVars, history
<1>3. m \in AppendMessage /\ m.from \in Server /\ m.term \in Nat /\ m.prevIndex \in Nat
  BY <1>1, <1>2, MessageShape DEF TypeOK, AppendMessage
<1>4. PICK k \in Nat : k = committed[n]
  BY <1>1 DEF TypeOK
<1>5. ASSUME NEW i \in Nat, NEW r \in BOOLEAN, NEW c \in Nat, NEW w,
             w = AppendRspMsg(n, m.from, m.term, i, r, c), Exchange({m}, {w}),
             Credit(n, m.term, i, R)', r => i = 0,
             i > 0 /\ Transport = "mem" => R[m.term][i].term = m.term
      PROVE  CommitInv(R)'
  <2>1. w \in AppendRspMessage
    BY <1>3, <1>5, ConstructorType
  <2>2. w.type = "AppendRsp" /\ w.from = n /\ w.term = m.term /\ w.index = i /\ w.reject = r
    BY <1>5 DEF AppendRspMsg
  <2>3. w \in Message /\ Sendable(w, R)'
    BY <1>5, <2>1, <2>2 DEF Message, Sendable, Told
  <2>4. QED
    BY <1>2, <1>5, <2>3, OneSent, QuietStep
<1>6. CASE HandleAppendBehindCommit(n, m)
  <2>1. PICK w : w = AppendRspMsg(n, m.from, m.term, k, FALSE, 0)
    OBVIOUS
  <2>2. Exchange({m}, {w})
    BY <1>4, <1>6, <2>1 DEF HandleAppendBehindCommit
  <2>3. Credit(n, m.term, k, R)'
    <3>1. PICK u \in Nat : u = m.term
      BY <1>3
    <3>2. PICK t \in Nat : t = term[n]
      BY <1>1 DEF TypeOK
    <3>3. t <= u
      BY <1>2, <3>1, <3>2 DEF FollowSender
    <3>4. Reported(k, t, L)
      BY <1>1, <1>4, <3>2 DEF CommitsOK
    <3>5. Reported(k, u, L) /\ Won(u)
      BY <1>1, <1>2, <3>1, <3>3, <3>4, ReportedLater DEF NetOK, MsgOK, FromLeader
    <3>6. Credit(n, u, k, L)
      BY <1>1, <3>5, ReportedCredit
    <3>7. QED
      BY <1>1, <3>1, <3>6 DEF BeliefsGrow
  <2>4. ASSUME k > 0, Transport = "mem" PROVE R[m.term][k].term = m.term
    <3>1. PICK u \in Nat : u = m.term
      BY <1>3
    <3>2. R[u] \in Seq(Entry) /\ k <= Len(R[u])
      BY <1>1, <2>3, <3>1 DEF LeaderLogs, Credit
    <3>3. k \in 1..Len(R[u])
      BY <2>4, <3>2
    <3>4. OwnEnd(m, R)
      BY <1>1, <1>2, <1>3, OwnEndGrows DEF NetOK, MsgOK
    <3>5. PICK i \in Nat : i = m.prevIndex + 1
      BY <1>3
    <3>6. OwnNext(R[u], u, i)
      BY <2>4, <3>1, <3>4, <3>5 DEF OwnEnd
    <3>7. k >= i
      <4>1. m.prevIndex < k
        BY <1>4, <1>6 DEF HandleAppendBehindCommit, BehindCommit
      <4>2. QED
        BY <1>3, <3>5, <4>1
    <3>8. QED
      BY <1>1, <3>1, <3>3, <3>6, <3>7, OwnFrom
  <2>5. QED
    BY <1>5, <2>1, <2>2, <2>3, <2>4
<1>7. CASE HandleAppendReject(n, m)
  <2>1. PICK c \in Nat : c = FindConflict(log[n], m.prevIndex)
    BY <1>1, <1>3, FindConflictType DEF TypeOK
  <2>2. PICK w : w = AppendRspMsg(n, m.from, m.term, 0, TRUE, c)
    OBVIOUS
  <2>3. Exchange({m}, {w})
    BY <1>7, <2>1, <2>2 DEF HandleAppendReject
  <2>4. Credit(n, m.term, 0, R)'
    <3>1. R[m.term] \in Seq(Entry)
      BY <1>1, <1>3 DEF LeaderLogs
    <3>2. 0 <= Len(R[m.term])
      BY <3>1
    <3>3. QED
      BY <3>2 DEF Credit
  <2>5. TRUE \in BOOLEAN /\ 0 \in Nat /\ (TRUE => 0 = 0)
        /\ (0 > 0 /\ Transport = "mem" => R[m.term][0].term = m.term)
    OBVIOUS
  <2>6. QED
    BY <1>5, <2>2, <2>3, <2>4, <2>5
<1>8. QED
  BY <1>6, <1>7

\* Beginning to lead: nothing is recorded of the others, and of itself the leader
\* records the entries from before its term.
LEMMA TakeOverCommit ==
    ASSUME NEW L, NEW R, Advances(L, R), NEW n \in Server, NEW t \in Nat, BecomeLeader(n, t),
           term'[n] = t, \A p \in Server \ {n} : term'[p] = term[p],
           t > term[n] \/ (t = term[n] /\ state[n] = "Candidate"),
           UNCHANGED <<committed, chosen>>, NetOK(R)'
    PROVE  CommitInv(R)'
<1>1. /\ TypeOK /\ TypeOK' /\ L \in LeaderLogs /\ R \in LeaderLogs /\ Grows(L, R)
      /\ MatchInv(L) /\ MatchInv(R)' /\ TermsBelow /\ ProgressOK(L) /\ BeliefsGrow(L, R)
  BY DEF Advances, Context, CommitInv
<1>2. PICK l \in Seq(Entry) : l = log[n]
  BY <1>1 DEF TypeOK
<1>3. PICK last \in Nat : last = Len(l)
  OBVIOUS
<1>4. /\ state' = [state EXCEPT ![n] = "Leader"]
      /\ nextIndex' = [nextIndex EXCEPT ![n] = [p \in Server |-> last + 1]]
      /\ matchIndex' = [matchIndex EXCEPT ![n] = [p \in Server |-> IF p = n THEN last ELSE 0]]
      /\ pstate' = [pstate EXCEPT ![n] =
                      [p \in Server |-> IF p = n THEN "Replicate" ELSE "Probe"]]
      /\ log' = [log EXCEPT ![n] = AppendOne(l, t, Noop)]
  BY <1>2, <1>3 DEF BecomeLeader, LastIndex
<1>5. /\ state'[n] = "Leader" /\ log'[n] = AppendOne(l, t, Noop)
      /\ \A p \in Server : nextIndex'[n][p] = last + 1
      /\ \A p \in Server : matchIndex'[n][p] = IF p = n THEN last ELSE 0
      /\ \A p \in Server : pstate'[n][p] = "Replicate" => p = n
  BY <1>1, <1>4 DEF TypeOK
<1>6. Noop \in Value \cup {Noop}
  OBVIOUS
<1>7. /\ Len(AppendOne(l, t, Noop)) = last + 1
      /\ \A i \in 1..last : AppendOne(l, t, Noop)[i] = l[i]
      /\ AppendOne(l, t, Noop)[last + 1].term = t
  BY <1>3, <1>6, AppendOnePointwise
<1>8. R[t] = log'[n]
  BY <1>1, <1>5 DEF MatchInv, LeadersRoot
<1>9. \A i \in 1..last : R[t][i].term # t
  <2>1. ASSUME NEW i \in 1..last PROVE R[t][i].term # t
    <3>1. R[t][i] = l[i] /\ l[i].term \in Nat
      BY <1>3, <1>5, <1>7, <1>8, EntryTerms
    <3>2. l[i].term <= term[n] /\ (state[n] = "Candidate" => l[i].term < term[n])
      BY <1>1, <1>2, <1>3 DEF TermsBelow
    <3>3. term[n] \in Nat
      BY <1>1 DEF TypeOK
    <3>4. QED
      BY <3>1, <3>2, <3>3
  <2>2. QED
    BY <2>1
<1>own. Askable(log'[n], t, last + 1) /\ OwnNext(log'[n], t, last + 1)
  BY <1>5, <1>7 DEF Askable, OwnNext
<1>10. ASSUME NEW p \in Server
       PROVE  /\ Askable(log'[n], term'[n], nextIndex'[n][p])
              /\ pstate'[n][p] = "Replicate"
                   => OwnNext(log'[n], term'[n], matchIndex'[n][p] + 1)
              /\ Credit(p, term[n], matchIndex[n][p], R)'
  <2>1. PICK k \in 0..last : k = matchIndex'[n][p]
    BY <1>5
  <2>2. k <= Len(R[t]) /\ \A i \in 1..k : R[t][i].term # t
    BY <1>5, <1>7, <1>8, <1>9
  <2>3. Credit(p, t, k, R)'
    BY <2>2 DEF Credit
  <2>4. nextIndex'[n][p] = last + 1 /\ (pstate'[n][p] = "Replicate" => matchIndex'[n][p] = last)
    BY <1>5
  <2>5. QED
    BY <1>own, <2>1, <2>3, <2>4
<1>11. ASSUME NEW q \in Server, q # n, state'[q] = "Leader", NEW p \in Server
       PROVE  /\ Askable(log'[q], term'[q], nextIndex'[q][p])
              /\ pstate'[q][p] = "Replicate"
                   => OwnNext(log'[q], term'[q], matchIndex'[q][p] + 1)
              /\ Credit(p, term[q], matchIndex[q][p], R)'
  <2>1. PICK k \in Nat : k = matchIndex[q][p]
    <3>1. matchIndex[q] \in [Server -> Nat]
      BY <1>1 DEF TypeOK
    <3>2. QED
      BY <3>1
  <2>2. PICK u \in Nat : u = term[q]
    BY <1>1 DEF TypeOK
  <2>3. /\ state[q] = "Leader" /\ log'[q] = log[q] /\ term'[q] = u
        /\ matchIndex'[q] = matchIndex[q] /\ nextIndex'[q] = nextIndex[q]
        /\ pstate'[q] = pstate[q]
    BY <1>1, <1>4, <1>11, <2>2 DEF TypeOK
  <2>4. /\ Askable(log[q], u, nextIndex[q][p])
        /\ pstate[q][p] = "Replicate" => OwnNext(log[q], u, matchIndex[q][p] + 1)
        /\ Credit(p, u, k, L)
    BY <1>1, <2>1, <2>2, <2>3 DEF ProgressOK
  <2>5. Credit(p, u, k, R)'
    BY <1>1, <2>4 DEF BeliefsGrow
  <2>6. k = matchIndex'[q][p]
    BY <2>1, <2>3
  <2>7. QED
    BY <2>3, <2>4, <2>5, <2>6
<1>12. ProgressOK(R)'
  BY <1>10, <1>11 DEF ProgressOK
<1>13. CommitsOK(R)'
  <2>1. ASSUME NEW p \in Server PROVE Reported(committed[p], term[p], R)'
    BY CommitsFrame
  <2>2. QED
    BY <2>1 DEF CommitsOK
<1>14. ChosenOK(R)'
  BY ChosenFrame
<1>15. QED
  BY <1>12, <1>13, <1>14 DEF Advances, CommitInv

LEMMA LonelyTimeoutCommit ==
    ASSUME NEW L, NEW R, Advances(L, R), NEW n \in Server, Timeout(n), Peers[n] = {}
    PROVE  CommitInv(R)'
<1>1. TypeOK /\ NetOK(L)
  BY DEF Advances, Context, CommitInv
<1>2. PICK t \in Nat : t = term[n] + 1
  BY <1>1 DEF TypeOK
<1>3. /\ BecomeLeader(n, t) /\ UNCHANGED <<msgs, committed, chosen>>
      /\ term' = [term EXCEPT ![n] = t]
  BY <1>2 DEF Timeout
<1>4. term'[n] = t /\ t > term[n] /\ \A p \in Server \ {n} : term'[p] = term[p]
  BY <1>1, <1>2, <1>3 DEF TypeOK
<1>5. NetOK(R)'
  <2>1. ASSUME NEW m \in msgs' PROVE MsgOK(m, R)'
    <3>1. m \in msgs /\ MsgOK(m, L)
      BY <1>1, <1>3 DEF NetOK
    <3>2. QED
      BY <3>1, MsgStays DEF Advances
  <2>2. QED
    BY <2>1 DEF NetOK
<1>6. QED
  BY <1>3, <1>4, <1>5, TakeOverCommit

LEMMA ElectedCommit ==
    ASSUME NEW L, NEW R, Advances(L, R), NEW n \in Server, NEW m \in msgs, HandleVoteGranted(n, m),
           HasQuorum(n, votes[n] \cup {m.from})
    PROVE  CommitInv(R)'
<1> DEFINE out == {HeartbeatMsg(n, p, term[n], committed[n]) : p \in Peers[n]}
<1>1. TypeOK
  BY DEF Advances, Context
<1>2. PICK t \in Nat : t = term[n]
  BY <1>1 DEF TypeOK
<1>3. /\ BecomeLeader(n, t) /\ UNCHANGED <<term, committed, chosen>> /\ state[n] = "Candidate"
      /\ Exchange({m}, out)
  BY <1>2 DEF HandleVoteGranted
<1>4. state'[n] = "Leader"
  BY <1>1, <1>3 DEF BecomeLeader, TypeOK
<1>5. \A w \in out : w \in Message /\ Sendable(w, R)'
  <2>1. ASSUME NEW w \in out PROVE w \in Message /\ Sendable(w, R)'
    <3>1. PICK p \in Peers[n] : w = HeartbeatMsg(n, p, term[n], committed[n])
      OBVIOUS
    <3>2. p \in Server
      BY PeersAssumption
    <3>3. committed'[n] = committed[n] /\ w = HeartbeatMsg(n, p, term'[n], committed[n])
      BY <1>3, <3>1
    <3>4. QED
      BY <1>4, <3>2, <3>3, HeartbeatSendable
  <2>2. QED
    BY <2>1
<1> HIDE DEF out
<1>6. NetOK(R)'
  BY <1>3, <1>5, SendsTrue
<1>7. term'[n] = t /\ t = term[n] /\ \A p \in Server \ {n} : term'[p] = term[p]
  BY <1>2, <1>3
<1>8. QED
  BY <1>3, <1>6, <1>7, TakeOverCommit

\* A follower commits no further than its leader says.
LEMMA FollowerCommits ==
    ASSUME NEW L, NEW R, Advances(L, R), NEW n \in Server, NEW m \in msgs, FollowSender(n, m),
           m.type \in {"Heartbeat", "Append"}, NEW l \in Seq(Entry),
           NEW c \in Nat, c = CommitTo(l, committed[n], m.commit),
           committed' = [committed EXCEPT ![n] = c]
    PROVE  CommitsOK(R)'
<1>1. TypeOK /\ TypeOK' /\ NetOK(L) /\ CommitsOK(L) /\ BeliefsGrow(L, R)
  BY DEF Advances, Context, CommitInv
<1>2. m \in Message
  BY <1>1 DEF TypeOK
<1>3. m.term \in Nat /\ m.commit \in Nat
  BY <1>2, MessageShape DEF HeartbeatMessage, AppendMessage
<1>4. PICK u \in Nat : u = m.term
  BY <1>3
<1>5. PICK k \in Nat : k = m.commit
  BY <1>3
<1>6. PICK old \in Nat : old = committed[n]
  BY <1>1 DEF TypeOK
<1>7. PICK t \in Nat : t = term[n]
  BY <1>1 DEF TypeOK
<1>8. t <= u /\ term'[n] = u
  BY <1>1, <1>4, <1>7 DEF FollowSender, TypeOK
<1>9. Reported(k, u, L)
  BY <1>1, <1>4, <1>5 DEF NetOK, MsgOK, FromLeader
<1>10. Reported(old, u, L)
  BY <1>1, <1>6, <1>7, <1>8, ReportedLater DEF CommitsOK
<1>11. c <= old \/ c <= k
  BY <1>5, <1>6 DEF CommitTo, MaxOf, MinOf, LastIndex
<1>12. Reported(c, u, L)
  BY <1>9, <1>10, <1>11, ReportedLess
<1>13. Reported(c, u, R)'
  BY <1>1, <1>12 DEF BeliefsGrow
<1>14. ASSUME NEW p \in Server PROVE Reported(committed[p], term[p], R)'
  <2>1. CASE p = n
    <3>1. committed'[p] = c /\ term'[p] = u
      BY <1>1, <1>8, <2>1 DEF TypeOK
    <3>2. QED
      BY <1>13, <3>1
  <2>2. CASE p # n
    <3>1. committed'[p] = committed[p]
      BY <1>1, <2>2 DEF TypeOK
    <3>2. QED
      BY <3>1, CommitsFrame
  <2>3. QED
    BY <2>1, <2>2
<1>15. QED
  BY <1>14 DEF CommitsOK

LEMMA HeartbeatCommit ==
    ASSUME NEW L, NEW R, Advances(L, R), NEW n \in Server, NEW m \in msgs, HandleHeartbeat(n, m)
    PROVE  CommitInv(R)'
<1>1. TypeOK
  BY DEF Advances, Context
<1>2. /\ m.type = "Heartbeat" /\ FollowSender(n, m)
      /\ committed' = [committed EXCEPT ![n] = CommitTo(log[n], committed[n], m.commit)]
      /\ Exchange({m}, {HeartbeatRspMsg(n, m.from, m.term)})
      /\ UNCHANGED <<leaderVars, history>>
  BY DEF HandleHeartbeat, Ready
<1>3. m \in HeartbeatMessage
  BY <1>1, <1>2, MessageShape DEF TypeOK
<1>4. m.from \in Server /\ m.term \in Nat /\ m.commit \in Nat
  BY <1>3 DEF HeartbeatMessage
<1>5. PICK l \in Seq(Entry) : l = log[n]
  BY <1>1 DEF TypeOK
<1>6. PICK c \in Nat : c = CommitTo(l, committed[n], m.commit)
  BY <1>1, <1>4, CommitToType DEF TypeOK
<1>7. committed' = [committed EXCEPT ![n] = c]
  BY <1>2, <1>5, <1>6
<1>8. CommitsOK(R)'
  BY <1>2, <1>6, <1>7, FollowerCommits
<1>9. NetOK(R)'
  <2>1. PICK w : w = HeartbeatRspMsg(n, m.from, m.term)
    OBVIOUS
  <2>2. w \in HeartbeatRspMessage
    BY <1>4, <2>1, ConstructorType
  <2>3. w \in Message /\ w.type \in PlainType
    BY <2>2 DEF PlainType, Message, HeartbeatRspMessage
  <2>4. Sendable(w, R)'
    BY <2>3, PlainSendable
  <2>5. QED
    BY <1>2, <2>1, <2>3, <2>4, OneSent
<1>10. ProgressOK(R)' /\ ChosenOK(R)'
  BY <1>2, ProgressFrame, ChosenFrame DEF leaderVars, history
<1>11. QED
  BY <1>8, <1>9, <1>10 DEF Advances, CommitInv

\* Who accepts entries of its leader's log to the end holds them: it can have
\* voted in no later term.
LEMMA AcceptCommit ==
    ASSUME NEW L, NEW R, Advances(L, R), NEW n \in Server, NEW m \in msgs, HandleAppendAccept(n, m)
    PROVE  CommitInv(R)'
<1>1. /\ TypeOK /\ TypeOK' /\ L \in LeaderLogs /\ R \in LeaderLogs /\ MatchInv(L) /\ MatchInv(R)'
      /\ LogInv /\ TermsBelow /\ NetOK(L) /\ RootsOrdered(L) /\ ElectionInv'
  BY DEF Advances, Context, CommitInv
<1>2. PICK l \in Seq(Entry) : l = log[n]
  BY <1>1 DEF TypeOK
<1>3. PICK r \in Seq(Entry) : r = log'[n]
  BY <1>1 DEF TypeOK
<1>4. /\ m.type = "Append" /\ FollowSender(n, m)
      /\ LogConsistencyCheck(l, m.prevIndex, m.prevTerm)
      /\ log' = [log EXCEPT ![n] = AppendEntries(l, m.entries)]
      /\ UNCHANGED <<leaderVars, history>>
  BY <1>2 DEF HandleAppendAccept, Ready
<1>5. r = AppendEntries(l, m.entries)
  BY <1>1, <1>3, <1>4 DEF TypeOK
<1>6. /\ committed' = [committed EXCEPT ![n] = CommitTo(r, committed[n], m.commit)]
      /\ Exchange({m}, {AppendRspMsg(n, m.from, m.term, LastIndex(r), FALSE, 0)})
  BY <1>2, <1>5 DEF HandleAppendAccept, Ready
<1>7. m \in AppendMessage /\ m.from \in Server /\ m.term \in Nat /\ m.commit \in Nat
  <2>1. m \in Message
    BY <1>1 DEF TypeOK
  <2>2. m \in AppendMessage
    BY <1>4, <2>1, MessageShape
  <2>3. QED
    BY <2>2 DEF AppendMessage
<1>8. PICK u \in Nat : u = m.term
  BY <1>7
<1>9. term[n] \in Nat /\ term[n] <= u /\ term'[n] = u
  BY <1>1, <1>4, <1>8 DEF FollowSender, TypeOK
<1>10. PICK c \in Nat : c = CommitTo(r, committed[n], m.commit)
  BY <1>1, <1>7, CommitToType DEF TypeOK
<1>11. CommitsOK(R)'
  BY <1>4, <1>6, <1>10, FollowerCommits
<1>12. ASSUME Transport = "mem" PROVE Credit(n, u, Len(r), R)' /\ R[u][Len(r)].term = u
  <2>1. GoodPiece(m) /\ PieceOf(m, L[m.term]) /\ OwnEnd(m, L) /\ GoodLog(l) /\ Rooted(l, L)
        /\ RootsRooted(L)
    BY <1>1, <1>2, <1>4
       DEF LogInv, GoodPieces, GoodLogs, MatchInv, PiecesOf, LogsRooted, NetOK, MsgOK
  <2>2. \A i \in 1..Len(l) : l[i].term <= m.term
    <3>1. ASSUME NEW i \in 1..Len(l) PROVE l[i].term <= m.term
      <4>1. l[i].term <= term[n] /\ l[i].term \in Nat
        BY <1>1, <1>2, EntryTerms DEF TermsBelow
      <4>2. QED
        BY <1>8, <1>9, <4>1
    <3>2. QED
      BY <3>1
  <2>3. Len(r) > 0 /\ LastTerm(r) = u
    BY <1>1, <1>4, <1>5, <1>7, <1>8, <1>12, <2>1, <2>2, AcceptEnds
  <2>4. Rooted(r, R)
    BY <1>1, <1>3 DEF MatchInv, LogsRooted
  <2>5. Len(r) <= Len(R[u]) /\ R[u][Len(r)].term = u
    <3>1. Len(r) <= Len(R[u]) /\ \A j \in 1..Len(r) : r[j] = R[u][j]
      BY <1>1, <2>3, <2>4, EndsInTerm
    <3>2. Len(r) \in 1..Len(r) /\ r[Len(r)].term = u
      BY <2>3, LastTermIs
    <3>3. QED
      BY <3>1, <3>2
  <2>6. ASSUME NEW i \in 1..Len(r) PROVE Held(n, u, i, R)'
    <3>1. Reaches(log'[n], u, i)
      BY <1>3, <2>3 DEF Reaches
    <3>2. \A b \in ballots' : b.voter = n => ~(b.term > u)
      <4>1. ASSUME NEW b \in ballots', b.voter = n PROVE ~(b.term > u)
        <5>1. b.term <= term'[n] /\ b.term \in Nat
          BY <1>1, <4>1 DEF ElectionInv, BallotsBind, TypeOK, Ballot
        <5>2. QED
          BY <1>9, <5>1
      <4>2. QED
        BY <4>1
    <3>3. QED
      BY <3>1, <3>2 DEF Held
  <2>7. QED
    BY <2>5, <2>6 DEF Credit
<1>13. NetOK(R)'
  <2>1. PICK k \in Nat : k = Len(r)
    OBVIOUS
  <2>2. PICK w : w = AppendRspMsg(n, m.from, u, k, FALSE, 0)
    OBVIOUS
  <2>3. w \in AppendRspMessage
    BY <1>7, <2>2, ConstructorType
  <2>4. w.type = "AppendRsp" /\ w.from = n /\ w.term = u /\ w.index = k /\ w.reject = FALSE
    BY <2>2 DEF AppendRspMsg
  <2>5. Sendable(w, R)'
    BY <1>12, <2>1, <2>4 DEF Sendable, Told
  <2>6. w \in Message /\ Exchange({m}, {w})
    BY <1>6, <1>8, <2>1, <2>2, <2>3 DEF Message, LastIndex
  <2>7. QED
    BY <2>5, <2>6, OneSent
<1>14. ProgressOK(R)' /\ ChosenOK(R)'
  BY <1>4, ProgressFrame, ChosenFrame DEF leaderVars, history
<1>15. QED
  BY <1>11, <1>13, <1>14 DEF Advances, CommitInv

-----------------------------------------------------------------------------
(* The leader's count *)

\* A leader holds its own log: it can have voted in no later term.
LEMMA LeaderHolds ==
    ASSUME NEW L, NEW R, Advances(L, R), NEW n \in Server, state'[n] = "Leader",
           NEW t \in Nat, t = term'[n], NEW k \in Nat, k <= Len(log'[n])
    PROVE  Credit(n, t, k, R)'
<1>1. /\ TypeOK' /\ R \in LeaderLogs /\ MatchInv(R)' /\ ElectionInv' /\ RootsOrdered(R)
  BY DEF Advances, Context
<1>2. log'[n] = R[t] /\ R[t] \in Seq(Entry)
  BY <1>1 DEF MatchInv, LeadersRoot, LeaderLogs
<1>3. PICK l \in Seq(Entry) : l = log'[n]
  BY <1>2
<1>4. Len(l) \in Nat /\ (Len(l) > 0 => LastTerm(l) = l[Len(l)].term)
  BY LastTermIs
<1>5. Len(l) > 0 => LastTerm(l) = t
  BY <1>1, <1>2, <1>3, <1>4 DEF RootsOrdered
<1>6. ASSUME NEW i \in 1..k PROVE Held(n, t, i, R)'
  <2>1. Reaches(log'[n], t, i)
    BY <1>3, <1>4, <1>5 DEF Reaches
  <2>2. \A b \in ballots' : b.voter = n => ~(b.term > t)
    <3>1. ASSUME NEW b \in ballots', b.voter = n PROVE ~(b.term > t)
      <4>1. b.term <= term'[n] /\ b.term \in Nat
        BY <1>1, <3>1 DEF ElectionInv, BallotsBind, TypeOK, Ballot
      <4>2. QED
        BY <4>1
    <3>2. QED
      BY <3>1
  <2>3. QED
    BY <2>1, <2>2 DEF Held
<1>7. QED
  BY <1>2, <1>6 DEF Credit

\* In an odd cluster the count, which starts at one and then counts the leader
\* again, is still that of a majority.
LEMMA CountIsMajority ==
    ASSUME OddCluster, NEW n \in Server, NEW match \in [Server -> Nat], NEW i \in Nat,
           CommitCount(n, match, i) >= CommitMajority(n)
    PROVE  Majority({p \in Server : match[p] >= i})
<1> DEFINE S == {p \in Server : match[p] >= i}
<1>1. Group(n) = Server
  BY DEF Group, OddCluster, StaticCluster
<1>2. PICK k \in Nat : Cardinality(Server) = 2 * k + 1
  BY DEF OddCluster
<1>3. Cardinality(S) \in Nat
  BY ServerAssumption, FS_Subset, FS_CardinalityType
<1>4. CommitCount(n, match, i) = 1 + Cardinality(S)
  BY <1>1 DEF CommitCount
<1>5. CommitMajority(n) = ((2 * k + 1) + 1) \div 2 + 1
  BY <1>1, <1>2 DEF CommitMajority
<1> HIDE DEF S
<1>6. ((2 * k + 1) + 1) \div 2 = k + 1
  OBVIOUS
<1>7. Cardinality(S) >= k + 1
  BY <1>3, <1>4, <1>5, <1>6
<1>8. Cardinality(S) * 2 > Cardinality(Server)
  BY <1>2, <1>3, <1>7
<1>9. S \in SUBSET Server
  BY DEF S
<1>10. QED
  BY <1>8, <1>9 DEF Majority, S

\* Where RaftLog.MaybeCommit moves the commit index.
Counted(n, l, match, t, c) ==
    /\ c \in 1..Len(l) /\ Term(l, c) = t
    /\ CommitCount(n, match, c) >= CommitMajority(n)

LEMMA MaybeCommitCounts ==
    ASSUME NEW n, NEW l \in Seq(Entry), NEW match, NEW old \in Nat, NEW t
    PROVE  MaybeCommit(n, l, match, old, t) > old =>
             Counted(n, l, match, t, MaybeCommit(n, l, match, old, t))
<1> DEFINE ready == {i \in (old + 1)..LastIndex(l) :
                       /\ CommitCount(n, match, i) >= CommitMajority(n)
                       /\ Term(l, i) = t}
           greatest == CHOOSE i \in ready : \A j \in ready : j <= i
<1>1. CASE ready = {}
  BY <1>1 DEF MaybeCommit
<1>2. CASE ready # {}
  <2>1. ready \in SUBSET (0..Len(l)) /\ Len(l) \in Nat
    BY DEF LastIndex
  <2>2. \E i \in ready : \A j \in ready : j <= i
    BY <2>1, <1>2, NatMax
  <2>3. greatest \in ready
    BY <2>2
  <2>4. MaybeCommit(n, l, match, old, t) = greatest
    BY <1>2 DEF MaybeCommit
  <2>5. QED
    BY <2>1, <2>3, <2>4 DEF LastIndex, Counted
<1>3. QED
  BY <1>1, <1>2

\* What the count says is committed, is: the nodes counted hold the entry.
LEMMA CountPoint ==
    ASSUME NEW L, NEW R, Advances(L, R), NEW n \in Server, state'[n] = "Leader",
           NEW t \in Nat, t = term'[n], NEW l, l = log'[n], NEW match \in [Server -> Nat],
           \A p \in Server : Credit(p, t, match[p], R)',
           NEW old \in Nat, NEW c \in Nat, c = MaybeCommit(n, l, match, old, t), c > old
    PROVE  Point(t, c, R)'
<1>1. R \in LeaderLogs /\ MatchInv(R)' /\ OddCluster
  BY DEF Advances, Context
<1>2. l = R[t]
  BY <1>1 DEF MatchInv, LeadersRoot
<1>3. l \in Seq(Entry)
  BY <1>1, <1>2 DEF LeaderLogs
<1>4. c \in 1..Len(l) /\ Term(l, c) = t /\ CommitCount(n, match, c) >= CommitMajority(n)
  <2>1. Counted(n, l, match, t, c)
    BY <1>3, MaybeCommitCounts
  <2>2. QED
    BY <2>1 DEF Counted
<1>5. c \in 1..Len(R[t]) /\ R[t][c].term = t
  BY <1>2, <1>4 DEF Term
<1>6. PICK S : S = {p \in Server : match[p] >= c}
  OBVIOUS
<1>7. Majority(S)
  BY <1>1, <1>4, <1>6, CountIsMajority
<1>8. ASSUME NEW p \in S PROVE Held(p, t, c, R)' \/ Point(t, c, R)'
  <2>1. p \in Server /\ match[p] \in Nat /\ match[p] >= c
    BY <1>6
  <2>2. c \in 1..match[p]
    BY <1>4, <2>1
  <2>3. QED
    BY <1>5, <2>1, <2>2 DEF Credit
<1>9. CASE \A p \in S : Held(p, t, c, R)'
  <2>1. S \in SUBSET Server
    BY <1>6
  <2>2. QED
    BY <1>5, <1>7, <1>9, <2>1 DEF Point
<1>10. QED
  BY <1>8, <1>9

\* The leader's side of a commit.
LEMMA LeaderCommits ==
    ASSUME NEW L, NEW R, Advances(L, R), NEW n \in Server, state'[n] = "Leader",
           NEW t \in Nat, t = term'[n], NEW l, l = log'[n], NEW match \in [Server -> Nat],
           \A p \in Server : Credit(p, t, match[p], R)',
           NEW old \in Nat, old = committed[n],
           NEW c \in Nat, c = MaybeCommit(n, l, match, old, t),
           committed' = [committed EXCEPT ![n] = c],
           chosen' = chosen \cup NewlyChosen(l, old, c)
    PROVE  CommitsOK(R)' /\ ChosenOK(R)' /\ Reported(c, t, R)' /\ Reported(old, t, R)'
<1>1. /\ TypeOK /\ TypeOK' /\ MatchInv(R)' /\ LogInv' /\ R \in LeaderLogs /\ CommitsOK(L)
      /\ TermsGrow /\ BeliefsGrow(L, R)
  BY DEF Advances, Context, CommitInv
<1>2. l = R[t] /\ l \in Seq(Entry)
  BY <1>1 DEF MatchInv, LeadersRoot, LeaderLogs
<1>3. c >= old /\ (c > old => c <= Len(l))
  BY <1>2, MaybeCommitType
<1>4. c > old => Point(t, c, R)'
  BY CountPoint
<1>5. Reported(old, t, R)'
  <2>1. PICK u \in Nat : u = term[n]
    BY <1>1 DEF TypeOK
  <2>2. u <= t
    BY <1>1, <2>1 DEF TermsGrow
  <2>3. Reported(old, u, L)
    BY <1>1, <2>1 DEF CommitsOK
  <2>4. Reported(old, t, L)
    BY <2>2, <2>3, ReportedLater
  <2>5. QED
    BY <1>1, <2>4 DEF BeliefsGrow
<1>6. Reported(c, t, R)'
  <2>1. CASE c = old
    BY <1>5, <2>1
  <2>2. CASE c > old
    <3>1. t \in 0..t /\ c <= c
      OBVIOUS
    <3>2. QED
      BY <1>4, <2>2, <3>1 DEF Reported
  <2>3. QED
    BY <1>3, <2>1, <2>2
<1>7. ASSUME NEW p \in Server PROVE Reported(committed[p], term[p], R)'
  <2>1. CASE p = n
    <3>1. committed'[p] = c /\ term'[p] = t
      BY <1>1, <2>1 DEF TypeOK
    <3>2. QED
      BY <1>6, <3>1
  <2>2. CASE p # n
    <3>1. committed'[p] = committed[p]
      BY <1>1, <2>2 DEF TypeOK
    <3>2. QED
      BY <3>1, CommitsFrame
  <2>3. QED
    BY <2>1, <2>2
<1>8. ASSUME NEW e \in chosen'
      PROVE  \E s \in Nat, k \in Nat : Point(s, k, R)' /\ e.index \in 1..k /\ e = R[s][e.index]
  <2>1. CASE e \in chosen
    BY <2>1, ChosenStays
  <2>2. CASE e \in NewlyChosen(l, old, c)
    <3>1. c > old /\ e \in {l[i] : i \in 1..c}
      BY <2>2 DEF NewlyChosen
    <3>2. PICK i \in 1..c : e = l[i]
      BY <3>1
    <3>3. i \in 1..Len(l) /\ e.index = i
      <4>1. i \in 1..Len(l)
        BY <1>2, <1>3, <3>1
      <4>2. GoodLog(l)
        BY <1>1 DEF LogInv, GoodLogs
      <4>3. QED
        BY <3>2, <4>1, <4>2 DEF GoodLog
    <3>4. Point(t, c, R)' /\ e.index \in 1..c /\ e = R[t][e.index]
      BY <1>2, <1>4, <3>1, <3>2, <3>3
    <3>5. QED
      BY <3>4
  <2>3. QED
    BY <2>1, <2>2
<1>9. CommitsOK(R)'
  BY <1>7 DEF CommitsOK
<1>10. ChosenOK(R)'
  BY <1>8 DEF ChosenOK
<1>11. QED
  BY <1>5, <1>6, <1>9, <1>10

\* The leader's side of its progress.
LEMMA LeaderProgress ==
    ASSUME NEW L, NEW R, Advances(L, R), UNCHANGED elected, NEW n \in Server,
           NEW t \in Nat, t = term'[n], NEW match \in [Server -> Nat],
           \A p \in Server : Credit(p, t, match[p], R)',
           matchIndex' = [matchIndex EXCEPT ![n] = match],
           \A p \in Server : Askable(log'[n], t, nextIndex'[n][p]),
           \A p \in Server : pstate'[n][p] = "Replicate" => OwnNext(log'[n], t, match[p] + 1),
           \A q \in Server \ {n} : nextIndex'[q] = nextIndex[q] /\ pstate'[q] = pstate[q]
    PROVE  ProgressOK(R)'
<1>1. TypeOK /\ TypeOK'
  BY DEF Advances, Context
<1>2. ASSUME NEW q \in Server, state'[q] = "Leader", NEW p \in Server
      PROVE  /\ Askable(log'[q], term'[q], nextIndex'[q][p])
             /\ pstate'[q][p] = "Replicate"
                  => OwnNext(log'[q], term'[q], matchIndex'[q][p] + 1)
             /\ Credit(p, term[q], matchIndex[q][p], R)'
  <2>1. CASE q = n
    <3>1. PICK k \in Nat : k = match[p]
      OBVIOUS
    <3>2. matchIndex'[q] = match /\ matchIndex'[q][p] = k /\ term'[q] = t
      BY <1>1, <2>1, <3>1 DEF TypeOK
    <3>3. Credit(p, t, k, R)'
      BY <3>1
    <3>4. Askable(log'[q], t, nextIndex'[q][p])
          /\ (pstate'[q][p] = "Replicate" => OwnNext(log'[q], t, match[p] + 1))
      BY <2>1
    <3>5. QED
      BY <3>1, <3>2, <3>3, <3>4
  <2>2. CASE q # n
    <3>1. PICK k \in Nat : k = matchIndex[q][p]
      <4>1. matchIndex[q] \in [Server -> Nat]
        BY <1>1 DEF TypeOK
      <4>2. QED
        BY <4>1
    <3>2. PICK u \in Nat : u = term'[q]
      BY <1>1 DEF TypeOK
    <3>3. /\ Askable(log'[q], u, nextIndex[q][p])
          /\ pstate[q][p] = "Replicate" => OwnNext(log'[q], u, k + 1)
          /\ Credit(p, u, k, R)'
      BY <1>2, <3>1, <3>2, ProgressStays
    <3>4. matchIndex'[q][p] = k /\ nextIndex'[q] = nextIndex[q] /\ pstate'[q] = pstate[q]
      BY <1>1, <2>2, <3>1 DEF TypeOK
    <3>5. QED
      BY <3>2, <3>3, <3>4
  <2>3. QED
    BY <2>1, <2>2
<1>3. QED
  BY <1>2 DEF ProgressOK

LEMMA AppendSuccessCommit ==
    ASSUME NEW L, NEW R, Advances(L, R), NEW n \in Server, NEW m \in msgs, HandleAppendSuccess(n, m)
    PROVE  CommitInv(R)'
<1>1. /\ TypeOK /\ TypeOK' /\ NetOK(L) /\ BeliefsGrow(L, R) /\ MatchInv(L) /\ ProgressOK(L)
      /\ L \in LeaderLogs
  BY DEF Advances, Context, CommitInv
<1>2. /\ m.type = "AppendRsp" /\ m.term = term[n] /\ state[n] = "Leader" /\ m.from \in Peers[n]
      /\ UNCHANGED <<serverVars, ballots, elected>>
  BY DEF HandleAppendSuccess
<1>3. m \in AppendRspMessage
  <2>1. m \in Message
    BY <1>1 DEF TypeOK
  <2>2. QED
    BY <1>2, <2>1, MessageShape
<1>4. PICK k \in Nat : k = m.index
  BY <1>3 DEF AppendRspMessage
<1>5. PICK p \in Server : p = m.from
  BY <1>3 DEF AppendRspMessage
<1>6. PICK t \in Nat : t = term[n]
  BY <1>1 DEF TypeOK
<1>7. PICK l \in Seq(Entry) : l = log[n]
  BY <1>1 DEF TypeOK
<1>8. PICK old \in Nat : old = committed[n]
  BY <1>1 DEF TypeOK
<1>9. PICK match \in [Server -> Nat] : match = [matchIndex[n] EXCEPT ![p] = k]
  <2>1. matchIndex[n] \in [Server -> Nat]
    BY <1>1 DEF TypeOK
  <2>2. QED
    BY <2>1
<1>10. PICK c \in Nat : c = MaybeCommit(n, l, match, old, t)
  BY MaybeCommitType
<1>11. nextIndex[n] \in [Server -> Nat \ {0}] /\ nextIndex[n][p] \in Nat \ {0}
  BY <1>1 DEF TypeOK
<1>12. PICK next \in Nat \ {0} : next = IF pstate[n][p] = "Replicate"
                                        THEN MaxOf(nextIndex[n][p], k + 1) ELSE k + 1
  <2>1. MaxOf(nextIndex[n][p], k + 1) \in Nat \ {0}
    BY <1>11 DEF MaxOf
  <2>2. QED
    BY <2>1
<1>13. /\ matchIndex' = [matchIndex EXCEPT ![n] = match]
       /\ nextIndex' = [nextIndex EXCEPT ![n][p] = next]
       /\ pstate' = [pstate EXCEPT ![n][p] = "Replicate"]
       /\ log' = [log EXCEPT ![n] = l] /\ committed' = [committed EXCEPT ![n] = c]
       /\ chosen' = chosen \cup NewlyChosen(l, old, c)
       /\ Exchange({m}, IF k < LastIndex(l) THEN {AppendMsg(n, p, t, next, l, c)} ELSE {})
  BY <1>4, <1>5, <1>6, <1>7, <1>8, <1>9, <1>10, <1>12 DEF HandleAppendSuccess, Ready
<1>14. state'[n] = "Leader" /\ t = term'[n] /\ l = log'[n] /\ UNCHANGED elected
  BY <1>1, <1>2, <1>6, <1>7, <1>13 DEF serverVars, TypeOK
<1>15. Credit(p, t, k, L) /\ (k > 0 => L[t][k].term = t)
  <2>1. Told(m, L)
    BY <1>1, <1>2 DEF NetOK, MsgOK
  <2>2. QED
    BY <1>2, <1>4, <1>5, <1>6, <2>1 DEF Told
<1>16. \A q \in Server : Credit(q, t, match[q], R)'
  <2>1. ASSUME NEW q \in Server PROVE Credit(q, t, match[q], R)'
    <3>1. CASE q = p
      <4>1. match[q] = k
        BY <1>1, <1>9, <3>1 DEF TypeOK
      <4>2. QED
        BY <1>1, <1>15, <3>1, <4>1 DEF BeliefsGrow
    <3>2. CASE q # p
      <4>1. match[q] \in Nat /\ match[q] = matchIndex[n][q]
        BY <1>1, <1>9, <3>2 DEF TypeOK
      <4>2. QED
        BY <1>14, <4>1, ProgressStays
    <3>3. QED
      BY <3>1, <3>2
  <2>2. QED
    BY <2>1
<1>17. CommitsOK(R)' /\ ChosenOK(R)' /\ Reported(c, t, R)'
  BY <1>8, <1>10, <1>13, <1>14, <1>16, LeaderCommits
<1>18. Askable(l, t, nextIndex[n][p]) /\ Askable(l, t, k + 1) /\ OwnNext(l, t, k + 1)
  <2>1. Askable(l, t, nextIndex[n][p])
    BY <1>1, <1>2, <1>6, <1>7 DEF ProgressOK
  <2>2. l = L[t]
    BY <1>1, <1>2, <1>6, <1>7 DEF MatchInv, LeadersRoot
  <2>3. k > 0
    <3>1. matchIndex[n] \in [Server -> Nat]
      BY <1>1 DEF TypeOK
    <3>2. k > matchIndex[n][p] /\ matchIndex[n][p] \in Nat
      BY <1>4, <1>5, <3>1 DEF HandleAppendSuccess
    <3>3. QED
      BY <3>2
  <2>4. k \in 1..Len(l) /\ l[k].term = t
    BY <1>15, <2>2, <2>3 DEF Credit
  <2>5. OwnNext(l, t, k + 1)
    BY <2>4 DEF OwnNext
  <2>6. QED
    BY <2>1, <2>4, <2>5 DEF Askable
<1>19. Askable(l, t, next)
  <2>1. next = nextIndex[n][p] \/ next = k + 1
    BY <1>11, <1>12 DEF MaxOf
  <2>2. QED
    BY <1>18, <2>1
<1>20. /\ \A q \in Server : Askable(log'[n], t, nextIndex'[n][q])
       /\ \A q \in Server : pstate'[n][q] = "Replicate" => OwnNext(log'[n], t, match[q] + 1)
  <2>1. ASSUME NEW q \in Server
        PROVE  /\ Askable(l, t, nextIndex'[n][q])
               /\ pstate'[n][q] = "Replicate" => OwnNext(l, t, match[q] + 1)
    <3>1. CASE q = p
      <4>1. nextIndex'[n][q] = next
        BY <1>1, <1>13, <3>1 DEF TypeOK
      <4>2. match[q] = k
        BY <1>1, <1>9, <3>1 DEF TypeOK
      <4>3. QED
        BY <1>18, <1>19, <4>1, <4>2
    <3>2. CASE q # p
      <4>1. nextIndex'[n][q] = nextIndex[n][q]
        BY <1>1, <1>13, <3>2 DEF TypeOK
      <4>2. pstate'[n][q] = pstate[n][q]
        BY <1>1, <1>13, <3>2 DEF TypeOK
      <4>3. match[q] = matchIndex[n][q]
        BY <1>1, <1>9, <3>2 DEF TypeOK
      <4>4. /\ Askable(l, t, nextIndex[n][q])
            /\ pstate[n][q] = "Replicate" => OwnNext(l, t, matchIndex[n][q] + 1)
        BY <1>1, <1>2, <1>6, <1>7 DEF ProgressOK
      <4>5. QED
        BY <4>1, <4>2, <4>3, <4>4
    <3>3. QED
      BY <3>1, <3>2
  <2>2. QED
    BY <1>14, <2>1
<1>21. \A q \in Server \ {n} : nextIndex'[q] = nextIndex[q] /\ pstate'[q] = pstate[q]
  BY <1>1, <1>13 DEF TypeOK
<1>22. ProgressOK(R)'
  BY <1>13, <1>14, <1>16, <1>20, <1>21, LeaderProgress
<1>23. NetOK(R)'
  <2>1. PICK out : out = IF k < LastIndex(l) THEN {AppendMsg(n, p, t, next, l, c)} ELSE {}
    OBVIOUS
  <2>2. out \subseteq {AppendMsg(n, p, t, next, log'[n], c)} /\ Askable(log'[n], t, next)
    BY <1>14, <1>19, <2>1
  <2>3. Exchange({m}, out)
    BY <1>13, <2>1
  <2>4. QED
    BY <1>14, <1>17, <2>2, <2>3, AppendSends
<1>24. QED
  BY <1>17, <1>22, <1>23 DEF Advances, CommitInv

LEMMA AppendRejectedCommit ==
    ASSUME NEW L, NEW R, Advances(L, R), NEW n \in Server, NEW m \in msgs, HandleAppendRejected(n, m)
    PROVE  CommitInv(R)'
<1>1. /\ TypeOK /\ TypeOK' /\ L \in LeaderLogs /\ MatchInv(L) /\ ProgressOK(L) /\ NetOK(L)
  BY DEF Advances, Context, CommitInv
<1>2. /\ m.type = "AppendRsp" /\ m.reject /\ state[n] = "Leader" /\ m.from \in Peers[n]
      /\ UNCHANGED <<serverVars, logVars, matchIndex, history>>
  BY DEF HandleAppendRejected
<1>3. m \in AppendRspMessage
  <2>1. m \in Message
    BY <1>1 DEF TypeOK
  <2>2. QED
    BY <1>2, <2>1, MessageShape
<1>4. m.conflict \in Nat /\ m.from \in Server
  BY <1>3 DEF AppendRspMessage
<1>5. PICK p \in Server : p = m.from
  BY <1>4
<1>6. PICK t \in Nat : t = term'[n]
  BY <1>1 DEF TypeOK
<1>7. PICK l \in Seq(Entry) : l = log[n]
  BY <1>1 DEF TypeOK
<1>8. nextIndex[n] \in [Server -> Nat \ {0}] /\ nextIndex[n][p] \in Nat \ {0}
      /\ matchIndex[n] \in [Server -> Nat] /\ matchIndex[n][p] \in Nat
  BY <1>1, ZenonT(40) DEF TypeOK
<1>9. /\ Askable(l, t, nextIndex[n][p])
      /\ pstate[n][p] = "Replicate" => OwnNext(l, t, matchIndex[n][p] + 1)
      /\ matchIndex[n][p] <= Len(l)
  <2>1. t = term[n]
    BY <1>2, <1>6 DEF serverVars
  <2>2. /\ Askable(l, t, nextIndex[n][p])
        /\ pstate[n][p] = "Replicate" => OwnNext(l, t, matchIndex[n][p] + 1)
        /\ Credit(p, t, matchIndex[n][p], L)
    BY <1>1, <1>2, <1>7, <2>1 DEF ProgressOK
  <2>3. l = L[t]
    BY <1>1, <1>2, <1>7, <2>1 DEF MatchInv, LeadersRoot
  <2>4. QED
    BY <2>2, <2>3 DEF Credit
<1>10. PICK next \in Nat \ {0} : /\ next = MaybeDecrTo(n, p, m.index, m.conflict)
                                /\ Askable(l, t, next)
  <2>1. m.index = 0
    BY <1>1, <1>2 DEF NetOK, MsgOK, Told
  <2>2. CASE pstate[n][p] = "Replicate"
    <3>1. MaybeDecrTo(n, p, m.index, m.conflict) = matchIndex[n][p] + 1
      BY <2>2 DEF MaybeDecrTo
    <3>2. Len(l) \in Nat
      OBVIOUS
    <3>3. matchIndex[n][p] + 1 \in Nat \ {0} /\ matchIndex[n][p] + 1 <= Len(l) + 1
      BY <1>8, <1>9, <3>2
    <3>4. QED
      BY <1>9, <2>2, <3>1, <3>3 DEF Askable
  <2>3. CASE pstate[n][p] # "Replicate"
    <3>1. MinOf(1, MaxOf(m.conflict, 1)) = 1
      BY <1>4 DEF MinOf, MaxOf
    <3>2. MaybeDecrTo(n, p, m.index, m.conflict) = nextIndex[n][p]
      BY <1>8, <2>1, <2>3, <3>1 DEF MaybeDecrTo
    <3>3. QED
      BY <1>8, <1>9, <3>2
  <2>4. QED
    BY <2>2, <2>3
<1>11. PICK out : out = IF pstate[n][p] = "Replicate" \/ next < nextIndex[n][p]
                        THEN {AppendMsg(n, p, term[n], next, log[n], committed[n])} ELSE {}
  OBVIOUS
<1>12. /\ nextIndex' = [nextIndex EXCEPT ![n][p] = next]
       /\ pstate' = [pstate EXCEPT ![n][p] = "Probe"]
       /\ Exchange({m}, out)
  BY <1>5, <1>10, <1>11 DEF HandleAppendRejected
<1>13. /\ state'[n] = "Leader" /\ term'[n] = term[n] /\ log'[n] = l
       /\ committed' = committed /\ UNCHANGED <<elected, chosen>>
  BY <1>2, <1>7 DEF serverVars, logVars, history
<1>14. PICK k \in Nat : k = committed'[n]
  BY <1>1 DEF TypeOK
<1>15. Reported(k, t, R)'
  <2>1. Reported(committed[n], term[n], R)'
    BY <1>13, CommitsFrame
  <2>2. QED
    BY <1>6, <1>14, <2>1
<1>16. NetOK(R)'
  <2>1. out \subseteq {AppendMsg(n, p, t, next, log'[n], k)}
    BY <1>6, <1>7, <1>11, <1>13, <1>14
  <2>2. Askable(log'[n], t, next)
    BY <1>10, <1>13
  <2>3. QED
    BY <1>6, <1>12, <1>13, <1>15, <2>1, <2>2, AppendSends
<1>17. ProgressOK(R)'
  <2>1. ASSUME NEW q \in Server, state'[q] = "Leader", NEW x \in Server
        PROVE  /\ Askable(log'[q], term'[q], nextIndex'[q][x])
               /\ pstate'[q][x] = "Replicate"
                    => OwnNext(log'[q], term'[q], matchIndex'[q][x] + 1)
               /\ Credit(x, term[q], matchIndex[q][x], R)'
    <3>1. PICK j \in Nat : j = matchIndex[q][x]
      <4>1. matchIndex[q] \in [Server -> Nat]
        BY <1>1 DEF TypeOK
      <4>2. QED
        BY <4>1
    <3>2. PICK u \in Nat : u = term'[q]
      BY <1>1 DEF TypeOK
    <3>3. /\ Askable(log'[q], u, nextIndex[q][x])
          /\ pstate[q][x] = "Replicate" => OwnNext(log'[q], u, j + 1)
          /\ Credit(x, u, j, R)'
      BY <1>13, <2>1, <3>1, <3>2, ProgressStays
    <3>4. matchIndex'[q][x] = j
      BY <1>2, <3>1
    <3>5. /\ Askable(log'[q], u, nextIndex'[q][x])
          /\ pstate'[q][x] = "Replicate" => pstate[q][x] = "Replicate"
      <4>1. CASE q = n /\ x = p
        <5>1. nextIndex'[q][x] = next
          BY <1>1, <1>12, <4>1 DEF TypeOK
        <5>2. pstate'[q][x] = "Probe"
          BY <1>1, <1>12, <4>1 DEF TypeOK
        <5>3. u = t
          BY <1>6, <3>2, <4>1
        <5>4. QED
          BY <1>10, <1>13, <4>1, <5>1, <5>2, <5>3
      <4>2. CASE ~(q = n /\ x = p)
        <5>1. nextIndex'[q][x] = nextIndex[q][x]
          BY <1>1, <1>12, <4>2 DEF TypeOK
        <5>2. pstate'[q][x] = pstate[q][x]
          BY <1>1, <1>12, <4>2 DEF TypeOK
        <5>3. QED
          BY <3>3, <5>1, <5>2
      <4>3. QED
        BY <4>1, <4>2
    <3>6. QED
      BY <3>2, <3>3, <3>4, <3>5
  <2>2. QED
    BY <2>1 DEF ProgressOK
<1>18. CommitsOK(R)'
  <2>1. ASSUME NEW q \in Server PROVE Reported(committed[q], term[q], R)'
    BY <1>13, CommitsFrame
  <2>2. QED
    BY <2>1 DEF CommitsOK
<1>19. ChosenOK(R)'
  BY <1>13, ChosenFrame
<1>20. QED
  BY <1>16, <1>17, <1>18, <1>19 DEF Advances, CommitInv

LEMMA ProposalCommit ==
    ASSUME NEW L, NEW R, Advances(L, R), NEW n \in Server, NEW v \in Value, NEW taken,
           HandleProposal(n, v, taken)
    PROVE  CommitInv(R)'
<1>1. /\ TypeOK /\ TypeOK' /\ ProgressOK(L)
  BY DEF Advances, Context, CommitInv
<1>2. state[n] = "Leader" /\ UNCHANGED <<serverVars, elected, pstate>>
  BY DEF HandleProposal
<1>3. PICK t \in Nat : t = term[n]
  BY <1>1 DEF TypeOK
<1>4. log[n] \in Seq(Entry) /\ Len(log[n]) \in Nat
  <2>1. log[n] \in Seq(Entry)
    BY <1>1 DEF TypeOK
  <2>2. QED
    BY <2>1
<1>5. PICK l \in Seq(Entry) : l = AppendOne(log[n], t, v)
  BY <1>4, AppendOneType
<1>6. Len(l) = Len(log[n]) + 1 /\ l[Len(l)].term = t
  <2>1. v \in Value \cup {Noop}
    OBVIOUS
  <2>2. /\ Len(AppendOne(log[n], t, v)) = Len(log[n]) + 1
        /\ AppendOne(log[n], t, v)[Len(log[n]) + 1].term = t
    BY <1>4, <2>1, AppendOnePointwise, ZenonT(40)
  <2>3. QED
    BY <1>5, <2>2
<1>7. PICK old \in Nat : old = committed[n]
  BY <1>1 DEF TypeOK
<1>8. matchIndex[n] \in [Server -> Nat] /\ matchIndex[n][n] \in Nat
      /\ nextIndex[n] \in [Server -> Nat \ {0}] /\ nextIndex[n][n] \in Nat \ {0}
  BY <1>1, SMTT(30) DEF TypeOK
<1>9. PICK match \in [Server -> Nat] :
        match = [matchIndex[n] EXCEPT ![n] = MaxOf(@, LastIndex(l))]
  <2>1. MaxOf(matchIndex[n][n], LastIndex(l)) \in Nat
    BY <1>4, <1>6, <1>8 DEF MaxOf, LastIndex
  <2>2. QED
    BY <1>8, <2>1
<1>10. PICK c \in Nat : c = MaybeCommit(n, l, match, old, t)
  BY MaybeCommitType
<1>11. PICK out : out = {AppendMsg(n, p, term[n], nextIndex[n][p], l, committed[n]) : p \in Peers[n]}
  OBVIOUS
<1>12. /\ matchIndex' = [matchIndex EXCEPT ![n] = match]
       /\ nextIndex' = [nextIndex EXCEPT ![n][n] = MaxOf(@, LastIndex(l) + 1)]
       /\ log' = [log EXCEPT ![n] = l] /\ committed' = [committed EXCEPT ![n] = c]
       /\ chosen' = chosen \cup NewlyChosen(l, old, c)
       /\ Exchange(taken, out)
  BY <1>3, <1>5, <1>7, <1>9, <1>10, <1>11 DEF HandleProposal, Ready
<1>13. state'[n] = "Leader" /\ t = term'[n] /\ l = log'[n] /\ UNCHANGED elected
  BY <1>1, <1>2, <1>3, <1>12 DEF serverVars, TypeOK
<1>14. ASSUME NEW q \in Server
       PROVE  /\ Askable(log'[n], t, nextIndex[n][q])
              /\ nextIndex[n][q] \in Nat \ {0}
              /\ \E k \in Nat : /\ k = matchIndex[n][q] /\ k <= Len(l) /\ Credit(q, t, k, R)'
                                /\ pstate[n][q] = "Replicate" => OwnNext(log'[n], t, k + 1)
  <2>1. PICK k \in Nat : k = matchIndex[n][q]
    BY <1>8
  <2>2. /\ Askable(log'[n], t, nextIndex[n][q]) /\ Credit(q, t, k, R)'
        /\ pstate[n][q] = "Replicate" => OwnNext(log'[n], t, k + 1)
    BY <1>13, <2>1, ProgressStays
  <2>3. l = R[t]
    BY <1>13 DEF Advances, Context, MatchInv, LeadersRoot
  <2>4. k <= Len(l)
    BY <2>2, <2>3 DEF Credit
  <2>5. QED
    BY <1>8, <2>1, <2>2, <2>4
<1>own. OwnNext(l, t, Len(l) + 1) /\ Askable(l, t, Len(l) + 1)
  <2>1. Len(l) \in 1..Len(l)
    BY <1>4, <1>6
  <2>2. QED
    BY <1>6, <2>1 DEF OwnNext, Askable
<1>15. \A q \in Server : /\ Credit(q, t, match[q], R)'
                         /\ pstate'[n][q] = "Replicate" => OwnNext(log'[n], t, match[q] + 1)
  <2>1. ASSUME NEW q \in Server
        PROVE  /\ Credit(q, t, match[q], R)'
               /\ pstate'[n][q] = "Replicate" => OwnNext(log'[n], t, match[q] + 1)
    <3>1. CASE q = n
      <4>1. PICK k \in Nat : k = match[n]
        OBVIOUS
      <4>2. k = Len(l)
        <5>1. matchIndex[n][n] <= Len(l)
          BY <1>14
        <5>2. MaxOf(matchIndex[n][n], LastIndex(l)) = Len(l)
          BY <1>4, <1>6, <1>8, <5>1 DEF MaxOf, LastIndex
        <5>3. QED
          BY <1>8, <1>9, <4>1, <5>2
      <4>3. k <= Len(log'[n])
        BY <1>13, <4>2
      <4>4. Credit(n, t, k, R)'
        BY <1>13, <4>3, LeaderHolds
      <4>5. OwnNext(log'[n], t, k + 1)
        BY <1>own, <1>13, <4>2
      <4>6. QED
        BY <3>1, <4>1, <4>4, <4>5
    <3>2. CASE q # n
      <4>1. match[q] = matchIndex[n][q]
        BY <1>8, <1>9, <3>2
      <4>2. PICK k \in Nat : /\ k = matchIndex[n][q] /\ Credit(q, t, k, R)'
                             /\ pstate[n][q] = "Replicate" => OwnNext(log'[n], t, k + 1)
        BY <1>14
      <4>3. match[q] = k /\ pstate' = pstate
        BY <1>2, <4>1, <4>2
      <4>4. QED
        BY <4>2, <4>3
    <3>3. QED
      BY <3>1, <3>2
  <2>2. QED
    BY <2>1
<1>16. CommitsOK(R)' /\ ChosenOK(R)' /\ Reported(old, t, R)'
  BY <1>7, <1>10, <1>12, <1>13, <1>15, LeaderCommits
<1>17. \A q \in Server : Askable(log'[n], t, nextIndex'[n][q])
  <2>1. ASSUME NEW q \in Server PROVE Askable(log'[n], t, nextIndex'[n][q])
    <3>1. CASE q = n
      <4>1. nextIndex'[n][n] = MaxOf(nextIndex[n][n], LastIndex(l) + 1)
        BY <1>1, <1>12 DEF TypeOK
      <4>2. nextIndex[n][n] <= Len(l) + 1
        BY <1>13, <1>14 DEF Askable
      <4>3. MaxOf(nextIndex[n][n], LastIndex(l) + 1) = Len(l) + 1
        BY <1>4, <1>6, <1>8, <4>2 DEF MaxOf, LastIndex
      <4>4. QED
        BY <1>own, <1>13, <3>1, <4>1, <4>3
    <3>2. CASE q # n
      <4>1. nextIndex'[n][q] = nextIndex[n][q]
        BY <1>1, <1>12, <3>2 DEF TypeOK
      <4>2. QED
        BY <1>14, <4>1
    <3>3. QED
      BY <3>1, <3>2
  <2>2. QED
    BY <2>1
<1>18. \A q \in Server \ {n} : nextIndex'[q] = nextIndex[q] /\ pstate'[q] = pstate[q]
  BY <1>1, <1>2, <1>12 DEF TypeOK
<1>19. ProgressOK(R)'
  BY <1>12, <1>13, <1>15, <1>17, <1>18, LeaderProgress
<1>20. NetOK(R)'
  <2>1. ASSUME NEW w \in out PROVE w \in Message /\ Sendable(w, R)'
    <3>1. PICK p \in Peers[n] : w = AppendMsg(n, p, term[n], nextIndex[n][p], l, committed[n])
      BY <1>11
    <3>2. p \in Server
      BY PeersAssumption
    <3>3. PICK next \in Nat \ {0} : next = nextIndex[n][p]
      BY <1>14, <3>2
    <3>4. Askable(l, t, next)
      BY <1>13, <1>14, <3>2, <3>3
    <3>5. w = AppendMsg(n, p, t, next, l, old)
      BY <1>3, <1>7, <3>1, <3>3
    <3>6. QED
      BY <1>13, <1>16, <3>2, <3>4, <3>5, AppendSendable
  <2>2. QED
    BY <1>12, <2>1, SendsTrue
<1>21. QED
  BY <1>16, <1>19, <1>20 DEF Advances, CommitInv

\* Every step keeps the invariant.
LEMMA CommitStep ==
    ASSUME NEW L, NEW R, Context(L, R), CommitInv(L), OddCluster,
           MaxEntriesToSend > 0
    PROVE  CommitInv(R)'
<1>1. EndsOwn(L) /\ VotesFaithful(L)
  BY DEF CommitInv, NetOK, MsgOK, StandsFor, EndsOwn, VotesFaithful
<1>2. RootsOrdered(L) /\ TermsBelow /\ BallotsReached /\ LeadersHaveLogs(L)
  BY DEF CommitInv
<1>3. TermsGrow /\ TermsBelow' /\ ReachGrows /\ StandsBefore(L, R)
  BY <1>1, <1>2, LogsAdvance
<1>4. HeldGrows(L, R) /\ BallotsReached'
  BY <1>1, <1>2, <1>3, HeldStep
<1>5. BeliefsGrow(L, R)
  BY <1>4, BeliefsStep DEF Context
<1>6. RootsOrdered(R)
  BY <1>2, <1>3, RootsOrderedStep
<1>7. LeadersHaveLogs(R)'
  BY <1>2, LeadersHaveLogsStep
<1>8. Advances(L, R)
  BY <1>3, <1>4, <1>5, <1>6, <1>7 DEF Advances
<1>9. MaxRestarts = 0 /\ TypeOK /\ [Next]_vars
  BY DEF Context
<1>10. CASE UNCHANGED vars
  <2>1. Quietly /\ UNCHANGED msgs
    BY <1>10 DEF vars, history, leaderVars, logVars, Quietly
  <2>2. NetOK(R)'
    <3>1. ASSUME NEW m \in msgs' PROVE MsgOK(m, R)'
      BY <1>8, <2>1, MsgStays DEF Advances, CommitInv, NetOK
    <3>2. QED
      BY <3>1 DEF NetOK
  <2>3. QED
    BY <1>8, <2>1, <2>2, QuietStep
<1>11. ASSUME NEW n \in Server, NEW m \in msgs, Deliver(n, m) PROVE CommitInv(R)'
  <2>1. CASE HandleVoteGranted(n, m)
    BY <1>8, <2>1, VoteCounted, ElectedCommit
  <2>2. CASE HandleHeartbeat(n, m)
    BY <1>8, <2>2, HeartbeatCommit
  <2>3. CASE HandleAppendBehindCommit(n, m) \/ HandleAppendReject(n, m)
    BY <1>8, <2>3, NotAccepted
  <2>4. CASE HandleAppendAccept(n, m)
    BY <1>8, <2>4, AcceptCommit
  <2>5. CASE HandleHeartbeatRsp(n, m)
    BY <1>8, <2>5, HeartbeatRspCommit
  <2>6. CASE HandleAppendSuccess(n, m)
    BY <1>8, <2>6, AppendSuccessCommit
  <2>7. CASE HandleAppendRejected(n, m)
    BY <1>8, <2>7, AppendRejectedCommit
  <2>8. CASE HandleForwardedProposal(n, m)
    <3>1. HandleProposal(n, m.cmd, {m}) /\ m.cmd \in Value
      BY <1>9, <2>8, MessageShape DEF TypeOK, HandleForwardedProposal, ProposeMessage
    <3>2. QED
      BY <1>8, <3>1, ProposalCommit
  <2>9. CASE \/ GrantVote(n, m) \/ RejectVote(n, m) \/ HandleVoteDenied(n, m)
             \/ ForwardProposal(n, m) \/ ForwardHigherTermProposal(n, m)
             \/ HandleHigherTermRsp(n, m) \/ Ignore(n, m)
    BY <1>8, <2>9, PlainCommit
  <2>10. QED
    BY <1>11, <2>1, <2>2, <2>3, <2>4, <2>5, <2>6, <2>7, <2>8, <2>9 DEF Deliver
<1>12. ASSUME NEW n \in Server, Timeout(n) PROVE CommitInv(R)'
  BY <1>8, <1>12, CampaignCommit, LonelyTimeoutCommit
<1>13. ASSUME NEW n \in Server, HeartbeatTimeout(n) PROVE CommitInv(R)'
  BY <1>8, <1>13, HeartbeatTimeoutCommit
<1>14. ASSUME NEW n \in Server, Restart(n) PROVE CommitInv(R)'
  BY <1>9, <1>14 DEF TypeOK, Restart
<1>15. ASSUME NEW n \in Server, NEW v \in Value, ProposeAtLeader(n, v) PROVE CommitInv(R)'
  BY <1>8, <1>15, ProposalCommit DEF ProposeAtLeader
<1>16. ASSUME NEW n \in Server, NEW v \in Value, ProposeAtFollower(n, v) PROVE CommitInv(R)'
  BY <1>8, <1>16, ProposeAtFollowerCommit
<1>17. ASSUME NEW m \in msgs, Lose(m) PROVE CommitInv(R)'
  <2>1. m.to \in Server
    BY <1>9, MessageShape DEF TypeOK
  <2>2. QED
    BY <1>8, <1>17, <2>1, PlainCommit
<1>18. QED
  BY <1>9, <1>10, <1>11, <1>12, <1>13, <1>14, <1>15, <1>16, <1>17 DEF Next

-----------------------------------------------------------------------------
(* What the invariant says of committed entries *)

\* A log that reaches a committed entry has it, and every entry before it.
LEMMA HoldsEntry ==
    ASSUME TypeOK, ElectionInv, NEW L \in LeaderLogs, MatchInv(L), RootsOrdered(L),
           NEW t \in Nat, NEW c \in Nat, Point(t, c, L),
           NEW l \in Seq(Entry), Rooted(l, L), Reaches(l, t, c)
    PROVE  \A i \in 1..c : i \in 1..Len(l) /\ l[i] = L[t][i]
<1>1. c \in 1..Len(L[t]) /\ L[t][c].term = t /\ L[t] \in Seq(Entry)
  BY DEF Point, LeaderLogs
<1>2. Len(l) > 0 /\ Len(l) \in Nat
  <2>1. 0 < L[t][c].term
    BY <1>1 DEF RootsOrdered
  <2>2. QED
    BY <1>1, <2>1, LastTermIs DEF Reaches
<1>3. PICK u \in Nat : u = LastTerm(l)
  BY LastTermIs
<1>4. Len(l) <= Len(L[u]) /\ \A j \in 1..Len(l) : l[j] = L[u][j]
  BY <1>2, <1>3, EndsInTerm
<1>5. CASE u = t
  <2>1. Len(l) >= c
    BY <1>3, <1>5 DEF Reaches
  <2>2. QED
    BY <1>1, <1>2, <1>4, <1>5, <2>1
<1>6. CASE u > t
  <2>1. L[u] \in Seq(Entry) /\ Len(l) \in 1..Len(L[u])
    BY <1>2, <1>4 DEF LeaderLogs
  <2>2. Won(u)
    <3>1. Len(L[u]) # 0
      BY <2>1
    <3>2. QED
      BY <3>1 DEF MatchInv, OnlyElected, Won
  <2>3. c <= Len(L[u]) /\ L[u][c] = L[t][c]
    BY <1>6, <2>2, CommittedStays
  <2>4. c \in 1..Len(L[u]) /\ L[u][c].term = t
    BY <1>1, <2>1, <2>3
  <2>5. c <= Len(l)
    <3>1. ASSUME Len(l) <= c PROVE FALSE
      <4>1. L[u][Len(l)].term <= L[u][c].term
        BY <2>1, <2>4, <3>1 DEF RootsOrdered, Ordered
      <4>2. Len(l) \in 1..Len(l) /\ l[Len(l)].term = u
        BY <1>2, <1>3, LastTermIs
      <4>3. L[u][Len(l)].term = u
        BY <1>4, <4>2
      <4>4. QED
        BY <1>6, <2>4, <4>1, <4>3
    <3>2. QED
      BY <1>2, <3>1
  <2>6. Rooted(L[u], L)
    BY DEF MatchInv, RootsRooted
  <2>7. \A j \in 1..c : L[u][j] = L[t][j]
    BY <2>4, <2>6 DEF Rooted
  <2>8. \A i \in 1..c : i \in 1..Len(l)
    BY <1>2, <2>5
  <2>9. QED
    BY <1>4, <2>7, <2>8
<1>7. QED
  <2>1. LastTerm(l) > t \/ LastTerm(l) = t
    BY DEF Reaches
  <2>2. QED
    BY <1>3, <1>5, <1>6, <2>1

\* A log only grows, unless its node takes entries from a leader.
LEMMA LogsChange ==
    ASSUME NEW L, NEW R, Context(L, R), NEW p \in Server
    PROVE  \/ Prefix(log[p], log'[p])
           \/ /\ state'[p] = "Follower"
              /\ \E m \in msgs : m.type = "Append" /\ m.term = term'[p]
<1>1. TypeOK /\ TypeOK' /\ [Next]_vars /\ MaxRestarts = 0
  BY DEF Context
<1>2. \A q \in Server : log[q] \in Seq(Entry) /\ log'[q] \in Seq(Entry) /\ term'[q] \in Nat
                        /\ term[q] \in Nat
  BY <1>1 DEF TypeOK
<1>3. ASSUME log'[p] = log[p] PROVE Prefix(log[p], log'[p])
  BY <1>2, <1>3 DEF Prefix
<1>4. ASSUME NEW u \in Nat, NEW v \in Value \cup {Noop}, log'[p] = AppendOne(log[p], u, v)
      PROVE  Prefix(log[p], log'[p])
  <2>1. /\ Len(AppendOne(log[p], u, v)) = Len(log[p]) + 1
        /\ \A i \in 1..Len(log[p]) : AppendOne(log[p], u, v)[i] = log[p][i]
    BY <1>2, AppendOnePointwise
  <2>2. Len(log[p]) \in Nat
    BY <1>2
  <2>3. QED
    BY <1>4, <2>1, <2>2 DEF Prefix
<1>5. CASE UNCHANGED vars
  BY <1>3, <1>5 DEF vars, logVars
<1>6. ASSUME NEW n \in Server, LeavesLogs(n) \/ Commits(n) PROVE log'[p] = log[p]
  BY <1>1, <1>6, ZenonT(40) DEF LeavesLogs, Commits, Ready, TypeOK
<1>7. ASSUME NEW n \in Server, Accepts(n)
      PROVE  \/ log'[p] = log[p]
             \/ /\ state'[p] = "Follower"
                /\ \E m \in msgs : m.type = "Append" /\ m.term = term'[p]
  <2>1. PICK m \in msgs :
          LET l == AppendEntries(log[n], m.entries) IN
          /\ m.type = "Append" /\ FollowSender(n, m)
          /\ Ready(n, l, CommitTo(l, committed[n], m.commit))
    BY <1>7 DEF Accepts
  <2>2. term'[n] = m.term /\ state'[n] = "Follower"
    BY <1>1, <2>1 DEF FollowSender, TypeOK
  <2>3. p # n => log'[p] = log[p]
    BY <1>1, <2>1 DEF Ready, TypeOK
  <2>4. QED
    BY <2>1, <2>2, <2>3
<1>8. ASSUME NEW n \in Server, Proposes(n) PROVE Prefix(log[p], log'[p])
  <2>1. PICK v \in Value, c \in Nat : Ready(n, AppendOne(log[n], term[n], v), c)
    BY <1>8 DEF Proposes
  <2>2. IF p = n THEN log'[p] = AppendOne(log[p], term[p], v) ELSE log'[p] = log[p]
    BY <1>1, <2>1 DEF Ready, TypeOK
  <2>3. v \in Value \cup {Noop}
    OBVIOUS
  <2>4. QED
    BY <1>2, <1>3, <1>4, <2>2, <2>3
<1>9. ASSUME NEW n \in Server, TakesOver(n) PROVE Prefix(log[p], log'[p])
  <2>1. IF p = n THEN log'[p] = AppendOne(log[p], term'[p], Noop) ELSE log'[p] = log[p]
    BY <1>1, <1>9 DEF TakesOver, TypeOK
  <2>2. Noop \in Value \cup {Noop}
    OBVIOUS
  <2>3. QED
    BY <1>2, <1>3, <1>4, <2>1, <2>2
<1>10. ASSUME NEW n \in Server, Restart(n) PROVE FALSE
  BY <1>1, <1>10 DEF TypeOK, Restart
<1>11. QED
  BY <1>1, <1>3, <1>5, <1>6, <1>7, <1>8, <1>9, <1>10, StepKinds

\* Who once led keeps the log it led with, until it has met another leader.
KeepsLogs(L) ==
    \A w \in elected :
        \/ Prefix(L[w.term], log[w.node])
        \/ \E x \in elected : /\ x.node # w.node
                              /\ w.term < x.term /\ x.term <= term[w.node]

\* A leader's log develops at its node only.
LEMMA OthersStay ==
    ASSUME NEW L, NEW R, Context(L, R), NEW w \in elected',
           ~(state'[w.node] = "Leader" /\ term'[w.node] = w.term)
    PROVE  w \in elected /\ R[w.term] = L[w.term]
<1>1. TypeOK /\ TypeOK' /\ [Next]_vars /\ MaxRestarts = 0 /\ L \in LeaderLogs /\ R \in LeaderLogs
      /\ MatchInv(R)' /\ Develops(L, R) /\ ElectionSafety'
  BY DEF Context
<1>2. w.node \in Server /\ w.term \in Nat
  BY <1>1 DEF TypeOK, Win
<1>3. w \in elected
  <2>1. ASSUME NEW n \in Server, TakesOver(n), w \notin elected PROVE FALSE
    <3>1. w = [term |-> term'[n], node |-> n] /\ state'[n] = "Leader"
      BY <2>1 DEF TakesOver
    <3>2. w.node = n /\ w.term = term'[n]
      BY <3>1
    <3>3. QED
      BY <3>1, <3>2
  <2>2. ASSUME NEW n \in Server, Restart(n) PROVE FALSE
    BY <1>1, <2>2 DEF TypeOK, Restart
  <2>3. CASE UNCHANGED vars
    BY <2>3 DEF vars, history
  <2>4. QED
    BY <1>1, <2>1, <2>2, <2>3, StepKinds DEF LeavesLogs, Commits, Accepts, Proposes
<1>4. ASSUME NEW n \in Server, NEW cmd \in Value \cup {Noop}, state'[n] = "Leader",
             R = [L EXCEPT ![term'[n]] = log'[n]]
      PROVE  R[w.term] = L[w.term]
  <2>1. [term |-> term'[n], node |-> n] \in elected'
    BY <1>1, <1>4 DEF MatchInv, LeadersRoot
  <2>2. PICK x \in elected' : x.term = term'[n] /\ x.node = n
    BY <2>1
  <2>3. w.term # term'[n]
    <3>1. ASSUME w.term = term'[n] PROVE FALSE
      <4>1. w.node = n
        BY <1>1, <2>2, <3>1 DEF ElectionSafety
      <4>2. QED
        BY <1>4, <3>1, <4>1
    <3>2. QED
      BY <3>1
  <2>4. QED
    BY <1>1, <1>2, <1>4, <2>3 DEF LeaderLogs
<1>5. QED
  BY <1>1, <1>3, <1>4 DEF Develops

LEMMA KeepsLogsStep ==
    ASSUME NEW L, NEW R, Context(L, R), NetOK(L), KeepsLogs(L), TermsGrow
    PROVE  KeepsLogs(R)'
<1>1. TypeOK /\ TypeOK' /\ [Next]_vars /\ L \in LeaderLogs /\ R \in LeaderLogs
      /\ MatchInv(R)' /\ ElectionSafety' /\ WinnersLead'
  BY DEF Context
<1> SUFFICES ASSUME NEW w \in elected'
             PROVE  \/ Prefix(R[w.term], log'[w.node])
                    \/ \E x \in elected' : /\ x.node # w.node
                                           /\ w.term < x.term /\ x.term <= term'[w.node]
  BY DEF KeepsLogs, Prefix
<1>2. PICK p \in Server, u \in Nat : w.node = p /\ w.term = u
  BY <1>1 DEF TypeOK, Win
<1>3. /\ R[u] \in Seq(Entry) /\ L[u] \in Seq(Entry)
      /\ log[p] \in Seq(Entry) /\ log'[p] \in Seq(Entry)
      /\ term[p] \in Nat /\ term'[p] \in Nat
  BY <1>1 DEF TypeOK, LeaderLogs
<1>4. CASE state'[p] = "Leader" /\ term'[p] = u
  <2>1. log'[p] = R[u]
    BY <1>1, <1>4 DEF MatchInv, LeadersRoot
  <2>2. QED
    BY <1>2, <1>3, <2>1 DEF Prefix
<1>5. CASE ~(state'[p] = "Leader" /\ term'[p] = u)
  <2>1. w \in elected /\ R[u] = L[u]
    BY <1>2, <1>5, OthersStay
  <2>2. CASE \E x \in elected : x.node # p /\ u < x.term /\ x.term <= term[p]
    <3>1. PICK x \in elected : x.node # p /\ u < x.term /\ x.term <= term[p]
      BY <2>2
    <3>2. x \in elected' /\ x.term \in Nat
      BY <1>1, ElectedGrows DEF TypeOK, Win
    <3>3. x.term <= term'[p]
      BY <1>3, <3>1, <3>2 DEF TermsGrow
    <3>4. QED
      BY <1>2, <3>1, <3>2, <3>3
  <2>3. CASE Prefix(L[u], log[p]) /\ Prefix(log[p], log'[p])
    <3>1. Len(L[u]) \in Nat /\ Len(log[p]) \in Nat /\ Len(log'[p]) \in Nat
      BY <1>3
    <3>2. Prefix(L[u], log'[p])
      BY <2>3, <3>1 DEF Prefix
    <3>3. QED
      BY <1>2, <2>1, <3>2
  <2>4. ASSUME state'[p] = "Follower", NEW m \in msgs, m.type = "Append", m.term = term'[p]
        PROVE  \E x \in elected' : x.node # p /\ u < x.term /\ x.term <= term'[p]
    <3>1. Won(m.term)
      BY <2>4 DEF NetOK, MsgOK, FromLeader
    <3>2. PICK x \in elected : x.term = term'[p]
      BY <2>4, <3>1 DEF Won
    <3>3. x \in elected'
      BY <1>1, ElectedGrows
    <3>4. x.node # p
      BY <1>1, <2>4, <3>2, <3>3 DEF WinnersLead
    <3>5. u <= term'[p] /\ u # term'[p]
      <4>1. u <= term'[p]
        BY <1>1, <1>2 DEF WinnersLead
      <4>2. ASSUME u = term'[p] PROVE FALSE
        BY <1>1, <1>2, <2>4, <4>2 DEF WinnersLead
      <4>3. QED
        BY <4>1, <4>2
    <3>6. QED
      BY <1>3, <3>2, <3>3, <3>4, <3>5
  <2>5. Prefix(L[u], log[p]) \/ \E x \in elected : x.node # p /\ u < x.term /\ x.term <= term[p]
    BY <1>2, <2>1 DEF KeepsLogs
  <2>6. QED
    BY <1>2, <2>2, <2>3, <2>4, <2>5, LogsChange
<1>6. QED
  BY <1>4, <1>5

\* Some history of leaders' logs explains the logs, the messages and all that the
\* leaders believe of them.
CommitInvHolds ==
    WinnersLead /\ \E L \in LeaderLogs : MatchInv(L) /\ CommitInv(L) /\ KeepsLogs(L)

\* Those who hold a committed entry hold all that was chosen up to it.
LEMMA PointsOnMajority ==
    TypeOK /\ ElectionInv /\ CommitInvHolds => ChosenOnMajority
<1> SUFFICES ASSUME TypeOK, ElectionInv, CommitInvHolds, NEW e \in chosen
             PROVE  LET holders == {n \in Server : e.index <= Len(log[n]) /\ log[n][e.index] = e}
                    IN  Cardinality(holders) * 2 > Cardinality(Server)
  BY DEF ChosenOnMajority
<1> DEFINE holders == {n \in Server : e.index <= Len(log[n]) /\ log[n][e.index] = e}
<1>1. PICK L \in LeaderLogs : MatchInv(L) /\ CommitInv(L)
  BY DEF CommitInvHolds
<1>2. PICK t \in Nat, c \in Nat : Point(t, c, L) /\ e.index \in 1..c /\ e = L[t][e.index]
  BY <1>1 DEF CommitInv, ChosenOK
<1>3. PICK Q \in SUBSET Server : Majority(Q) /\ \A q \in Q : Held(q, t, c, L)
  BY <1>2 DEF Point
<1>4. ASSUME NEW q \in Q PROVE q \in holders
  <2>1. q \in Server /\ log[q] \in Seq(Entry) /\ Rooted(log[q], L) /\ Reaches(log[q], t, c)
    BY <1>1, <1>3 DEF TypeOK, MatchInv, LogsRooted, Held
  <2>2. RootsOrdered(L)
    BY <1>1 DEF CommitInv
  <2>3. e.index \in 1..Len(log[q]) /\ log[q][e.index] = e
    BY <1>1, <1>2, <2>1, <2>2, HoldsEntry
  <2>4. QED
    BY <2>1, <2>3
<1>5. Q \subseteq holders /\ holders \subseteq Server
  BY <1>4
<1> HIDE DEF holders
<1>6. IsFiniteSet(holders) /\ Cardinality(Q) <= Cardinality(holders)
  BY <1>5, ServerAssumption, FS_Subset
<1>7. Cardinality(Q) \in Nat /\ Cardinality(holders) \in Nat /\ Cardinality(Server) \in Nat
  BY <1>5, <1>6, ServerAssumption, FS_Subset, FS_CardinalityType
<1>8. Cardinality(holders) * 2 > Cardinality(Server)
  BY <1>3, <1>6, <1>7 DEF Majority
<1>9. QED
  BY <1>8 DEF holders

LEMMA CommitInit == Init => ElectionInv /\ CommitInvHolds
<1> SUFFICES ASSUME Init PROVE ElectionInv /\ CommitInvHolds
  OBVIOUS
<1>1. PICK L : L = [t \in Nat |-> <<>>]
  OBVIOUS
<1>2. L \in LeaderLogs /\ \A t \in Nat : L[t] = <<>> /\ Len(L[t]) = 0
  BY <1>1, EmptySeq DEF LeaderLogs
<1>3. /\ \A n \in Server : state[n] = "Follower" /\ log[n] = <<>> /\ committed[n] = 0
      /\ msgs = {} /\ ballots = {} /\ elected = {} /\ chosen = {}
  BY DEF Init
<1>4. \A n \in Server : Len(log[n]) = 0
  BY <1>3, EmptySeq
<1>5. ElectionInv
  BY <1>3 DEF ElectionInv, OneBallotPerTerm, BallotsBind, CandidatesVoteForThemselves,
         RequestsGoToOthers, GrantsWereCast, VotesWereCast, WinsHaveMajority
<1>6. MatchInv(L)
  <2>1. LogsRooted(L) /\ RootsRooted(L)
    BY <1>2, <1>4 DEF LogsRooted, RootsRooted, Rooted
  <2>2. OnlyElected(L) /\ LeadersRoot(L) /\ PiecesOf(L)
    BY <1>2, <1>3 DEF OnlyElected, LeadersRoot, PiecesOf
  <2>3. QED
    BY <2>1, <2>2 DEF MatchInv
<1>7. CommitInv(L)
  <2>1. RootsOrdered(L)
    BY <1>2 DEF RootsOrdered, Ordered
  <2>2. TermsBelow
    BY <1>4 DEF TermsBelow
  <2>3. BallotsReached /\ LeadersHaveLogs(L) /\ NetOK(L) /\ ProgressOK(L) /\ ChosenOK(L)
    BY <1>3 DEF BallotsReached, LeadersHaveLogs, NetOK, ProgressOK, ChosenOK
  <2>4. CommitsOK(L)
    BY <1>3 DEF CommitsOK, Reported
  <2>5. QED
    BY <2>1, <2>2, <2>3, <2>4 DEF CommitInv
<1>8. WinnersLead /\ KeepsLogs(L)
  BY <1>3 DEF WinnersLead, KeepsLogs
<1>9. QED
  BY <1>2, <1>5, <1>6, <1>7, <1>8 DEF CommitInvHolds

LEMMA CommitNext ==
    ASSUME OddCluster, MaxRestarts = 0, TypeOK, TypeOK', LogInv, LogInv', ElectionInv,
           CommitInvHolds, MaxEntriesToSend > 0, [Next]_vars
    PROVE  ElectionInv' /\ CommitInvHolds'
<1>1. ElectionInv' /\ ElectionSafety /\ ElectionSafety'
  <2>1. ElectionInv'
    BY ElectionStep DEF OddCluster
  <2>2. ElectionSafety /\ (TypeOK' /\ ElectionInv' => ElectionSafety')
    BY MajoritiesAgree, PTL
  <2>3. QED
    BY <2>1, <2>2
<1>2. PICK L \in LeaderLogs : MatchInv(L) /\ CommitInv(L) /\ KeepsLogs(L)
  BY DEF CommitInvHolds
<1>3. WinnersLead
  BY DEF CommitInvHolds
<1>4. WinnersLead' /\ ExplainsNext(L)
  BY <1>1, <1>2, <1>3, MatchStep
<1>5. PICK R \in LeaderLogs : Grows(L, R) /\ Develops(L, R) /\ MatchInv(R)'
  BY <1>4 DEF ExplainsNext
<1>6. Context(L, R)
  BY <1>1, <1>2, <1>3, <1>4, <1>5 DEF Context
<1>7. CommitInv(R)'
  BY <1>2, <1>6, CommitStep
<1>8. TermsGrow /\ NetOK(L)
  <2>1. EndsOwn(L) /\ RootsOrdered(L) /\ TermsBelow /\ NetOK(L)
    BY <1>2 DEF CommitInv, NetOK, MsgOK, EndsOwn
  <2>2. QED
    BY <1>6, <2>1, LogsAdvance
<1>9. KeepsLogs(R)'
  BY <1>2, <1>6, <1>8, KeepsLogsStep
<1>10. QED
  BY <1>1, <1>4, <1>5, <1>7, <1>9 DEF CommitInvHolds

\* In a static cluster of an odd number of nodes whose processes do not restart
\* and whose messages may carry an entry, an entry that a leader has counted as
\* committed (RaftLog.MaybeCommit) is on a majority of the nodes and stays there,
\* through any elections, losses and reorderings.
THEOREM ChosenIsOnMajority ==
    ASSUME OddCluster, MaxRestarts = 0, MaxEntriesToSend > 0
    PROVE  Spec => []ChosenOnMajority
<1>1. /\ TypeOK /\ TypeOK' /\ LogInv /\ LogInv' /\ [Next]_vars
      /\ ElectionInv /\ CommitInvHolds
      => ElectionInv' /\ CommitInvHolds'
  BY CommitNext
<1>2. QED
  BY <1>1, CommitInit, LogInvHolds, PointsOnMajority, PTL DEF Spec

\* The leader of a term later than that of a chosen entry has the entry.  If it
\* leads a later term than the one in which the entry was committed, its log
\* reaches that commitment; if an earlier one, it is the node that led when the
\* entry was made, since otherwise three nodes would have led in turn.
LEMMA LeadersComplete ==
    TypeOK /\ ElectionInv /\ VoteInv /\ CommitInvHolds => LeaderCompleteness
<1> SUFFICES ASSUME TypeOK, ElectionInv, VoteInv, CommitInvHolds,
                    NEW n \in Server, NEW e \in chosen, state[n] = "Leader", term[n] > e.term
             PROVE  e.index <= Len(log[n]) /\ log[n][e.index] = e
  BY DEF LeaderCompleteness
<1>1. PICK L \in LeaderLogs : MatchInv(L) /\ CommitInv(L) /\ KeepsLogs(L)
  BY DEF CommitInvHolds
<1>2. WinnersLead /\ ElectionSafety /\ RootsOrdered(L) /\ LeadersHaveLogs(L)
  BY <1>1, MajoritiesAgree DEF CommitInvHolds, CommitInv
<1>3. PICK t \in Nat, c \in Nat : Point(t, c, L) /\ e.index \in 1..c /\ e = L[t][e.index]
  BY <1>1 DEF CommitInv, ChosenOK
<1>4. PICK u \in Nat : u = term[n]
  BY DEF TypeOK
<1>5. log[n] = L[u] /\ [term |-> u, node |-> n] \in elected /\ log[n] \in Seq(Entry)
  BY <1>1, <1>4 DEF MatchInv, LeadersRoot, TypeOK
<1>6. L[t] \in Seq(Entry) /\ c \in 1..Len(L[t]) /\ e.index \in 1..Len(L[t]) /\ Rooted(L[t], L)
  <2>1. L[t] \in Seq(Entry)
    BY DEF LeaderLogs
  <2>2. Rooted(L[t], L)
    BY <1>1 DEF MatchInv, RootsRooted
  <2>3. c \in 1..Len(L[t])
    BY <1>3 DEF Point
  <2>4. Len(L[t]) \in Nat
    BY <2>1
  <2>5. e.index \in 1..Len(L[t])
    BY <1>3, <2>3, <2>4
  <2>6. QED
    BY <2>1, <2>2, <2>3, <2>5
<1>7. PICK s \in Nat : s = e.term
  BY <1>3, <1>6, EntryTerms
<1>8. s < u
  BY <1>4, <1>7
<1>9. CASE u >= t
  <2>1. Reaches(log[n], t, c)
    <3>1. Len(L[u]) > 0
      <4>1. PICK w \in elected : w.term = u
        BY <1>5
      <4>2. QED
        BY <1>2, <4>1 DEF LeadersHaveLogs
    <3>2. LastTerm(log[n]) = u
      <4>1. L[u][Len(L[u])].term = u
        BY <1>2, <3>1 DEF RootsOrdered
      <4>2. QED
        BY <1>5, <3>1, <4>1, LastTermIs
    <3>3. u = t => Len(log[n]) >= c
      BY <1>5, <1>6
    <3>4. QED
      BY <1>9, <3>2, <3>3 DEF Reaches
  <2>2. Rooted(log[n], L)
    BY <1>1 DEF MatchInv, LogsRooted
  <2>3. e.index \in 1..Len(log[n]) /\ log[n][e.index] = L[t][e.index]
    BY <1>1, <1>2, <1>3, <1>5, <2>1, <2>2, HoldsEntry
  <2>4. QED
    BY <1>3, <1>5, <2>3
<1>10. CASE u < t
  <2>1. e.index <= Len(L[s]) /\ e = L[s][e.index]
    <3>1. e.index \in 1..e.index
      BY <1>6
    <3>2. e.index <= Len(L[s]) /\ \A j \in 1..e.index : L[t][j] = L[s][j]
      BY <1>3, <1>6, <1>7 DEF Rooted
    <3>3. QED
      BY <1>3, <3>1, <3>2
  <2>2. \A v \in Nat : Len(L[v]) > 0 => \E w \in elected : w.term = v
    BY <1>1 DEF MatchInv, OnlyElected
  <2>3. L[s] \in Seq(Entry) /\ Len(L[s]) > 0 /\ Len(L[t]) > 0
    <3>1. L[s] \in Seq(Entry)
      BY DEF LeaderLogs
    <3>2. Len(L[s]) \in Nat /\ Len(L[t]) \in Nat
      BY <1>6, <3>1
    <3>3. QED
      BY <1>6, <2>1, <3>1, <3>2
  <2>4. PICK x \in elected : x.term = s
    BY <2>2, <2>3
  <2>5. PICK y \in elected : y = [term |-> u, node |-> n]
    BY <1>5
  <2>6. PICK z \in elected : z.term = t
    BY <2>2, <2>3
  <2>7. y.term = u /\ y.node = n
    BY <2>5
  <2>8. z.node # n
    <3>1. ASSUME z.node = n PROVE FALSE
      <4>1. t <= term[n]
        BY <1>2, <2>6, <3>1 DEF WinnersLead
      <4>2. QED
        BY <1>4, <1>10, <4>1
    <3>2. QED
      BY <3>1
  <2>9. x.node = n
    BY <1>8, <1>10, <2>4, <2>6, <2>7, <2>8, LeadersRepeat
  <2>10. ASSUME NEW w \in elected, w.node # n, s < w.term, w.term <= u PROVE FALSE
    <3>1. w.term \in Nat
      BY DEF TypeOK, Win
    <3>2. w.term # u
      BY <1>2, <2>7, <2>10 DEF ElectionSafety
    <3>3. x.term < w.term /\ w.term < y.term
      BY <2>4, <2>7, <2>10, <3>1, <3>2
    <3>4. w.node = x.node \/ y.node = w.node
      BY <3>3, LeadersRepeat
    <3>5. QED
      BY <2>7, <2>9, <2>10, <3>4
  <2>11. Prefix(L[s], log[n])
    BY <1>1, <1>4, <2>4, <2>9, <2>10 DEF KeepsLogs
  <2>12. e.index \in 1..Len(L[s])
    BY <1>6, <2>1, <2>3
  <2>13. QED
    <3>1. Len(L[s]) \in Nat /\ Len(log[n]) \in Nat /\ Len(L[s]) <= Len(log[n])
      BY <1>5, <2>3, <2>11 DEF Prefix
    <3>2. log[n][e.index] = L[s][e.index]
      BY <2>11, <2>12 DEF Prefix
    <3>3. QED
      BY <2>1, <2>12, <3>1, <3>2
<1>11. QED
  BY <1>9, <1>10

\* In a static cluster of an odd number of nodes whose processes do not restart
\* and whose messages may carry an entry, every leader of a later term than that of an
\* entry which a leader has counted as committed (RaftLog.MaybeCommit) has it.
THEOREM LeadersAreComplete ==
    ASSUME OddCluster, MaxRestarts = 0, MaxEntriesToSend > 0
    PROVE  Spec => []LeaderCompleteness
<1>1. /\ TypeOK /\ TypeOK' /\ LogInv /\ LogInv' /\ [Next]_vars
      /\ ElectionInv /\ CommitInvHolds
      => ElectionInv' /\ CommitInvHolds'
  BY CommitNext
<1>2. Spec => [](TypeOK /\ ElectionInv /\ VoteInv)
  BY VoteInvHolds DEF OddCluster
<1>3. QED
  BY <1>1, <1>2, CommitInit, LogInvHolds, LeadersComplete, PTL DEF Spec

=============================================================================
