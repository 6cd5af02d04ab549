----------------------------- MODULE RaftProofs -----------------------------
(***************************************************************************)
(* Theorems about Raft, for every value of its constants.                   *)
(***************************************************************************)
EXTENDS Raft, TLAPS, NatFacts, FiniteSetTheorems, SequenceTheorems

-----------------------------------------------------------------------------
(* The log *)

\* Cutting a log anywhere leaves a log.
LEMMA SubSeqType ==
    ASSUME NEW S, NEW s \in Seq(S), NEW lo \in Nat \ {0}, NEW hi \in Int, hi <= Len(s)
    PROVE  SubSeq(s, lo, hi) \in Seq(S)
<1>1. \A i \in lo..hi : s[i] \in S
  OBVIOUS
<1>2. QED
  BY <1>1, SubSeqProperties

\* RaftLog.slice returns entries.
LEMMA EntriesType ==
    ASSUME NEW l \in Seq(Entry), NEW lo \in Nat \ {0}, NEW hi \in Nat
    PROVE  Entries(l, lo, hi) \in Seq(Entry)
<1>1. MinOf(hi - 1, LastIndex(l)) \in Int /\ MinOf(hi - 1, LastIndex(l)) <= Len(l)
  BY DEF MinOf, LastIndex
<1>2. QED
  BY <1>1, SubSeqType DEF Entries

\* RaftLog.termOf returns a term.
LEMMA TermType ==
    ASSUME NEW l \in Seq(Entry), NEW i \in Int
    PROVE  Term(l, i) \in Nat
<1>1. CASE i \in 1..Len(l)
  <2>1. l[i] \in Entry
    BY <1>1
  <2>2. QED
    BY <1>1, <2>1 DEF Term, Entry
<1>2. CASE i \notin 1..Len(l)
  BY <1>2 DEF Term
<1>3. QED
  BY <1>1, <1>2

\* RaftLog.Append returns a log, wherever the new entries claim to belong.
LEMMA AppendEntriesType ==
    ASSUME NEW l \in Seq(Entry), NEW entries \in Seq(Entry)
    PROVE  AppendEntries(l, entries) \in Seq(Entry)
<1> DEFINE fresh == {i \in 1..Len(entries) :
                       \/ entries[i].index > LastIndex(l)
                       \/ Term(l, entries[i].index) # entries[i].term}
           first == CHOOSE i \in fresh : \A j \in fresh : i <= j
<1>1. CASE fresh = {}
  BY <1>1 DEF AppendEntries
<1>2. CASE fresh # {}
  <2>1. first \in fresh
    <3>1. fresh \in SUBSET Nat
      OBVIOUS
    <3>2. \E i \in fresh : \A j \in fresh : i <= j
      BY <3>1, <1>2, NatMin
    <3>3. QED
      BY <3>2
  <2> HIDE DEF first
  <2>2. first \in 1..Len(entries) /\ entries[first] \in Entry
    BY <2>1
  <2>3. entries[first].index \in Nat
    BY <2>2 DEF Entry
  <2> DEFINE cut == MinOf(entries[first].index - 1, LastIndex(l))
  <2>4. cut \in Int /\ cut <= Len(l)
    BY <2>3 DEF MinOf, LastIndex
  <2>5. SubSeq(l, 1, cut) \in Seq(Entry)
    BY <2>4, SubSeqType
  <2>6. SubSeq(entries, first, Len(entries)) \in Seq(Entry)
    BY <2>2, SubSeqType
  <2>7. AppendEntries(l, entries)
          = SubSeq(l, 1, cut) \o SubSeq(entries, first, Len(entries))
    BY <1>2 DEF AppendEntries, first
  <2>8. QED
    BY <2>5, <2>6, <2>7, ConcatProperties
<1>3. QED
  BY <1>1, <1>2

\* RaftLog.AppendOne returns a log one entry longer.
LEMMA AppendOneType ==
    ASSUME NEW l \in Seq(Entry), NEW t \in Nat, NEW cmd \in Value \cup {Noop}
    PROVE  AppendOne(l, t, cmd) \in Seq(Entry)
<1>1. [index |-> LastIndex(l) + 1, term |-> t, cmd |-> cmd] \in Entry
  BY DEF Entry, LastIndex
<1>2. QED
  BY <1>1, AppendProperties DEF AppendOne

\* RaftLog.CommitTo leaves an index.
LEMMA CommitToType ==
    ASSUME NEW l \in Seq(Entry), NEW old \in Nat, NEW new \in Nat
    PROVE  CommitTo(l, old, new) \in Nat
BY DEF CommitTo, MaxOf, MinOf, LastIndex

\* RaftLog.MaybeCommit leaves the commit index or moves it forward in the log.
LEMMA MaybeCommitType ==
    ASSUME NEW n, NEW l \in Seq(Entry), NEW match, NEW old \in Nat, NEW t
    PROVE  /\ MaybeCommit(n, l, match, old, t) \in Nat
           /\ MaybeCommit(n, l, match, old, t) >= old
           /\ MaybeCommit(n, l, match, old, t) > old
                => MaybeCommit(n, l, match, old, t) <= Len(l)
<1> DEFINE ready == {i \in (old + 1)..LastIndex(l) :
                       /\ CommitCount(n, match, i) >= CommitMajority(n)
                       /\ Term(l, i) = t}
           greatest == CHOOSE i \in ready : \A j \in ready : j <= i
<1>1. CASE ready = {}
  BY <1>1 DEF MaybeCommit
<1>2. CASE ready # {}
  <2>1. ready \in SUBSET (0..Len(l)) /\ Len(l) \in Nat
    BY DEF LastIndex
  <2>2. \E i \in ready : \A j \in ready : j <= i
    BY <2>1, <1>2, NatMax
  <2>3. greatest \in ready
    BY <2>2
  <2>4. greatest \in (old + 1)..Len(l)
    BY <2>3 DEF LastIndex
  <2>5. MaybeCommit(n, l, match, old, t) = greatest
    BY <1>2 DEF MaybeCommit
  <2>6. QED
    BY <2>1, <2>4, <2>5
<1>3. QED
  BY <1>1, <1>2

-----------------------------------------------------------------------------
(* Messages *)

\* The type of a message tells its shape, and every message has an envelope.
LEMMA MessageShape ==
    ASSUME NEW m \in Message
    PROVE  /\ m.from \in Server /\ m.to \in Server /\ m.term \in Nat
           /\ m.type = "Vote" => m \in VoteMessage
           /\ m.type = "VoteRsp" => m \in VoteRspMessage
           /\ m.type = "Heartbeat" => m \in HeartbeatMessage
           /\ m.type = "HeartbeatRsp" => m \in HeartbeatRspMessage
           /\ m.type = "Append" => m \in AppendMessage
           /\ m.type = "AppendRsp" => m \in AppendRspMessage
           /\ m.type = "Propose" => m \in ProposeMessage
BY DEF Message, VoteMessage, VoteRspMessage, HeartbeatMessage, HeartbeatRspMessage,
       AppendMessage, AppendRspMessage, ProposeMessage

\* The constructors make messages.
LEMMA ConstructorType ==
    ASSUME NEW n \in Server, NEW p \in Server, NEW t \in Nat
    PROVE  /\ \A l \in Seq(Entry) : VoteMsg(n, p, t, l) \in VoteMessage
           /\ \A g \in BOOLEAN : VoteRspMsg(n, p, t, g) \in VoteRspMessage
           /\ \A c \in Nat : HeartbeatMsg(n, p, t, c) \in HeartbeatMessage
           /\ HeartbeatRspMsg(n, p, t) \in HeartbeatRspMessage
           /\ \A next \in Nat \ {0}, l \in Seq(Entry), c \in Nat :
                AppendMsg(n, p, t, next, l, c) \in AppendMessage
           /\ \A i \in Nat, r \in BOOLEAN, c \in Nat :
                AppendRspMsg(n, p, t, i, r, c) \in AppendRspMessage
           /\ \A v \in Value : ProposeMsg(n, p, t, v) \in ProposeMessage
<1>1. ASSUME NEW l \in Seq(Entry) PROVE VoteMsg(n, p, t, l) \in VoteMessage
  <2>1. LastIndex(l) \in Nat /\ LastTerm(l) \in Nat
    BY TermType DEF LastIndex, LastTerm
  <2>2. QED
    BY <2>1 DEF VoteMsg, VoteMessage
<1>2. ASSUME NEW next \in Nat \ {0}, NEW l \in Seq(Entry), NEW c \in Nat
      PROVE  AppendMsg(n, p, t, next, l, c) \in AppendMessage
  <2>1. next - 1 \in Nat /\ Term(l, next - 1) \in Nat
    BY TermType
  <2>2. next + MaxEntriesToSend \in Nat
    BY BoundAssumption
  <2>3. Entries(l, next, next + MaxEntriesToSend) \in Seq(Entry)
    BY <2>2, EntriesType
  <2>4. QED
    BY <2>1, <2>3 DEF AppendMsg, AppendMessage
<1>3. QED
  BY <1>1, <1>2 DEF VoteRspMsg, VoteRspMessage, HeartbeatMsg, HeartbeatMessage,
     HeartbeatRspMsg, HeartbeatRspMessage, AppendRspMsg, AppendRspMessage,
     ProposeMsg, ProposeMessage

\* A transport delivers messages, under the sender's envelope; it makes no vote
\* request or vote out of anything else, and leaves a vote as it is.
LEMMA OnWireType ==
    ASSUME NEW m \in Message, NEW w \in OnWire(m)
    PROVE  /\ w \in Message
           /\ w.from = m.from /\ w.to = m.to /\ w.term = m.term
           /\ w.type = "Vote" => m.type = "Vote"
           /\ w.type = "VoteRsp" => w = m
<1> m.from \in Server /\ m.to \in Server /\ m.term \in Nat
  BY MessageShape
<1>1. CASE m \in VoteMessage
  <2>1. m.type = "Vote"
    BY <1>1 DEF VoteMessage
  <2>2. w = m \/ w = VoteMsg(m.from, m.to, m.term, <<>>)
    BY <2>1 DEF OnWire
  <2>3. VoteMsg(m.from, m.to, m.term, <<>>) \in VoteMessage
    BY ConstructorType, EmptySeq
  <2>4. w.type = "Vote" /\ w.from = m.from /\ w.to = m.to /\ w.term = m.term
    BY <2>1, <2>2 DEF VoteMsg
  <2>5. w \in Message
    BY <1>1, <2>2, <2>3 DEF Message
  <2>6. QED
    BY <2>1, <2>4, <2>5
<1>2. CASE m \in VoteRspMessage
  BY <1>2 DEF OnWire, Message, VoteRspMessage
<1>3. CASE m \in HeartbeatMessage
  <2>1. m.type = "Heartbeat" /\ m.commit \in Nat
    BY <1>3 DEF HeartbeatMessage
  <2>2. w = m \/ w = AppendMsg(m.from, m.to, m.term, 1, <<>>, m.commit)
    BY <2>1 DEF OnWire
  <2>3. AppendMsg(m.from, m.to, m.term, 1, <<>>, m.commit) \in AppendMessage
    <3>1. <<>> \in Seq(Entry) /\ 1 \in Nat \ {0}
      BY EmptySeq
    <3>2. QED
      BY <2>1, <3>1, ConstructorType
  <2>4. CASE w = m
    BY <1>3, <2>1, <2>4
  <2>5. CASE w = AppendMsg(m.from, m.to, m.term, 1, <<>>, m.commit)
    <3>1. /\ w.type = "Append" /\ w.from = m.from /\ w.to = m.to /\ w.term = m.term
      BY <2>5 DEF AppendMsg
    <3>2. w \in Message
      BY <2>3, <2>5 DEF Message
    <3>3. QED
      BY <3>1, <3>2
  <2>6. QED
    BY <2>2, <2>4, <2>5
<1>4. CASE m \in HeartbeatRspMessage
  BY <1>4 DEF OnWire, Message, HeartbeatRspMessage
<1>5. CASE m \in AppendMessage
  BY <1>5 DEF OnWire, Message, AppendMessage
<1>6. CASE m \in AppendRspMessage
  <2>1. m.type = "AppendRsp" /\ m.conflict \in Nat
    BY <1>6 DEF AppendRspMessage
  <2>2. w = m \/ w = AppendRspMsg(m.from, m.to, m.term, 0, FALSE, m.conflict)
    BY <2>1 DEF OnWire
  <2>3. AppendRspMsg(m.from, m.to, m.term, 0, FALSE, m.conflict) \in AppendRspMessage
    BY <2>1, ConstructorType
  <2>4. /\ w.type = "AppendRsp" /\ w.from = m.from /\ w.to = m.to /\ w.term = m.term
    BY <2>1, <2>2 DEF AppendRspMsg
  <2>5. w \in Message
    BY <1>6, <2>2, <2>3 DEF Message
  <2>6. QED
    BY <2>4, <2>5
<1>7. CASE m \in ProposeMessage
  BY <1>7 DEF OnWire, Message, ProposeMessage
<1>8. QED
  BY <1>1, <1>2, <1>3, <1>4, <1>5, <1>6, <1>7 DEF Message

\* What an exchange leaves in flight was in flight or is one of the messages sent.
LEMMA ExchangeType ==
    ASSUME NEW taken, NEW out \in SUBSET Message,
           msgs \subseteq Message, Exchange(taken, out)
    PROVE  msgs' \subseteq Message
BY OnWireType DEF Exchange

-----------------------------------------------------------------------------
(* Type correctness *)

\* Handing over a Ready keeps the types.
LEMMA ReadyType ==
    ASSUME TypeOK, NEW n \in Server, NEW l \in Seq(Entry), NEW c \in Nat, Ready(n, l, c)
    PROVE  /\ log' \in [Server -> Seq(Entry)]
           /\ committed' \in [Server -> Nat]
           /\ applied' \in [Server -> Seq(Entry)]
<1>1. applied[n] \in Seq(Entry) /\ Len(applied[n]) + 1 \in Nat \ {0} /\ c + 1 \in Nat
  BY DEF TypeOK
<1>2. Entries(l, Len(applied[n]) + 1, c + 1) \in Seq(Entry)
  BY <1>1, EntriesType
<1>3. applied[n] \o Entries(l, Len(applied[n]) + 1, c + 1) \in Seq(Entry)
  BY <1>1, <1>2, ConcatProperties
<1>4. QED
  BY <1>3 DEF TypeOK, Ready

\* Following a sender keeps the types.
LEMMA FollowSenderType ==
    ASSUME TypeOK, NEW n \in Server, NEW m \in Message, FollowSender(n, m)
    PROVE  /\ term' \in [Server -> Nat]
           /\ vote' \in [Server -> Server \cup {Nil}]
           /\ state' \in [Server -> {"Follower", "Candidate", "Leader"}]
           /\ lead' \in [Server -> Server \cup {Nil}]
BY MessageShape DEF TypeOK, FollowSender

\* Taking over keeps the types.
LEMMA BecomeLeaderType ==
    ASSUME TypeOK, NEW n \in Server, NEW t \in Nat, BecomeLeader(n, t)
    PROVE  /\ state' \in [Server -> {"Follower", "Candidate", "Leader"}]
           /\ lead' \in [Server -> Server \cup {Nil}]
           /\ log' \in [Server -> Seq(Entry)]
           /\ nextIndex' \in [Server -> [Server -> Nat \ {0}]]
           /\ matchIndex' \in [Server -> [Server -> Nat]]
           /\ pstate' \in [Server -> [Server -> {"Probe", "Replicate"}]]
           /\ elected' \subseteq Win
<1> DEFINE last == LastIndex(log[n])
<1>1. log[n] \in Seq(Entry) /\ last \in Nat /\ last + 1 \in Nat \ {0}
  BY DEF TypeOK, LastIndex
<1>2. AppendOne(log[n], t, Noop) \in Seq(Entry)
  BY <1>1, AppendOneType
<1>3. [p \in Server |-> last + 1] \in [Server -> Nat \ {0}]
  BY <1>1
<1>4. [p \in Server |-> IF p = n THEN last ELSE 0] \in [Server -> Nat]
  BY <1>1
<1>5. [p \in Server |-> IF p = n THEN "Replicate" ELSE "Probe"]
        \in [Server -> {"Probe", "Replicate"}]
  OBVIOUS
<1>6. [term |-> t, node |-> n] \in Win
  BY DEF Win
<1> HIDE DEF last
<1>7. QED
  BY <1>2, <1>3, <1>4, <1>5, <1>6 DEF TypeOK, BecomeLeader, last

\* A proposal keeps the types.
LEMMA HandleProposalType ==
    ASSUME TypeOK, NEW n \in Server, NEW v \in Value, NEW taken, HandleProposal(n, v, taken)
    PROVE  /\ log' \in [Server -> Seq(Entry)]
           /\ committed' \in [Server -> Nat]
           /\ applied' \in [Server -> Seq(Entry)]
           /\ nextIndex' \in [Server -> [Server -> Nat \ {0}]]
           /\ matchIndex' \in [Server -> [Server -> Nat]]
           /\ msgs' \subseteq Message
           /\ chosen' \subseteq Entry
<1> DEFINE l     == AppendOne(log[n], term[n], v)
           match == [matchIndex[n] EXCEPT ![n] = MaxOf(@, LastIndex(l))]
           c     == MaybeCommit(n, l, match, committed[n], term[n])
           out   == {AppendMsg(n, p, term[n], nextIndex[n][p], l, committed[n])
                        : p \in Peers[n]}
<1>1. l \in Seq(Entry)
  BY AppendOneType DEF TypeOK
<1>2. LastIndex(l) \in Nat
  BY <1>1 DEF LastIndex
<1>3. match \in [Server -> Nat]
  BY <1>2 DEF TypeOK, MaxOf
<1>4. c \in Nat /\ (c > committed[n] => c <= Len(l))
  BY <1>1, MaybeCommitType DEF TypeOK
<1>5. out \in SUBSET Message
  <2>1. ASSUME NEW p \in Peers[n]
        PROVE  AppendMsg(n, p, term[n], nextIndex[n][p], l, committed[n]) \in AppendMessage
    <3>1. p \in Server /\ term[n] \in Nat /\ nextIndex[n][p] \in Nat \ {0}
          /\ committed[n] \in Nat
      BY PeersAssumption DEF TypeOK
    <3>2. QED
      BY <1>1, <3>1, ConstructorType
  <2>2. QED
    BY <2>1 DEF Message
<1>6. NewlyChosen(l, committed[n], c) \subseteq Entry
  BY <1>1, <1>4 DEF NewlyChosen
<1>7. /\ matchIndex' = [matchIndex EXCEPT ![n] = match]
      /\ nextIndex' = [nextIndex EXCEPT ![n][n] = MaxOf(@, LastIndex(l) + 1)]
      /\ Ready(n, l, c)
      /\ chosen' = chosen \cup NewlyChosen(l, committed[n], c)
      /\ Exchange(taken, out)
  BY DEF HandleProposal
<1> HIDE DEF l, match, c, out
<1>8. msgs' \subseteq Message
  BY <1>5, <1>7, ExchangeType DEF TypeOK
<1>9. nextIndex' \in [Server -> [Server -> Nat \ {0}]]
  BY <1>2, <1>7 DEF TypeOK, MaxOf
<1>10. log' \in [Server -> Seq(Entry)] /\ committed' \in [Server -> Nat]
       /\ applied' \in [Server -> Seq(Entry)]
  BY <1>1, <1>4, <1>7, ReadyType
<1>11. matchIndex' \in [Server -> [Server -> Nat]] /\ chosen' \subseteq Entry
  BY <1>3, <1>6, <1>7 DEF TypeOK
<1>12. QED
  BY <1>8, <1>9, <1>10, <1>11

\* The conflict hint of a rejection is an index.
LEMMA FindConflictType ==
    ASSUME NEW l \in Seq(Entry), NEW rejected \in Nat
    PROVE  FindConflict(l, rejected) \in Nat
<1> DEFINE t == Term(l, rejected)
           start(i) == /\ \A j \in i..rejected : Term(l, j) = t
                       /\ Term(l, i - 1) # t
<1>1. CASE t = 0
  BY <1>1 DEF FindConflict, LastIndex
<1>2. CASE t # 0
  <2>1. rejected \in 1..Len(l)
    BY <1>2 DEF Term
  <2> DEFINE run == {i \in 1..rejected : \A j \in i..rejected : Term(l, j) = t}
  <2>2. run \in SUBSET Nat /\ rejected \in run
    BY <2>1
  <2>3. PICK i \in run : \A k \in run : i <= k
    BY <2>2, NatMin
  <2>4. Term(l, i - 1) # t
    <3>1. CASE i = 1
      BY <1>2, <3>1 DEF Term
    <3>2. CASE i # 1
      <4>1. i - 1 \in 1..rejected /\ i - 1 \notin run
        BY <2>3, <3>2
      <4>2. QED
        BY <2>3, <4>1
    <3>3. QED
      BY <3>1, <3>2
  <2>5. \E k \in 1..rejected : start(k)
    BY <2>3, <2>4
  <2>6. FindConflict(l, rejected) = CHOOSE k \in 1..rejected : start(k)
    BY <1>2 DEF FindConflict
  <2>7. FindConflict(l, rejected) \in 1..rejected
    BY <2>5, <2>6
  <2>8. QED
    BY <2>7
<1>3. QED
  BY <1>1, <1>2

\* An acknowledgement keeps the types.
LEMMA HandleAppendSuccessType ==
    ASSUME TypeOK, NEW n \in Server, NEW m \in Message, HandleAppendSuccess(n, m)
    PROVE  /\ log' \in [Server -> Seq(Entry)]
           /\ committed' \in [Server -> Nat]
           /\ applied' \in [Server -> Seq(Entry)]
           /\ nextIndex' \in [Server -> [Server -> Nat \ {0}]]
           /\ matchIndex' \in [Server -> [Server -> Nat]]
           /\ pstate' \in [Server -> [Server -> {"Probe", "Replicate"}]]
           /\ msgs' \subseteq Message
           /\ chosen' \subseteq Entry
<1> DEFINE p     == m.from
           match == [matchIndex[n] EXCEPT ![p] = m.index]
           next  == IF pstate[n][p] = "Replicate"
                    THEN MaxOf(nextIndex[n][p], m.index + 1)
                    ELSE m.index + 1
           c     == MaybeCommit(n, log[n], match, committed[n], term[n])
           out   == IF m.index < LastIndex(log[n])
                    THEN {AppendMsg(n, p, term[n], next, log[n], c)}
                    ELSE {}
<1>1. m.index \in Nat /\ p \in Server
  BY MessageShape DEF HandleAppendSuccess, AppendRspMessage
<1>2. log[n] \in Seq(Entry) /\ term[n] \in Nat /\ committed[n] \in Nat
      /\ nextIndex[n][p] \in Nat \ {0}
  BY <1>1 DEF TypeOK
<1>3. match \in [Server -> Nat] /\ next \in Nat \ {0}
  <2>1. matchIndex[n] \in [Server -> Nat]
    BY DEF TypeOK
  <2>2. match \in [Server -> Nat]
    BY <1>1, <2>1
  <2>3. MaxOf(nextIndex[n][p], m.index + 1) \in Nat \ {0} /\ m.index + 1 \in Nat \ {0}
    BY <1>1, <1>2 DEF MaxOf
  <2>4. QED
    BY <2>2, <2>3
<1>4. c \in Nat /\ (c > committed[n] => c <= Len(log[n]))
  BY <1>2, MaybeCommitType
<1>5. /\ matchIndex' = [matchIndex EXCEPT ![n] = match]
      /\ nextIndex' = [nextIndex EXCEPT ![n][p] = next]
      /\ pstate' = [pstate EXCEPT ![n][p] = "Replicate"]
      /\ Ready(n, log[n], c)
      /\ chosen' = chosen \cup NewlyChosen(log[n], committed[n], c)
      /\ Exchange({m}, out)
  BY DEF HandleAppendSuccess
<1> HIDE DEF p, match, next, c
<1>6. AppendMsg(n, p, term[n], next, log[n], c) \in Message
  BY <1>1, <1>2, <1>3, <1>4, ConstructorType DEF Message
<1>7. out \in SUBSET Message
  BY <1>6
<1>8. msgs' \subseteq Message
  BY <1>5, <1>7, ExchangeType DEF TypeOK
<1>9. NewlyChosen(log[n], committed[n], c) \subseteq Entry
  BY <1>2, <1>4 DEF NewlyChosen
<1>10. log' \in [Server -> Seq(Entry)] /\ committed' \in [Server -> Nat]
       /\ applied' \in [Server -> Seq(Entry)]
  BY <1>2, <1>4, <1>5, ReadyType
<1>11. /\ nextIndex' \in [Server -> [Server -> Nat \ {0}]]
       /\ matchIndex' \in [Server -> [Server -> Nat]]
       /\ pstate' \in [Server -> [Server -> {"Probe", "Replicate"}]]
       /\ chosen' \subseteq Entry
  BY <1>1, <1>3, <1>5, <1>9 DEF TypeOK
<1>12. QED
  BY <1>8, <1>10, <1>11

\* Every step of the system keeps the types: no index, however it is computed,
\* leaves the naturals, and no handler reads a field its message does not have.
LEMMA TypeStep == TypeOK /\ [Next]_vars => TypeOK'
<1> SUFFICES ASSUME TypeOK, [Next]_vars PROVE TypeOK'
  OBVIOUS
<1> USE DEF serverVars, logVars, leaderVars, history
<1>1. ASSUME NEW n \in Server, Timeout(n) PROVE TypeOK'
  <2>1. term[n] + 1 \in Nat /\ log[n] \in Seq(Entry)
    BY DEF TypeOK
  <2>2. [voter |-> n, term |-> term[n] + 1, cand |-> n] \in Ballot
    BY <2>1 DEF Ballot
  <2>3. CASE Peers[n] = {} /\ BecomeLeader(n, term[n] + 1) /\ UNCHANGED msgs
    BY <1>1, <2>1, <2>2, <2>3, BecomeLeaderType DEF TypeOK, Timeout
  <2>4. CASE Peers[n] # {} /\ Exchange({}, {VoteMsg(n, p, term[n] + 1, log[n]) : p \in Peers[n]})
             /\ state' = [state EXCEPT ![n] = "Candidate"] /\ lead' = [lead EXCEPT ![n] = Nil]
             /\ UNCHANGED <<log, leaderVars, elected>>
    <3>1. \A p \in Peers[n] : VoteMsg(n, p, term[n] + 1, log[n]) \in VoteMessage
      BY <2>1, ConstructorType, PeersAssumption
    <3>2. msgs' \subseteq Message
      BY <2>4, <3>1, ExchangeType, ZenonT(40) DEF TypeOK, Message
    <3>3. QED
      BY <1>1, <2>1, <2>2, <2>4, <3>2 DEF TypeOK, Timeout
  <2>5. QED
    BY <1>1, <2>3, <2>4 DEF Timeout
<1>2. ASSUME NEW n \in Server, HeartbeatTimeout(n) PROVE TypeOK'
  <2>1. \A p \in Peers[n] : HeartbeatMsg(n, p, term[n], committed[n]) \in HeartbeatMessage
    BY ConstructorType, PeersAssumption DEF TypeOK
  <2>2. msgs' \subseteq Message
    BY <1>2, <2>1, ExchangeType, ZenonT(40) DEF TypeOK, Message, HeartbeatTimeout
  <2>3. QED
    BY <1>2, <2>2 DEF TypeOK, HeartbeatTimeout
<1>3. ASSUME NEW n \in Server, Restart(n) PROVE TypeOK'
  <2>1. <<>> \in Seq(Entry)
    BY EmptySeq
  <2>2. restarts' \in 0..MaxRestarts
    BY <1>3, BoundAssumption DEF TypeOK, Restart
  <2>3. QED
    BY <1>3, <2>1, <2>2 DEF TypeOK, Restart
<1>4. ASSUME NEW n \in Server, NEW v \in Value, ProposeAtLeader(n, v) PROVE TypeOK'
  <2>1. HandleProposal(n, v, {})
    BY <1>4 DEF ProposeAtLeader
  <2>2. /\ UNCHANGED <<serverVars, votes, pstate, restarts, ballots, elected>>
        /\ acked' = acked \cup {v}
    BY <1>4, <2>1 DEF ProposeAtLeader, HandleProposal
  <2>3. QED
    BY <2>1, <2>2, HandleProposalType DEF TypeOK
<1>5. ASSUME NEW n \in Server, NEW v \in Value, ProposeAtFollower(n, v) PROVE TypeOK'
  <2>1. lead[n] \in Server /\ term[n] \in Nat
    BY <1>5 DEF TypeOK, ProposeAtFollower
  <2>2. ProposeMsg(n, lead[n], term[n], v) \in Message
    BY <2>1, ConstructorType DEF Message
  <2>3. msgs' \subseteq Message
    BY <1>5, <2>2, ExchangeType DEF TypeOK, ProposeAtFollower
  <2>4. QED
    BY <1>5, <2>3 DEF TypeOK, ProposeAtFollower
<1>6. ASSUME NEW n \in Server, NEW m \in msgs, Deliver(n, m) PROVE TypeOK'
  <2> m \in Message
    BY DEF TypeOK
  <2> m.from \in Server /\ m.to \in Server /\ m.term \in Nat
    BY MessageShape
  <2> term[n] \in Nat /\ log[n] \in Seq(Entry) /\ committed[n] \in Nat
    BY DEF TypeOK
  <2>1. CASE GrantVote(n, m)
    <3>1. VoteRspMsg(n, m.from, m.term, TRUE) \in Message
      BY ConstructorType DEF Message
    <3>2. msgs' \subseteq Message
      BY <2>1, <3>1, ExchangeType DEF TypeOK, GrantVote
    <3>3. [voter |-> n, term |-> m.term, cand |-> m.from] \in Ballot
      BY DEF Ballot
    <3>4. QED
      BY <2>1, <3>2, <3>3 DEF TypeOK, GrantVote
  <2>2. CASE RejectVote(n, m)
    <3>1. VoteRspMsg(n, m.from, term[n], FALSE) \in Message
      BY ConstructorType DEF Message
    <3>2. msgs' \subseteq Message
      BY <2>2, <3>1, ExchangeType DEF TypeOK, RejectVote
    <3>3. QED
      BY <2>2, <3>2 DEF TypeOK, RejectVote
  <2>3. CASE HandleVoteGranted(n, m)
    <3>1. votes' \in [Server -> SUBSET Server]
      BY <2>3 DEF TypeOK, HandleVoteGranted
    <3>2. CASE HasQuorum(n, votes[n] \cup {m.from})
      <4>1. /\ BecomeLeader(n, term[n])
            /\ Exchange({m}, {HeartbeatMsg(n, p, term[n], committed[n]) : p \in Peers[n]})
        BY <2>3, <3>2 DEF HandleVoteGranted
      <4>2. \A p \in Peers[n] : HeartbeatMsg(n, p, term[n], committed[n]) \in Message
        BY ConstructorType, PeersAssumption DEF Message
      <4>3. msgs' \subseteq Message
        BY <4>1, <4>2, ExchangeType DEF TypeOK
      <4>4. QED
        BY <2>3, <3>1, <4>1, <4>3, BecomeLeaderType DEF TypeOK, HandleVoteGranted
    <3>3. CASE ~HasQuorum(n, votes[n] \cup {m.from})
      <4>1. Exchange({m}, {}) /\ UNCHANGED <<state, lead, log, leaderVars, elected>>
        BY <2>3, <3>3 DEF HandleVoteGranted
      <4>2. msgs' \subseteq Message
        BY <4>1, ExchangeType DEF TypeOK
      <4>3. QED
        BY <2>3, <3>1, <4>1, <4>2 DEF TypeOK, HandleVoteGranted
    <3>4. QED
      BY <3>2, <3>3
  <2>4. CASE HandleVoteDenied(n, m)
    <3>1. msgs' \subseteq Message
      BY <2>4, ExchangeType DEF TypeOK, HandleVoteDenied
    <3>2. QED
      BY <2>4, <3>1 DEF TypeOK, HandleVoteDenied
  <2>5. CASE HandleHeartbeat(n, m)
    <3>1. m.commit \in Nat
      BY <2>5, MessageShape DEF HandleHeartbeat, HeartbeatMessage
    <3>2. CommitTo(log[n], committed[n], m.commit) \in Nat
      BY <3>1, CommitToType
    <3>3. HeartbeatRspMsg(n, m.from, m.term) \in Message
      BY ConstructorType DEF Message
    <3>4. msgs' \subseteq Message
      BY <2>5, <3>3, ExchangeType DEF TypeOK, HandleHeartbeat
    <3>5. FollowSender(n, m) /\ Ready(n, log[n], CommitTo(log[n], committed[n], m.commit))
      BY <2>5 DEF HandleHeartbeat
    <3>6. QED
      BY <2>5, <3>2, <3>4, <3>5, FollowSenderType, ReadyType DEF TypeOK, HandleHeartbeat
  <2>6. CASE HandleAppendBehindCommit(n, m)
    <3>1. AppendRspMsg(n, m.from, m.term, committed[n], FALSE, 0) \in Message
      BY ConstructorType DEF Message
    <3>2. msgs' \subseteq Message
      BY <2>6, <3>1, ExchangeType DEF TypeOK, HandleAppendBehindCommit
    <3>3. FollowSender(n, m)
      BY <2>6 DEF HandleAppendBehindCommit
    <3>4. QED
      BY <2>6, <3>2, <3>3, FollowSenderType DEF TypeOK, HandleAppendBehindCommit
  <2>7. CASE HandleAppendReject(n, m)
    <3>1. FindConflict(log[n], m.prevIndex) \in Nat
      BY <2>7, FindConflictType, MessageShape DEF HandleAppendReject, AppendMessage
    <3>2. AppendRspMsg(n, m.from, m.term, 0, TRUE, FindConflict(log[n], m.prevIndex)) \in Message
      BY <3>1, ConstructorType DEF Message
    <3>3. msgs' \subseteq Message
      BY <2>7, <3>2, ExchangeType DEF TypeOK, HandleAppendReject
    <3>4. FollowSender(n, m)
      BY <2>7 DEF HandleAppendReject
    <3>5. QED
      BY <2>7, <3>3, <3>4, FollowSenderType DEF TypeOK, HandleAppendReject
  <2>8. CASE HandleAppendAccept(n, m)
    <3> DEFINE l == AppendEntries(log[n], m.entries)
               c == CommitTo(l, committed[n], m.commit)
    <3>1. m.entries \in Seq(Entry) /\ m.commit \in Nat
      BY <2>8, MessageShape DEF HandleAppendAccept, AppendMessage
    <3>2. l \in Seq(Entry) /\ LastIndex(l) \in Nat
      BY <3>1, AppendEntriesType DEF LastIndex
    <3>3. c \in Nat
      BY <3>1, <3>2, CommitToType
    <3>4. /\ FollowSender(n, m) /\ Ready(n, l, c)
          /\ Exchange({m}, {AppendRspMsg(n, m.from, m.term, LastIndex(l), FALSE, 0)})
      BY <2>8 DEF HandleAppendAccept
    <3> HIDE DEF l, c
    <3>5. AppendRspMsg(n, m.from, m.term, LastIndex(l), FALSE, 0) \in Message
      BY <3>2, ConstructorType DEF Message
    <3>6. msgs' \subseteq Message
      BY <3>4, <3>5, ExchangeType DEF TypeOK
    <3>7. QED
      BY <2>8, <3>2, <3>3, <3>4, <3>6, FollowSenderType, ReadyType
      DEF TypeOK, HandleAppendAccept
  <2>9. CASE HandleHeartbeatRsp(n, m)
    <3> DEFINE out == IF matchIndex[n][m.from] < LastIndex(log[n])
                      THEN {AppendMsg(n, m.from, term[n], nextIndex[n][m.from],
                                      log[n], committed[n])}
                      ELSE {}
    <3>1. nextIndex[n][m.from] \in Nat \ {0}
      <4>1. nextIndex[n] \in [Server -> Nat \ {0}]
        BY DEF TypeOK
      <4>2. QED
        BY <4>1
    <3>2. AppendMsg(n, m.from, term[n], nextIndex[n][m.from], log[n], committed[n]) \in Message
      BY <3>1, ConstructorType DEF Message
    <3>3. out \in SUBSET Message /\ Exchange({m}, out)
      BY <2>9, <3>2 DEF HandleHeartbeatRsp
    <3>4. msgs' \subseteq Message
      BY <3>3, ExchangeType DEF TypeOK
    <3>5. QED
      BY <2>9, <3>4 DEF TypeOK, HandleHeartbeatRsp
  <2>10. CASE HandleAppendSuccess(n, m)
    BY <2>10, HandleAppendSuccessType DEF TypeOK, HandleAppendSuccess
  <2>11. CASE HandleAppendRejected(n, m)
    <3> DEFINE p    == m.from
               next == MaybeDecrTo(n, p, m.index, m.conflict)
               resend == pstate[n][p] = "Replicate" \/ next < nextIndex[n][p]
               out == IF resend THEN {AppendMsg(n, p, term[n], next, log[n], committed[n])}
                                ELSE {}
    <3>1. m.index \in Nat /\ m.conflict \in Nat
      BY <2>11, MessageShape DEF HandleAppendRejected, AppendRspMessage
    <3>2. nextIndex[n][p] \in Nat \ {0} /\ matchIndex[n][p] \in Nat
      BY ZenonT(40) DEF TypeOK
    <3>3. next \in Nat \ {0}
      <4>1. matchIndex[n][p] + 1 \in Nat \ {0}
        BY <3>2
      <4>2. MaxOf(m.conflict, 1) \in Nat \ {0}
        BY <3>1 DEF MaxOf
      <4>3. MinOf(nextIndex[n][p], MaxOf(m.conflict, 1)) \in Nat \ {0}
        BY <3>2, <4>2 DEF MinOf
      <4>4. QED
        BY <3>2, <4>1, <4>3 DEF MaybeDecrTo
    <3>4. /\ nextIndex' = [nextIndex EXCEPT ![n][p] = next]
          /\ pstate' = [pstate EXCEPT ![n][p] = "Probe"]
          /\ Exchange({m}, out)
      BY <2>11 DEF HandleAppendRejected
    <3> HIDE DEF next
    <3>5. out \in SUBSET Message
      BY <3>3, ConstructorType DEF Message
    <3>6. msgs' \subseteq Message
      BY <3>4, <3>5, ExchangeType DEF TypeOK
    <3>7. nextIndex' \in [Server -> [Server -> Nat \ {0}]]
      BY <3>3, <3>4 DEF TypeOK
    <3>8. pstate' \in [Server -> [Server -> {"Probe", "Replicate"}]]
      BY <3>4 DEF TypeOK
    <3>9. UNCHANGED <<serverVars, votes, logVars, matchIndex, restarts, acked, history>>
      BY <2>11 DEF HandleAppendRejected
    <3>10. QED
      BY <3>6, <3>7, <3>8, <3>9 DEF TypeOK
  <2>12. CASE HandleForwardedProposal(n, m)
    <3>1. HandleProposal(n, m.cmd, {m}) /\ m.cmd \in Value
      BY <2>12, MessageShape DEF HandleForwardedProposal, ProposeMessage
    <3>2. UNCHANGED <<serverVars, votes, pstate, restarts, ballots, elected, acked>>
      BY <2>12, <3>1 DEF HandleForwardedProposal, HandleProposal
    <3>3. QED
      BY <3>1, <3>2, HandleProposalType DEF TypeOK
  <2>13. CASE ForwardProposal(n, m)
    <3>1. lead[n] \in Server /\ m \in ProposeMessage
      BY <2>13, MessageShape DEF TypeOK, ForwardProposal
    <3>2. [m EXCEPT !.to = lead[n]] \in Message
      BY <3>1 DEF Message, ProposeMessage
    <3>3. msgs' \subseteq Message
      BY <2>13, <3>2, ExchangeType DEF TypeOK, ForwardProposal
    <3>4. QED
      BY <2>13, <3>3 DEF TypeOK, ForwardProposal
  <2>14. CASE ForwardHigherTermProposal(n, m)
    <3>1. m \in ProposeMessage
      BY <2>14, MessageShape DEF ForwardHigherTermProposal
    <3>2. [m EXCEPT !.to = m.from] \in Message
      BY <3>1 DEF Message, ProposeMessage
    <3>3. msgs' \subseteq Message
      BY <2>14, <3>2, ExchangeType DEF TypeOK, ForwardHigherTermProposal
    <3>4. QED
      BY <2>14, <3>3 DEF TypeOK, ForwardHigherTermProposal
  <2>15. CASE HandleHigherTermRsp(n, m)
    <3>1. msgs' \subseteq Message
      BY <2>15, ExchangeType DEF TypeOK, HandleHigherTermRsp
    <3>2. QED
      BY <2>15, <3>1 DEF TypeOK, HandleHigherTermRsp
  <2>16. CASE Ignore(n, m)
    <3>1. msgs' \subseteq Message
      BY <2>16, ExchangeType DEF TypeOK, Ignore
    <3>2. QED
      BY <2>16, <3>1 DEF TypeOK, Ignore
  <2>17. QED
    BY <1>6, <2>1, <2>2, <2>3, <2>4, <2>5, <2>6, <2>7, <2>8, <2>9, <2>10, <2>11, <2>12,
       <2>13, <2>14, <2>15, <2>16 DEF Deliver
<1>7. ASSUME NEW m \in msgs, Lose(m) PROVE TypeOK'
  <2>1. msgs' \subseteq Message
    BY <1>7, ExchangeType DEF TypeOK, Lose
  <2>2. QED
    BY <1>7, <2>1 DEF TypeOK, Lose
<1>8. CASE UNCHANGED vars
  BY <1>8 DEF TypeOK, vars
<1>9. QED
  BY <1>1, <1>2, <1>3, <1>4, <1>5, <1>6, <1>7, <1>8 DEF Next

\* Every state the group can reach, by any sequence of ticks, proposals, losses
\* and restarts, over either transport and for any peer lists, is well typed.
THEOREM TypeCorrect == Spec => []TypeOK
<1>1. Init => TypeOK
  BY EmptySeq, BoundAssumption DEF Init, TypeOK
<1>2. QED
  BY <1>1, TypeStep, PTL DEF Spec

-----------------------------------------------------------------------------
(* Election safety.  The invariant follows a vote from the voter's vote field   *)
(* over the message that carries it to the candidate's votes map and, at last,  *)
(* to the election that is won with it.                                         *)

\* Every node has all the others for its peers.
StaticCluster == Peers = [n \in Server |-> Server \ {n}]

\* A node casts one ballot per term.
OneBallotPerTerm ==
    \A a, b \in ballots : a.voter = b.voter /\ a.term = b.term => a.cand = b.cand

\* A ballot is of no later term than the voter's, which still knows whom it
\* voted for as long as it stays in that term.
BallotsBind ==
    \A b \in ballots : /\ b.term <= term[b.voter]
                       /\ b.term = term[b.voter] => vote[b.voter] = b.cand

\* A candidate or leader has voted for itself, so it grants no other a vote.
CandidatesVoteForThemselves ==
    \A n \in Server : state[n] # "Follower" => vote[n] = n

\* Nobody asks itself for a vote.
RequestsGoToOthers == \A m \in msgs : m.type = "Vote" => m.from # m.to

\* A granted vote on its way was cast.
GrantsWereCast ==
    \A m \in msgs : m.type = "VoteRsp" /\ m.granted
        => [voter |-> m.from, term |-> m.term, cand |-> m.to] \in ballots

\* So were the votes a candidate or leader holds.
VotesWereCast ==
    \A n \in Server : state[n] # "Follower" =>
        \A v \in votes[n] : [voter |-> v, term |-> term[n], cand |-> n] \in ballots

\* An election was won with the ballots of a majority.
WinsHaveMajority ==
    \A w \in elected : \E Q \in SUBSET Server :
        /\ Cardinality(Q) * 2 > Cardinality(Server)
        /\ \A v \in Q : [voter |-> v, term |-> w.term, cand |-> w.node] \in ballots

ElectionInv ==
    /\ OneBallotPerTerm
    /\ BallotsBind
    /\ CandidatesVoteForThemselves
    /\ RequestsGoToOthers
    /\ GrantsWereCast
    /\ VotesWereCast
    /\ WinsHaveMajority

\* No vote request and no granted vote enters the network.
NoVoteTraffic ==
    \A w \in msgs' : w.type = "Vote" \/ (w.type = "VoteRsp" /\ w.granted) => w \in msgs

\* Neither transport turns anything else into a vote request or a vote.
LEMMA OnWireVotes ==
    ASSUME NEW m, NEW w \in OnWire(m),
           m.type \in {"VoteRsp", "Heartbeat", "HeartbeatRsp", "Append", "AppendRsp", "Propose"}
    PROVE  w.type # "Vote" /\ (w.type = "VoteRsp" => w = m)
BY DEF OnWire, AppendMsg, AppendRspMsg

LEMMA ExchangeVotes ==
    ASSUME NEW taken, NEW out, Exchange(taken, out),
           \A m \in out : \/ m.type = "VoteRsp" /\ ~m.granted
                          \/ m.type \in {"Heartbeat", "HeartbeatRsp", "Append", "AppendRsp",
                                         "Propose"}
    PROVE  NoVoteTraffic
<1> SUFFICES ASSUME NEW w \in msgs', w \notin msgs
             PROVE  w.type # "Vote" /\ (w.type = "VoteRsp" => ~w.granted)
  BY DEF NoVoteTraffic
<1>1. PICK m \in out : w \in OnWire(m)
  BY DEF Exchange
<1>2. w.type # "Vote" /\ (w.type = "VoteRsp" => w = m)
  BY <1>1, OnWireVotes
<1>3. QED
  BY <1>1, <1>2

\* Steps that leave elections alone.
LEMMA ElectionFrame ==
    ASSUME ElectionInv, UNCHANGED <<term, vote, state, votes, ballots, elected>>, NoVoteTraffic
    PROVE  ElectionInv'
<1>1. OneBallotPerTerm' /\ BallotsBind' /\ CandidatesVoteForThemselves' /\ VotesWereCast'
      /\ WinsHaveMajority'
  BY DEF ElectionInv, OneBallotPerTerm, BallotsBind, CandidatesVoteForThemselves,
         VotesWereCast, WinsHaveMajority
<1>2. RequestsGoToOthers' /\ GrantsWereCast'
  BY DEF ElectionInv, NoVoteTraffic, RequestsGoToOthers, GrantsWereCast
<1>3. QED
  BY <1>1, <1>2 DEF ElectionInv

\* Steps by which a node becomes a follower in term t.
LEMMA StepDownFrame ==
    ASSUME TypeOK, ElectionInv, NEW n \in Server, NEW t \in Nat, t >= term[n],
           term' = [term EXCEPT ![n] = t],
           vote' = [vote EXCEPT ![n] = IF t > term[n] THEN Nil ELSE @],
           state' = [state EXCEPT ![n] = "Follower"],
           UNCHANGED <<votes, ballots, elected>>, NoVoteTraffic
    PROVE  ElectionInv'
<1>1. OneBallotPerTerm' /\ WinsHaveMajority'
  BY DEF ElectionInv, OneBallotPerTerm, WinsHaveMajority
<1>2. BallotsBind'
  <2>1. ASSUME NEW b \in ballots
        PROVE  b.term <= term'[b.voter] /\ (b.term = term'[b.voter] => vote'[b.voter] = b.cand)
    <3>1. b.voter \in Server /\ b.term \in Nat /\ term[b.voter] \in Nat
      BY DEF TypeOK, Ballot
    <3>2. b.term <= term[b.voter] /\ (b.term = term[b.voter] => vote[b.voter] = b.cand)
      BY DEF ElectionInv, BallotsBind
    <3>3. CASE b.voter # n
      BY <3>1, <3>2, <3>3 DEF TypeOK
    <3>4. CASE b.voter = n
      <4>1. term'[n] = t /\ vote'[n] = IF t > term[n] THEN Nil ELSE vote[n]
        BY DEF TypeOK
      <4>2. QED
        BY <3>1, <3>2, <3>4, <4>1
    <3>5. QED
      BY <3>3, <3>4
  <2>2. QED
    BY <2>1 DEF BallotsBind
<1>3. CandidatesVoteForThemselves' /\ VotesWereCast'
  BY DEF TypeOK, ElectionInv, CandidatesVoteForThemselves, VotesWereCast
<1>4. RequestsGoToOthers' /\ GrantsWereCast'
  BY DEF ElectionInv, NoVoteTraffic, RequestsGoToOthers, GrantsWereCast
<1>5. QED
  BY <1>1, <1>2, <1>3, <1>4 DEF ElectionInv

\* The ballots a node casts in a new term, or again for the same candidate.
LEMMA CastBallot ==
    ASSUME TypeOK, ElectionInv, NEW n \in Server, NEW t \in Nat, NEW c \in Server,
           \/ t > term[n]
           \/ t = term[n] /\ vote[n] \in {Nil, c},
           term' = [term EXCEPT ![n] = t],
           vote' = [vote EXCEPT ![n] = c],
           ballots' = ballots \cup {[voter |-> n, term |-> t, cand |-> c]}
    PROVE  OneBallotPerTerm' /\ BallotsBind'
<1> DEFINE new == [voter |-> n, term |-> t, cand |-> c]
<1>1. ASSUME NEW b \in ballots PROVE b.voter = n /\ b.term = t => b.cand = c
  <2>1. b.voter \in Server /\ b.term \in Nat /\ b.cand \in Server /\ term[n] \in Nat
    BY DEF TypeOK, Ballot
  <2>2. b.voter = n => b.term <= term[n] /\ (b.term = term[n] => vote[n] = b.cand)
    BY DEF ElectionInv, BallotsBind
  <2>3. b.cand # Nil
    BY <2>1, ServerAssumption
  <2>4. QED
    BY <2>1, <2>2, <2>3
<1>2. OneBallotPerTerm'
  BY <1>1 DEF ElectionInv, OneBallotPerTerm
<1>3. ASSUME NEW b \in ballots'
      PROVE  b.term <= term'[b.voter] /\ (b.term = term'[b.voter] => vote'[b.voter] = b.cand)
  <2>1. CASE b = new
    BY <2>1 DEF TypeOK
  <2>2. CASE b \in ballots /\ b.voter # n
    <3>1. b.voter \in Server
      BY <2>2 DEF TypeOK, Ballot
    <3>2. term'[b.voter] = term[b.voter] /\ vote'[b.voter] = vote[b.voter]
      BY <2>2, <3>1 DEF TypeOK
    <3>3. QED
      BY <2>2, <3>2 DEF ElectionInv, BallotsBind
  <2>3. CASE b \in ballots /\ b.voter = n
    <3>1. b.term \in Nat /\ term[n] \in Nat
      BY <2>3 DEF TypeOK, Ballot
    <3>2. b.term <= term[n]
      BY <2>3 DEF ElectionInv, BallotsBind
    <3>3. term'[n] = t /\ vote'[n] = c
      BY DEF TypeOK
    <3>4. QED
      BY <1>1, <2>3, <3>1, <3>2, <3>3
  <2>4. QED
    BY <2>1, <2>2, <2>3
<1>4. QED
  BY <1>2, <1>3 DEF BallotsBind

\* More ballots take no election and no vote back.
LEMMA BallotsGrow ==
    ASSUME ElectionInv, ballots \subseteq ballots', elected' = elected
    PROVE  WinsHaveMajority'
BY DEF ElectionInv, WinsHaveMajority

\* hasQuorum asks for a majority of the cluster.
LEMMA QuorumIsMajority ==
    ASSUME StaticCluster, NEW n \in Server, NEW granted \in SUBSET Server,
           HasQuorum(n, granted)
    PROVE  Cardinality(granted) * 2 > Cardinality(Server)
<1>1. Cardinality(Server \ {n}) = Cardinality(Server) - 1
  BY ServerAssumption, FS_RemoveElement
<1>2. Cardinality(Server) \in Nat /\ Cardinality(granted) \in Nat
  BY ServerAssumption, FS_CardinalityType, FS_Subset
<1>3. Peers[n] = Server \ {n}
  BY DEF StaticCluster
<1>4. QED
  BY <1>1, <1>2, <1>3 DEF HasQuorum

\* A campaign starts a new term with the candidate's own ballot.
LEMMA TimeoutElection ==
    ASSUME TypeOK, ElectionInv, StaticCluster, NEW n \in Server, Timeout(n)
    PROVE  ElectionInv'
<1> DEFINE t == term[n] + 1
           new == [voter |-> n, term |-> t, cand |-> n]
<1>1. t \in Nat /\ t > term[n]
  BY DEF TypeOK
<1>2. /\ term' = [term EXCEPT ![n] = t]
      /\ vote' = [vote EXCEPT ![n] = n]
      /\ votes' = [votes EXCEPT ![n] = {n}]
      /\ ballots' = ballots \cup {new}
  BY DEF Timeout
<1>3. OneBallotPerTerm' /\ BallotsBind'
  BY <1>1, <1>2, CastBallot
<1>4. \A p \in Server \ {n} : state'[p] = state[p]
  BY DEF TypeOK, Timeout, BecomeLeader
<1>5. CandidatesVoteForThemselves'
  <2>1. ASSUME NEW p \in Server, state'[p] # "Follower" PROVE vote'[p] = p
    <3>1. CASE p = n
      BY <1>2, <3>1 DEF TypeOK
    <3>2. CASE p # n
      <4>1. state[p] # "Follower" /\ vote'[p] = vote[p]
        BY <1>2, <1>4, <2>1, <3>2 DEF TypeOK
      <4>2. QED
        BY <4>1 DEF ElectionInv, CandidatesVoteForThemselves
    <3>3. QED
      BY <3>1, <3>2
  <2>2. QED
    BY <2>1 DEF CandidatesVoteForThemselves
<1>6. VotesWereCast'
  <2>1. ASSUME NEW p \in Server, state'[p] # "Follower", NEW v \in votes'[p]
        PROVE  [voter |-> v, term |-> term'[p], cand |-> p] \in ballots'
    <3>1. CASE p = n
      <4>1. v = n /\ term'[p] = t
        BY <1>2, <2>1, <3>1 DEF TypeOK
      <4>2. QED
        BY <1>2, <3>1, <4>1
    <3>2. CASE p # n
      <4>1. state[p] # "Follower" /\ v \in votes[p] /\ term'[p] = term[p]
        BY <1>2, <1>4, <2>1, <3>2 DEF TypeOK
      <4>2. QED
        BY <1>2, <4>1 DEF ElectionInv, VotesWereCast
    <3>3. QED
      BY <3>1, <3>2
  <2>2. QED
    BY <2>1 DEF VotesWereCast
<1>7. CASE Peers[n] = {} /\ BecomeLeader(n, t) /\ UNCHANGED msgs
  <2>1. RequestsGoToOthers' /\ GrantsWereCast'
    BY <1>2, <1>7 DEF ElectionInv, RequestsGoToOthers, GrantsWereCast
  <2>2. Cardinality({n}) * 2 > Cardinality(Server)
    <3>1. HasQuorum(n, {n})
      BY <1>7, FS_EmptySet, FS_Singleton DEF HasQuorum
    <3>2. QED
      BY <3>1, QuorumIsMajority
  <2>3. WinsHaveMajority'
    <3>1. ASSUME NEW w \in elected'
          PROVE  \E Q \in SUBSET Server :
                    /\ Cardinality(Q) * 2 > Cardinality(Server)
                    /\ \A v \in Q : [voter |-> v, term |-> w.term, cand |-> w.node] \in ballots'
      <4>1. CASE w \in elected
        BY <1>2, <4>1 DEF ElectionInv, WinsHaveMajority
      <4>2. CASE w = [term |-> t, node |-> n]
        <5>1. \A v \in {n} : [voter |-> v, term |-> w.term, cand |-> w.node] \in ballots'
          BY <1>2, <4>2
        <5>2. QED
          BY <2>2, <5>1
      <4>3. QED
        BY <1>7, <4>1, <4>2 DEF BecomeLeader
    <3>2. QED
      BY <3>1 DEF WinsHaveMajority
  <2>4. QED
    BY <1>3, <1>5, <1>6, <2>1, <2>3 DEF ElectionInv
<1>8. CASE /\ Exchange({}, {VoteMsg(n, p, t, log[n]) : p \in Peers[n]})
           /\ elected' = elected
  <2>1. WinsHaveMajority'
    BY <1>2, <1>8, BallotsGrow
  <2>2. ASSUME NEW w \in msgs', w \notin msgs
        PROVE  w.type = "Vote" /\ w.from = n /\ w.to \in Server \ {n}
    <3>1. PICK p \in Peers[n] : w \in OnWire(VoteMsg(n, p, t, log[n]))
      BY <1>8, <2>2 DEF Exchange
    <3>2. \/ w = VoteMsg(n, p, t, log[n])
          \/ w = VoteMsg(n, p, t, <<>>)
      BY <3>1 DEF OnWire, VoteMsg
    <3>3. p \in Server \ {n}
      BY <3>1, PeersAssumption
    <3>4. QED
      BY <3>2, <3>3 DEF VoteMsg
  <2>3. RequestsGoToOthers' /\ GrantsWereCast'
    BY <1>2, <2>2 DEF ElectionInv, RequestsGoToOthers, GrantsWereCast
  <2>4. QED
    BY <1>3, <1>5, <1>6, <2>1, <2>3 DEF ElectionInv
<1>9. QED
  BY <1>7, <1>8 DEF Timeout

\* A node that grants a vote is a follower, and has cast no other in that term.
LEMMA GrantVoteElection ==
    ASSUME TypeOK, ElectionInv, NEW n \in Server, NEW m \in msgs, GrantVote(n, m)
    PROVE  ElectionInv'
<1> DEFINE new == [voter |-> n, term |-> m.term, cand |-> m.from]
<1>1. m.from \in Server /\ m.to = n /\ m.term \in Nat /\ m.from # n /\ m.term >= term[n]
  BY MessageShape DEF TypeOK, GrantVote, ElectionInv, RequestsGoToOthers
<1>2. vote[n] \in {Nil, m.from}
  BY DEF GrantVote, CanVote
<1>3. state[n] = "Follower"
  <2>1. vote[n] # n
    BY <1>1, <1>2, ServerAssumption
  <2>2. QED
    BY <2>1 DEF ElectionInv, CandidatesVoteForThemselves
<1>4. /\ term' = [term EXCEPT ![n] = m.term]
      /\ vote' = [vote EXCEPT ![n] = m.from]
      /\ ballots' = ballots \cup {new}
      /\ Exchange({m}, {VoteRspMsg(n, m.from, m.term, TRUE)})
      /\ UNCHANGED <<state, votes, elected>>
  BY DEF GrantVote
<1>5. OneBallotPerTerm' /\ BallotsBind'
  <2>1. term[n] \in Nat
    BY DEF TypeOK
  <2>2. m.term > term[n] \/ (m.term = term[n] /\ vote[n] \in {Nil, m.from})
    BY <1>1, <1>2, <2>1
  <2>3. m.from \in Server /\ m.term \in Nat
    BY <1>1
  <2>4. QED
    BY <1>4, <2>2, <2>3, CastBallot
<1>6. CandidatesVoteForThemselves' /\ VotesWereCast'
  BY <1>3, <1>4 DEF TypeOK, ElectionInv, CandidatesVoteForThemselves, VotesWereCast
<1>7. WinsHaveMajority'
  BY <1>4, BallotsGrow
<1>8. ASSUME NEW w \in msgs', w \notin msgs PROVE w = VoteRspMsg(n, m.from, m.term, TRUE)
  <2>1. w \in OnWire(VoteRspMsg(n, m.from, m.term, TRUE))
    BY <1>4, <1>8 DEF Exchange
  <2>2. QED
    BY <2>1 DEF OnWire, VoteRspMsg
<1>9. RequestsGoToOthers' /\ GrantsWereCast'
  <2>1. ASSUME NEW w \in msgs'
        PROVE  /\ w.type = "Vote" => w.from # w.to
               /\ w.type = "VoteRsp" /\ w.granted
                    => [voter |-> w.from, term |-> w.term, cand |-> w.to] \in ballots'
    <3>1. CASE w \in msgs
      BY <1>4, <3>1 DEF ElectionInv, RequestsGoToOthers, GrantsWereCast
    <3>2. CASE w \notin msgs
      BY <1>4, <1>8, <3>2 DEF VoteRspMsg
    <3>3. QED
      BY <3>1, <3>2
  <2>2. QED
    BY <2>1 DEF RequestsGoToOthers, GrantsWereCast
<1>10. QED
  BY <1>5, <1>6, <1>7, <1>9 DEF ElectionInv

\* A candidate that wins holds the ballots of a majority.
LEMMA VoteGrantedElection ==
    ASSUME TypeOK, ElectionInv, StaticCluster, NEW n \in Server, NEW m \in msgs,
           HandleVoteGranted(n, m)
    PROVE  ElectionInv'
<1> DEFINE granted == votes[n] \cup {m.from}
<1>1. /\ m.type = "VoteRsp" /\ m.to = n /\ m.term = term[n] /\ m.granted
      /\ state[n] = "Candidate"
      /\ votes' = [votes EXCEPT ![n] = granted]
      /\ UNCHANGED <<term, vote, ballots>>
  BY DEF HandleVoteGranted
<1>2. granted \in SUBSET Server
  BY MessageShape DEF TypeOK
<1>3. \A v \in granted : [voter |-> v, term |-> term[n], cand |-> n] \in ballots
  BY <1>1 DEF ElectionInv, VotesWereCast, GrantsWereCast
<1>4. OneBallotPerTerm' /\ BallotsBind'
  BY <1>1 DEF ElectionInv, OneBallotPerTerm, BallotsBind
<1>5. \A p \in Server \ {n} : state'[p] = state[p]
  BY DEF TypeOK, HandleVoteGranted, BecomeLeader
<1>6. CandidatesVoteForThemselves'
  BY <1>1, <1>5 DEF ElectionInv, CandidatesVoteForThemselves
<1>7. VotesWereCast'
  <2>1. ASSUME NEW p \in Server, state'[p] # "Follower", NEW v \in votes'[p]
        PROVE  [voter |-> v, term |-> term'[p], cand |-> p] \in ballots'
    <3>1. CASE p = n
      <4>1. v \in granted
        BY <1>1, <2>1, <3>1 DEF TypeOK
      <4>2. QED
        BY <1>1, <1>3, <3>1, <4>1
    <3>2. CASE p # n
      <4>1. v \in votes[p] /\ state[p] # "Follower"
        BY <1>1, <1>5, <2>1, <3>2 DEF TypeOK
      <4>2. QED
        BY <1>1, <4>1 DEF ElectionInv, VotesWereCast
    <3>3. QED
      BY <3>1, <3>2
  <2>2. QED
    BY <2>1 DEF VotesWereCast
<1>8. NoVoteTraffic
  <2>1. CASE HasQuorum(n, granted)
    <3> DEFINE out == {HeartbeatMsg(n, p, term[n], committed[n]) : p \in Peers[n]}
    <3>1. Exchange({m}, out)
      BY <2>1 DEF HandleVoteGranted
    <3>2. \A w \in out : w.type = "Heartbeat"
      BY DEF HeartbeatMsg
    <3> HIDE DEF out
    <3>3. QED
      BY <3>1, <3>2, ExchangeVotes
  <2>2. CASE ~HasQuorum(n, granted)
    BY <2>2, ExchangeVotes DEF HandleVoteGranted
  <2>3. QED
    BY <2>1, <2>2
<1>9. RequestsGoToOthers' /\ GrantsWereCast'
  BY <1>1, <1>8 DEF ElectionInv, NoVoteTraffic, RequestsGoToOthers, GrantsWereCast
<1>10. WinsHaveMajority'
  <2>1. CASE HasQuorum(n, granted)
    <3>1. elected' = elected \cup {[term |-> term[n], node |-> n]}
      BY <2>1 DEF HandleVoteGranted, BecomeLeader
    <3>2. Cardinality(granted) * 2 > Cardinality(Server)
      BY <1>2, <2>1, QuorumIsMajority
    <3>3. ASSUME NEW w \in elected'
          PROVE  \E Q \in SUBSET Server :
                    /\ Cardinality(Q) * 2 > Cardinality(Server)
                    /\ \A v \in Q : [voter |-> v, term |-> w.term, cand |-> w.node] \in ballots'
      <4>1. CASE w \in elected
        BY <1>1, <4>1 DEF ElectionInv, WinsHaveMajority
      <4>2. CASE w = [term |-> term[n], node |-> n]
        <5>1. \A v \in granted : [voter |-> v, term |-> w.term, cand |-> w.node] \in ballots'
          BY <1>1, <1>3, <4>2
        <5> HIDE DEF granted
        <5>2. QED
          BY <1>2, <3>2, <5>1
      <4>3. QED
        BY <3>1, <4>1, <4>2
    <3>4. QED
      BY <3>3 DEF WinsHaveMajority
  <2>2. CASE ~HasQuorum(n, granted)
    <3>1. elected' = elected
      BY <2>2 DEF HandleVoteGranted
    <3>2. QED
      BY <1>1, <3>1 DEF ElectionInv, WinsHaveMajority
  <2>3. QED
    BY <2>1, <2>2
<1>11. QED
  BY <1>4, <1>6, <1>7, <1>9, <1>10 DEF ElectionInv

\* Every step of a static cluster whose processes do not restart keeps the
\* election invariant.
LEMMA ElectionStep ==
    ASSUME StaticCluster, MaxRestarts = 0
    PROVE  TypeOK /\ ElectionInv /\ [Next]_vars => ElectionInv'
<1> SUFFICES ASSUME TypeOK, ElectionInv, [Next]_vars PROVE ElectionInv'
  OBVIOUS
<1> USE DEF serverVars, logVars, leaderVars, history
<1>1. ASSUME NEW n \in Server, HeartbeatTimeout(n) PROVE ElectionInv'
  <2> DEFINE out == {HeartbeatMsg(n, p, term[n], committed[n]) : p \in Peers[n]}
  <2>1. Exchange({}, out) /\ UNCHANGED <<term, vote, state, votes, ballots, elected>>
    BY <1>1 DEF HeartbeatTimeout
  <2>2. \A w \in out : w.type = "Heartbeat"
    BY DEF HeartbeatMsg
  <2> HIDE DEF out
  <2>3. NoVoteTraffic
    BY <2>1, <2>2, ExchangeVotes
  <2>4. QED
    BY <2>1, <2>3, ElectionFrame
<1>2. ASSUME NEW n \in Server, Restart(n) PROVE ElectionInv'
  BY <1>2 DEF TypeOK, Restart
<1>3. ASSUME NEW n \in Server, NEW v, NEW taken, HandleProposal(n, v, taken) PROVE ElectionInv'
  <2> DEFINE out == {AppendMsg(n, p, term[n], nextIndex[n][p],
                               AppendOne(log[n], term[n], v), committed[n]) : p \in Peers[n]}
  <2>1. Exchange(taken, out) /\ UNCHANGED <<term, vote, state, votes, ballots, elected>>
    BY <1>3 DEF HandleProposal
  <2>2. \A w \in out : w.type = "Append"
    BY DEF AppendMsg
  <2> HIDE DEF out
  <2>3. NoVoteTraffic
    BY <2>1, <2>2, ExchangeVotes
  <2>4. QED
    BY <2>1, <2>3, ElectionFrame
<1>4. ASSUME NEW n \in Server, NEW v \in Value, ProposeAtFollower(n, v) PROVE ElectionInv'
  <2>1. ProposeMsg(n, lead[n], term[n], v).type = "Propose"
    BY DEF ProposeMsg
  <2>2. /\ Exchange({}, {ProposeMsg(n, lead[n], term[n], v)})
        /\ UNCHANGED <<term, vote, state, votes, ballots, elected>>
    BY <1>4 DEF ProposeAtFollower
  <2>3. NoVoteTraffic
    BY <2>1, <2>2, ExchangeVotes
  <2>4. QED
    BY <2>2, <2>3, ElectionFrame
<1>5. ASSUME NEW m, Exchange({m}, {}) PROVE NoVoteTraffic
  BY <1>5, ExchangeVotes
<1>6. ASSUME NEW n \in Server, NEW m \in msgs, Deliver(n, m) PROVE ElectionInv'
  <2> m \in Message /\ m.from \in Server /\ m.term \in Nat /\ term[n] \in Nat
    BY MessageShape DEF TypeOK
  <2>1. ASSUME FollowSender(n, m), NoVoteTraffic, UNCHANGED <<votes, ballots, elected>>
        PROVE  ElectionInv'
    <3>1. /\ m.term >= term[n]
          /\ term' = [term EXCEPT ![n] = m.term]
          /\ vote' = [vote EXCEPT ![n] = IF m.term > term[n] THEN Nil ELSE @]
          /\ state' = [state EXCEPT ![n] = "Follower"]
      BY <2>1 DEF FollowSender
    <3>2. QED
      BY <2>1, <3>1, StepDownFrame
  <2>2. ASSUME m.term > term[n], term' = [term EXCEPT ![n] = m.term],
               vote' = [vote EXCEPT ![n] = Nil], state' = [state EXCEPT ![n] = "Follower"],
               NoVoteTraffic, UNCHANGED <<votes, ballots, elected>>
        PROVE  ElectionInv'
    <3>1. m.term >= term[n]
          /\ vote' = [vote EXCEPT ![n] = IF m.term > term[n] THEN Nil ELSE @]
      BY <2>2
    <3>2. QED
      BY <2>2, <3>1, StepDownFrame
  <2>3. CASE GrantVote(n, m)
    BY <2>3, GrantVoteElection
  <2>4. CASE RejectVote(n, m)
    <3>1. VoteRspMsg(n, m.from, term[n], FALSE).type = "VoteRsp"
          /\ ~VoteRspMsg(n, m.from, term[n], FALSE).granted
      BY DEF VoteRspMsg
    <3>2. /\ Exchange({m}, {VoteRspMsg(n, m.from, term[n], FALSE)})
          /\ UNCHANGED <<term, vote, state, votes, ballots, elected>>
      BY <2>4 DEF RejectVote
    <3>3. NoVoteTraffic
      BY <3>1, <3>2, ExchangeVotes
    <3>4. QED
      BY <3>2, <3>3, ElectionFrame
  <2>5. CASE HandleVoteGranted(n, m)
    BY <2>5, VoteGrantedElection
  <2>6. CASE HandleVoteDenied(n, m)
    <3>1. NoVoteTraffic
      BY <1>5, <2>6 DEF HandleVoteDenied
    <3>2. /\ votes' = [votes EXCEPT ![n] = @ \ {m.from}]
          /\ UNCHANGED <<term, vote, state, ballots, elected>>
      BY <2>6 DEF HandleVoteDenied
    <3>3. \A p \in Server : votes'[p] \subseteq votes[p]
      BY <3>2 DEF TypeOK
    <3>4. VotesWereCast'
      BY <3>2, <3>3 DEF ElectionInv, VotesWereCast
    <3>5. OneBallotPerTerm' /\ BallotsBind' /\ CandidatesVoteForThemselves' /\ WinsHaveMajority'
      BY <3>2 DEF ElectionInv, OneBallotPerTerm, BallotsBind, CandidatesVoteForThemselves,
                  WinsHaveMajority
    <3>6. RequestsGoToOthers' /\ GrantsWereCast'
      BY <3>1, <3>2 DEF ElectionInv, NoVoteTraffic, RequestsGoToOthers, GrantsWereCast
    <3>7. QED
      BY <3>4, <3>5, <3>6 DEF ElectionInv
  <2>7. CASE HandleHeartbeat(n, m)
    <3>1. HeartbeatRspMsg(n, m.from, m.term).type = "HeartbeatRsp"
      BY DEF HeartbeatRspMsg
    <3>2. NoVoteTraffic
      BY <2>7, <3>1, ExchangeVotes DEF HandleHeartbeat
    <3>3. QED
      BY <2>1, <2>7, <3>2 DEF HandleHeartbeat
  <2>8. CASE HandleAppendBehindCommit(n, m)
    <3>1. AppendRspMsg(n, m.from, m.term, committed[n], FALSE, 0).type = "AppendRsp"
      BY DEF AppendRspMsg
    <3>2. NoVoteTraffic
      BY <2>8, <3>1, ExchangeVotes DEF HandleAppendBehindCommit
    <3>3. QED
      BY <2>1, <2>8, <3>2 DEF HandleAppendBehindCommit
  <2>9. CASE HandleAppendReject(n, m)
    <3> DEFINE rsp == AppendRspMsg(n, m.from, m.term, 0, TRUE, FindConflict(log[n], m.prevIndex))
    <3>1. rsp.type = "AppendRsp" /\ Exchange({m}, {rsp})
      BY <2>9 DEF AppendRspMsg, HandleAppendReject
    <3> HIDE DEF rsp
    <3>2. NoVoteTraffic
      BY <3>1, ExchangeVotes
    <3>3. QED
      BY <2>1, <2>9, <3>2 DEF HandleAppendReject
  <2>10. CASE HandleAppendAccept(n, m)
    <3> DEFINE rsp == AppendRspMsg(n, m.from, m.term,
                                   LastIndex(AppendEntries(log[n], m.entries)), FALSE, 0)
    <3>1. rsp.type = "AppendRsp"
      BY DEF AppendRspMsg
    <3>2. Exchange({m}, {rsp})
      BY <2>10 DEF HandleAppendAccept
    <3> HIDE DEF rsp
    <3>3. NoVoteTraffic
      BY <3>1, <3>2, ExchangeVotes
    <3>4. QED
      BY <2>1, <2>10, <3>3 DEF HandleAppendAccept
  <2>11. CASE HandleHeartbeatRsp(n, m)
    <3> DEFINE out == IF matchIndex[n][m.from] < LastIndex(log[n])
                      THEN {AppendMsg(n, m.from, term[n], nextIndex[n][m.from],
                                      log[n], committed[n])}
                      ELSE {}
    <3>1. Exchange({m}, out) /\ UNCHANGED <<term, vote, state, votes, ballots, elected>>
      BY <2>11 DEF HandleHeartbeatRsp
    <3>2. \A w \in out : w.type = "Append"
      BY DEF AppendMsg
    <3> HIDE DEF out
    <3>3. QED
      BY <3>1, <3>2, ExchangeVotes, ElectionFrame
  <2>12. CASE HandleAppendSuccess(n, m)
    <3> DEFINE match == [matchIndex[n] EXCEPT ![m.from] = m.index]
               next  == IF pstate[n][m.from] = "Replicate"
                        THEN MaxOf(nextIndex[n][m.from], m.index + 1)
                        ELSE m.index + 1
               c     == MaybeCommit(n, log[n], match, committed[n], term[n])
               out   == IF m.index < LastIndex(log[n])
                        THEN {AppendMsg(n, m.from, term[n], next, log[n], c)}
                        ELSE {}
    <3>1. Exchange({m}, out) /\ UNCHANGED <<term, vote, state, votes, ballots, elected>>
      BY <2>12 DEF HandleAppendSuccess
    <3>2. \A w \in out : w.type = "Append"
      BY DEF AppendMsg
    <3> HIDE DEF out
    <3>3. QED
      BY <3>1, <3>2, ExchangeVotes, ElectionFrame
  <2>13. CASE HandleAppendRejected(n, m)
    <3> DEFINE next == MaybeDecrTo(n, m.from, m.index, m.conflict)
               out  == IF pstate[n][m.from] = "Replicate" \/ next < nextIndex[n][m.from]
                       THEN {AppendMsg(n, m.from, term[n], next, log[n], committed[n])}
                       ELSE {}
    <3>1. Exchange({m}, out) /\ UNCHANGED <<term, vote, state, votes, ballots, elected>>
      BY <2>13 DEF HandleAppendRejected
    <3>2. \A w \in out : w.type = "Append"
      BY DEF AppendMsg
    <3> HIDE DEF out
    <3>3. QED
      BY <3>1, <3>2, ExchangeVotes, ElectionFrame
  <2>14. CASE HandleForwardedProposal(n, m)
    BY <1>3, <2>14 DEF HandleForwardedProposal
  <2>15. CASE ForwardProposal(n, m)
    <3>1. [m EXCEPT !.to = lead[n]].type = "Propose"
      BY <2>15, MessageShape DEF ForwardProposal, ProposeMessage
    <3>2. /\ Exchange({m}, {[m EXCEPT !.to = lead[n]]})
          /\ UNCHANGED <<term, vote, state, votes, ballots, elected>>
      BY <2>15 DEF ForwardProposal
    <3>3. NoVoteTraffic
      BY <3>1, <3>2, ExchangeVotes
    <3>4. QED
      BY <3>2, <3>3, ElectionFrame
  <2>16. CASE ForwardHigherTermProposal(n, m)
    <3>1. [m EXCEPT !.to = m.from].type = "Propose"
      BY <2>16, MessageShape DEF ForwardHigherTermProposal, ProposeMessage
    <3>2. Exchange({m}, {[m EXCEPT !.to = m.from]})
      BY <2>16 DEF ForwardHigherTermProposal
    <3>3. NoVoteTraffic
      BY <3>1, <3>2, ExchangeVotes
    <3>4. QED
      BY <2>2, <2>16, <3>3 DEF ForwardHigherTermProposal
  <2>17. CASE HandleHigherTermRsp(n, m)
    <3>1. NoVoteTraffic
      BY <1>5, <2>17 DEF HandleHigherTermRsp
    <3>2. QED
      BY <2>2, <2>17, <3>1 DEF HandleHigherTermRsp
  <2>18. CASE Ignore(n, m)
    BY <1>5, <2>18, ElectionFrame DEF Ignore
  <2>19. QED
    BY <1>6, <2>3, <2>4, <2>5, <2>6, <2>7, <2>8, <2>9, <2>10, <2>11, <2>12, <2>13, <2>14,
       <2>15, <2>16, <2>17, <2>18 DEF Deliver
<1>7. ASSUME NEW m \in msgs, Lose(m) PROVE ElectionInv'
  BY <1>5, <1>7, ElectionFrame DEF Lose
<1>8. CASE UNCHANGED vars
  <2>1. NoVoteTraffic /\ UNCHANGED <<term, vote, state, votes, ballots, elected>>
    BY <1>8 DEF vars, NoVoteTraffic
  <2>2. QED
    BY <2>1, ElectionFrame
<1>9. ASSUME NEW n \in Server, NEW v \in Value, ProposeAtLeader(n, v) PROVE ElectionInv'
  BY <1>3, <1>9 DEF ProposeAtLeader
<1>10. ASSUME NEW n \in Server, Timeout(n) PROVE ElectionInv'
  BY <1>10, TimeoutElection
<1>11. QED
  BY <1>1, <1>2, <1>4, <1>6, <1>7, <1>8, <1>9, <1>10 DEF Next

\* Two majorities share a voter, and that voter cast one ballot.
LEMMA MajoritiesAgree == TypeOK /\ ElectionInv => ElectionSafety
<1> SUFFICES ASSUME TypeOK, ElectionInv, NEW a \in elected, NEW b \in elected, a.term = b.term
             PROVE  a.node = b.node
  BY DEF ElectionSafety
<1>1. PICK Q \in SUBSET Server :
        /\ Cardinality(Q) * 2 > Cardinality(Server)
        /\ \A v \in Q : [voter |-> v, term |-> a.term, cand |-> a.node] \in ballots
  BY DEF ElectionInv, WinsHaveMajority
<1>2. PICK R \in SUBSET Server :
        /\ Cardinality(R) * 2 > Cardinality(Server)
        /\ \A v \in R : [voter |-> v, term |-> b.term, cand |-> b.node] \in ballots
  BY DEF ElectionInv, WinsHaveMajority
<1>3. /\ Cardinality(Q) \in Nat /\ Cardinality(R) \in Nat /\ Cardinality(Server) \in Nat
  BY ServerAssumption, FS_Subset, FS_CardinalityType
<1>4. Cardinality(Q) + Cardinality(R) > Cardinality(Server)
  BY <1>1, <1>2, <1>3
<1>5. Q \cap R # {}
  BY <1>4, ServerAssumption, FS_MajoritiesIntersect
<1>6. PICK v : v \in Q /\ v \in R
  BY <1>5
<1>7. /\ [voter |-> v, term |-> a.term, cand |-> a.node] \in ballots
      /\ [voter |-> v, term |-> b.term, cand |-> b.node] \in ballots
  BY <1>1, <1>2, <1>6
<1>8. QED
  BY <1>7 DEF ElectionInv, OneBallotPerTerm

\* In a static cluster whose processes do not restart, no term ever has two
\* leaders: for any number of nodes, over either transport, whatever is lost or
\* reordered.
THEOREM ElectionSafe ==
    ASSUME StaticCluster, MaxRestarts = 0
    PROVE  Spec => []ElectionSafety
<1>1. Init => ElectionInv
  BY DEF Init, ElectionInv, OneBallotPerTerm, BallotsBind, CandidatesVoteForThemselves,
         RequestsGoToOthers, GrantsWereCast, VotesWereCast, WinsHaveMajority
<1>2. TypeOK /\ ElectionInv /\ [Next]_vars => ElectionInv'
  BY ElectionStep
<1>3. QED
  BY <1>1, <1>2, TypeCorrect, MajoritiesAgree, PTL DEF Spec

-----------------------------------------------------------------------------
(* Votes are never forgotten.  A request for a vote of a higher term clears     *)
(* neither vote nor lead (CanVote), so a node that has voted for somebody else  *)
(* votes for nobody but that one, or itself, ever after.                        *)

Majority(Q) == Q \in SUBSET Server /\ Cardinality(Q) * 2 > Cardinality(Server)

LEMMA MajoritiesMeet ==
    ASSUME NEW P, NEW Q, Majority(P), Majority(Q)
    PROVE  \E q \in Server : q \in P /\ q \in Q
<1>1. P \in SUBSET Server /\ Q \in SUBSET Server
  BY DEF Majority
<1>2. /\ Cardinality(P) \in Nat /\ Cardinality(Q) \in Nat /\ Cardinality(Server) \in Nat
  BY <1>1, ServerAssumption, FS_Subset, FS_CardinalityType
<1>3. Cardinality(P) + Cardinality(Q) > Cardinality(Server)
  BY <1>2 DEF Majority
<1>4. P \cap Q # {}
  BY <1>1, <1>3, ServerAssumption, FS_MajoritiesIntersect
<1>5. QED
  BY <1>1, <1>4

\* Who has voted can vote only for the same node again: its vote stands, or it
\* has gone to the node itself, or it follows a leader without a vote.
VotesStand ==
    \A b \in ballots : \/ vote[b.voter] \in {b.cand, b.voter}
                       \/ vote[b.voter] = Nil /\ lead[b.voter] # Nil

\* A later vote of a node goes where an earlier one went, or to the node itself.
VotesRepeat ==
    \A a, b \in ballots : a.voter = b.voter /\ a.term < b.term => b.cand \in {a.cand, b.voter}

\* Candidates, leaders and former leaders voted for themselves.
SelfVotes ==
    /\ \A n \in Server : state[n] # "Follower" =>
         [voter |-> n, term |-> term[n], cand |-> n] \in ballots
    /\ \A w \in elected : [voter |-> w.node, term |-> w.term, cand |-> w.node] \in ballots

\* No vote request, and no answer to one, is ahead of the node that asked.
RequestsReached ==
    \A m \in msgs : /\ m.type = "Vote" => m.term <= term[m.from]
                    /\ m.type = "VoteRsp" => m.term <= term[m.to]

VoteInv == VotesStand /\ VotesRepeat /\ SelfVotes /\ RequestsReached

NoVotesSent == \A w \in msgs' : w.type \in {"Vote", "VoteRsp"} => w \in msgs

LEMMA ExchangeQuiet ==
    ASSUME NEW taken, NEW out, Exchange(taken, out),
           \A m \in out : m.type \in {"Heartbeat", "HeartbeatRsp", "Append", "AppendRsp", "Propose"}
    PROVE  NoVotesSent
<1> SUFFICES ASSUME NEW w \in msgs', w \notin msgs PROVE w.type \notin {"Vote", "VoteRsp"}
  BY DEF NoVotesSent
<1>1. PICK m \in out : w \in OnWire(m)
  BY DEF Exchange
<1>2. w.type # "Vote" /\ (w.type = "VoteRsp" => w = m)
  BY <1>1, OnWireVotes
<1>3. QED
  BY <1>1, <1>2

\* n becomes a follower of a node it knows.
StepsDown(n) ==
    \E t \in Nat, l \in Server :
        /\ t >= term[n]
        /\ term' = [term EXCEPT ![n] = t]
        /\ vote' = [vote EXCEPT ![n] = IF t > term[n] THEN Nil ELSE @]
        /\ state' = [state EXCEPT ![n] = "Follower"]
        /\ lead' = [lead EXCEPT ![n] = l]
        /\ UNCHANGED <<ballots, elected>>

\* A step that neither casts nor counts a vote.
NoVote ==
    /\ NoVotesSent
    /\ \/ UNCHANGED <<term, vote, state, lead, ballots, elected>>
       \/ \E n \in Server : StepsDown(n)

LEMMA DeliverVotes ==
    ASSUME TypeOK, RequestsReached, NEW n \in Server, NEW m \in msgs, Deliver(n, m)
    PROVE  NoVote \/ GrantVote(n, m) \/ RejectVote(n, m) \/ HandleVoteGranted(n, m)
<1> USE DEF serverVars, logVars, leaderVars, history
<1> m \in Message /\ m.from \in Server /\ m.to \in Server /\ m.term \in Nat /\ term[n] \in Nat
  BY MessageShape DEF TypeOK
<1>1. ASSUME NEW out, Exchange({m}, out), UNCHANGED <<term, vote, state, lead, ballots, elected>>,
             \A w \in out : w.type \in {"Heartbeat", "HeartbeatRsp", "Append", "AppendRsp", "Propose"}
      PROVE  NoVote
  BY <1>1, ExchangeQuiet DEF NoVote
<1>2. ASSUME NEW out, Exchange({m}, out), FollowSender(n, m), UNCHANGED <<ballots, elected>>,
             \A w \in out : w.type \in {"Heartbeat", "HeartbeatRsp", "Append", "AppendRsp", "Propose"}
      PROVE  NoVote
  <2>1. StepsDown(n)
    BY <1>2 DEF FollowSender, StepsDown
  <2>2. NoVotesSent
    BY <1>2, ExchangeQuiet
  <2>3. QED
    BY <2>1, <2>2 DEF NoVote
<1>3. ASSUME NEW out, Exchange({m}, out), m.term > term[n], UNCHANGED <<ballots, elected>>,
             term' = [term EXCEPT ![n] = m.term], vote' = [vote EXCEPT ![n] = Nil],
             state' = [state EXCEPT ![n] = "Follower"], lead' = [lead EXCEPT ![n] = m.from],
             \A w \in out : w.type \in {"Heartbeat", "HeartbeatRsp", "Append", "AppendRsp", "Propose"}
      PROVE  NoVote
  <2>1. vote' = [vote EXCEPT ![n] = IF m.term > term[n] THEN Nil ELSE @] /\ m.term >= term[n]
    BY <1>3
  <2>2. StepsDown(n)
    BY <1>3, <2>1 DEF StepsDown
  <2>3. NoVotesSent
    BY <1>3, ExchangeQuiet
  <2>4. QED
    BY <2>2, <2>3 DEF NoVote
<1>4. CASE HandleVoteDenied(n, m)
  BY <1>1, <1>4 DEF HandleVoteDenied
<1>5. CASE HandleHeartbeat(n, m)
  <2>1. HeartbeatRspMsg(n, m.from, m.term).type = "HeartbeatRsp"
    BY DEF HeartbeatRspMsg
  <2>2. QED
    BY <1>2, <1>5, <2>1 DEF HandleHeartbeat
<1>6. CASE HandleAppendBehindCommit(n, m)
  <2>1. PICK rsp : rsp = AppendRspMsg(n, m.from, m.term, committed[n], FALSE, 0)
    OBVIOUS
  <2>2. rsp.type = "AppendRsp"
    BY <2>1 DEF AppendRspMsg
  <2>3. Exchange({m}, {rsp}) /\ FollowSender(n, m) /\ UNCHANGED <<ballots, elected>>
    BY <1>6, <2>1 DEF HandleAppendBehindCommit
  <2>4. QED
    BY <1>2, <2>2, <2>3
<1>7. CASE HandleAppendReject(n, m)
  <2>1. PICK rsp : rsp = AppendRspMsg(n, m.from, m.term, 0, TRUE, FindConflict(log[n], m.prevIndex))
    OBVIOUS
  <2>2. rsp.type = "AppendRsp"
    BY <2>1 DEF AppendRspMsg
  <2>3. Exchange({m}, {rsp}) /\ FollowSender(n, m) /\ UNCHANGED <<ballots, elected>>
    BY <1>7, <2>1 DEF HandleAppendReject
  <2>4. QED
    BY <1>2, <2>2, <2>3
<1>8. CASE HandleAppendAccept(n, m)
  <2>1. PICK rsp : rsp = AppendRspMsg(n, m.from, m.term,
                                      LastIndex(AppendEntries(log[n], m.entries)), FALSE, 0)
    OBVIOUS
  <2>2. rsp.type = "AppendRsp"
    BY <2>1 DEF AppendRspMsg
  <2>3. Exchange({m}, {rsp}) /\ FollowSender(n, m) /\ UNCHANGED <<ballots, elected>>
    BY <1>8, <2>1 DEF HandleAppendAccept
  <2>4. QED
    BY <1>2, <2>2, <2>3
<1>9. CASE HandleHeartbeatRsp(n, m)
  <2>1. PICK w : w = AppendMsg(n, m.from, term[n], nextIndex[n][m.from], log[n], committed[n])
    OBVIOUS
  <2>2. w.type = "Append"
    BY <2>1 DEF AppendMsg
  <2>3. /\ Exchange({m}, {w}) \/ Exchange({m}, {})
        /\ UNCHANGED <<term, vote, state, lead, ballots, elected>>
    BY <1>9, <2>1 DEF HandleHeartbeatRsp
  <2>4. QED
    BY <1>1, <2>2, <2>3
<1>10. CASE HandleAppendSuccess(n, m)
  <2>1. PICK next, c : /\ \/ Exchange({m}, {AppendMsg(n, m.from, term[n], next, log[n], c)})
                          \/ Exchange({m}, {})
                       /\ UNCHANGED <<term, vote, state, lead, ballots, elected>>
    BY <1>10 DEF HandleAppendSuccess
  <2>2. PICK w : w = AppendMsg(n, m.from, term[n], next, log[n], c)
    OBVIOUS
  <2>3. w.type = "Append"
    BY <2>2 DEF AppendMsg
  <2>4. QED
    BY <1>1, <2>1, <2>2, <2>3
<1>11. CASE HandleAppendRejected(n, m)
  <2>1. PICK next : /\ \/ Exchange({m}, {AppendMsg(n, m.from, term[n], next, log[n], committed[n])})
                       \/ Exchange({m}, {})
                    /\ UNCHANGED <<term, vote, state, lead, ballots, elected>>
    BY <1>11 DEF HandleAppendRejected
  <2>2. PICK w : w = AppendMsg(n, m.from, term[n], next, log[n], committed[n])
    OBVIOUS
  <2>3. w.type = "Append"
    BY <2>2 DEF AppendMsg
  <2>4. QED
    BY <1>1, <2>1, <2>2, <2>3
<1>12. CASE HandleForwardedProposal(n, m)
  <2>1. PICK out : out = {AppendMsg(n, p, term[n], nextIndex[n][p],
                                    AppendOne(log[n], term[n], m.cmd), committed[n]) : p \in Peers[n]}
    OBVIOUS
  <2>2. \A w \in out : w.type = "Append"
    BY <2>1 DEF AppendMsg
  <2>3. Exchange({m}, out) /\ UNCHANGED <<term, vote, state, lead, ballots, elected>>
    BY <1>12, <2>1 DEF HandleForwardedProposal, HandleProposal
  <2>4. QED
    BY <1>1, <2>2, <2>3
<1>13. CASE ForwardProposal(n, m)
  <2>1. m.type = "Propose" /\ m \in ProposeMessage
    BY <1>13, MessageShape DEF ForwardProposal
  <2>2. PICK w : w = [m EXCEPT !.to = lead[n]]
    OBVIOUS
  <2>3. w.type = "Propose"
    BY <2>1, <2>2 DEF ProposeMessage
  <2>4. Exchange({m}, {w}) /\ UNCHANGED <<term, vote, state, lead, ballots, elected>>
    BY <1>13, <2>2 DEF ForwardProposal
  <2>5. QED
    BY <1>1, <2>3, <2>4
<1>14. CASE ForwardHigherTermProposal(n, m)
  <2>1. m.type = "Propose" /\ m \in ProposeMessage
    BY <1>14, MessageShape DEF ForwardHigherTermProposal
  <2>2. PICK w : w = [m EXCEPT !.to = m.from]
    OBVIOUS
  <2>3. w.type = "Propose"
    BY <2>1, <2>2 DEF ProposeMessage
  <2>4. /\ Exchange({m}, {w}) /\ m.term > term[n] /\ UNCHANGED <<ballots, elected>>
        /\ term' = [term EXCEPT ![n] = m.term] /\ vote' = [vote EXCEPT ![n] = Nil]
        /\ state' = [state EXCEPT ![n] = "Follower"] /\ lead' = [lead EXCEPT ![n] = m.from]
    BY <1>14, <2>2 DEF ForwardHigherTermProposal
  <2>5. \A x \in {w} : x.type = "Propose"
    BY <2>3
  <2>6. QED
    BY <1>3, <2>4, <2>5
<1>15. CASE HandleHigherTermRsp(n, m)
  <2>1. m.type # "VoteRsp"
    BY <1>15 DEF HandleHigherTermRsp, RequestsReached
  <2>2. /\ Exchange({m}, {}) /\ m.term > term[n] /\ UNCHANGED <<ballots, elected>>
        /\ term' = [term EXCEPT ![n] = m.term] /\ vote' = [vote EXCEPT ![n] = Nil]
        /\ state' = [state EXCEPT ![n] = "Follower"] /\ lead' = [lead EXCEPT ![n] = m.from]
    BY <1>15, <2>1 DEF HandleHigherTermRsp
  <2>3. \A x \in {} : x.type = "Propose"
    OBVIOUS
  <2>4. QED
    BY <1>3, <2>2, <2>3
<1>16. CASE Ignore(n, m)
  BY <1>1, <1>16 DEF Ignore
<1>17. QED
  BY <1>4, <1>5, <1>6, <1>7, <1>8, <1>9, <1>10, <1>11, <1>12, <1>13, <1>14, <1>15, <1>16
  DEF Deliver

LEMMA VoteSteps ==
    ASSUME TypeOK, RequestsReached, MaxRestarts = 0, [Next]_vars
    PROVE  \/ NoVote
           \/ \E n \in Server :
                \/ Timeout(n)
                \/ \E m \in msgs : GrantVote(n, m) \/ RejectVote(n, m) \/ HandleVoteGranted(n, m)
<1> USE DEF serverVars, logVars, leaderVars, history
<1>1. ASSUME NEW taken, NEW out, Exchange(taken, out),
             UNCHANGED <<term, vote, state, lead, ballots, elected>>,
             \A w \in out : w.type \in {"Heartbeat", "HeartbeatRsp", "Append", "AppendRsp", "Propose"}
      PROVE  NoVote
  BY <1>1, ExchangeQuiet DEF NoVote
<1>2. CASE UNCHANGED vars
  BY <1>2 DEF vars, NoVote, NoVotesSent
<1>3. ASSUME NEW n \in Server, HeartbeatTimeout(n) PROVE NoVote
  <2>1. PICK out : out = {HeartbeatMsg(n, p, term[n], committed[n]) : p \in Peers[n]}
    OBVIOUS
  <2>2. \A w \in out : w.type = "Heartbeat"
    BY <2>1 DEF HeartbeatMsg
  <2>3. Exchange({}, out) /\ UNCHANGED <<term, vote, state, lead, ballots, elected>>
    BY <1>3, <2>1 DEF HeartbeatTimeout
  <2>4. QED
    BY <1>1, <2>2, <2>3
<1>4. ASSUME NEW n \in Server, Restart(n) PROVE FALSE
  BY <1>4 DEF TypeOK, Restart
<1>5. ASSUME NEW n \in Server, NEW v \in Value, ProposeAtLeader(n, v) PROVE NoVote
  <2>1. PICK out : out = {AppendMsg(n, p, term[n], nextIndex[n][p],
                                    AppendOne(log[n], term[n], v), committed[n]) : p \in Peers[n]}
    OBVIOUS
  <2>2. \A w \in out : w.type = "Append"
    BY <2>1 DEF AppendMsg
  <2>3. Exchange({}, out) /\ UNCHANGED <<term, vote, state, lead, ballots, elected>>
    BY <1>5, <2>1 DEF ProposeAtLeader, HandleProposal
  <2>4. QED
    BY <1>1, <2>2, <2>3
<1>6. ASSUME NEW n \in Server, NEW v \in Value, ProposeAtFollower(n, v) PROVE NoVote
  <2>1. PICK w : w = ProposeMsg(n, lead[n], term[n], v)
    OBVIOUS
  <2>2. w.type = "Propose"
    BY <2>1 DEF ProposeMsg
  <2>3. Exchange({}, {w}) /\ UNCHANGED <<term, vote, state, lead, ballots, elected>>
    BY <1>6, <2>1 DEF ProposeAtFollower
  <2>4. QED
    BY <1>1, <2>2, <2>3
<1>7. ASSUME NEW m \in msgs, Lose(m) PROVE NoVote
  BY <1>1, <1>7 DEF Lose
<1>8. QED
  BY <1>2, <1>3, <1>4, <1>5, <1>6, <1>7, DeliverVotes DEF Next

\* Steps in which nobody votes and nobody wins.
LEMMA NoVoteStep ==
    ASSUME TypeOK, VoteInv, NoVote
    PROVE  VoteInv'
<1>1. CASE UNCHANGED <<term, vote, state, lead, ballots, elected>>
  <2>1. VotesStand' /\ VotesRepeat' /\ SelfVotes'
    BY <1>1 DEF VoteInv, VotesStand, VotesRepeat, SelfVotes
  <2>2. RequestsReached'
    BY <1>1 DEF VoteInv, NoVote, NoVotesSent, RequestsReached
  <2>3. QED
    BY <2>1, <2>2 DEF VoteInv
<1>2. ASSUME NEW n \in Server, StepsDown(n) PROVE VoteInv'
  <2>1. PICK t \in Nat, l \in Server :
          /\ t >= term[n]
          /\ term' = [term EXCEPT ![n] = t]
          /\ vote' = [vote EXCEPT ![n] = IF t > term[n] THEN Nil ELSE @]
          /\ state' = [state EXCEPT ![n] = "Follower"]
          /\ lead' = [lead EXCEPT ![n] = l]
          /\ UNCHANGED <<ballots, elected>>
    BY <1>2 DEF StepsDown
  <2>2. /\ term'[n] = t /\ state'[n] = "Follower" /\ lead'[n] = l /\ l # Nil
        /\ vote'[n] = Nil \/ vote'[n] = vote[n]
        /\ \A p \in Server \ {n} : /\ term'[p] = term[p] /\ state'[p] = state[p]
                                   /\ lead'[p] = lead[p] /\ vote'[p] = vote[p]
    BY <2>1, ServerAssumption DEF TypeOK
  <2>3. VotesStand'
    <3>1. ASSUME NEW b \in ballots
          PROVE  \/ vote'[b.voter] \in {b.cand, b.voter}
                 \/ vote'[b.voter] = Nil /\ lead'[b.voter] # Nil
      <4>1. b.voter \in Server
        BY DEF TypeOK, Ballot
      <4>2. \/ vote[b.voter] \in {b.cand, b.voter}
            \/ vote[b.voter] = Nil /\ lead[b.voter] # Nil
        BY DEF VoteInv, VotesStand
      <4>3. QED
        BY <2>2, <4>1, <4>2
    <3>2. QED
      BY <2>1, <3>1 DEF VotesStand
  <2>4. VotesRepeat'
    BY <2>1 DEF VoteInv, VotesRepeat
  <2>5. SelfVotes'
    BY <2>1, <2>2 DEF VoteInv, SelfVotes
  <2>6. RequestsReached'
    <3>1. \A p \in Server : term[p] \in Nat /\ term'[p] \in Nat /\ term'[p] >= term[p]
      <4>1. \A p \in Server : term[p] \in Nat
        BY DEF TypeOK
      <4>2. QED
        BY <2>1, <2>2, <4>1
    <3>2. ASSUME NEW m \in msgs'
          PROVE  /\ m.type = "Vote" => m.term <= term'[m.from]
                 /\ m.type = "VoteRsp" => m.term <= term'[m.to]
      <4>1. CASE m \in msgs
        <5>1. m.from \in Server /\ m.to \in Server /\ m.term \in Nat
          BY <4>1, MessageShape DEF TypeOK
        <5>2. /\ m.type = "Vote" => m.term <= term[m.from]
              /\ m.type = "VoteRsp" => m.term <= term[m.to]
          BY <4>1 DEF VoteInv, RequestsReached
        <5>3. QED
          BY <3>1, <5>1, <5>2
      <4>2. CASE m \notin msgs
        BY <4>2 DEF NoVote, NoVotesSent
      <4>3. QED
        BY <4>1, <4>2
    <3>3. QED
      BY <3>2 DEF RequestsReached
  <2>7. QED
    BY <2>3, <2>4, <2>5, <2>6 DEF VoteInv
<1>3. QED
  BY <1>1, <1>2 DEF NoVote

\* A message of the old state stays behind the terms, which only grow.
LEMMA ReachedStays ==
    ASSUME TypeOK, TypeOK', RequestsReached, \A p \in Server : term'[p] >= term[p],
           NEW m \in msgs
    PROVE  /\ m.type = "Vote" => m.term <= term'[m.from]
           /\ m.type = "VoteRsp" => m.term <= term'[m.to]
<1>1. m.from \in Server /\ m.to \in Server /\ m.term \in Nat
  BY MessageShape DEF TypeOK
<1>2. \A p \in Server : term[p] \in Nat /\ term'[p] \in Nat
  BY DEF TypeOK
<1>3. QED
  BY <1>1, <1>2 DEF RequestsReached

\* Casting a vote the standing rules allow.
LEMMA CastStands ==
    ASSUME TypeOK, TypeOK', ElectionInv, VoteInv, NEW n \in Server, NEW t \in Nat, NEW c \in Server,
           t >= term[n],
           c = n \/ vote[n] = c \/ (vote[n] = Nil /\ lead[n] = Nil),
           vote' = [vote EXCEPT ![n] = c],
           \A p \in Server \ {n} : lead'[p] = lead[p],
           ballots' = ballots \cup {[voter |-> n, term |-> t, cand |-> c]}
    PROVE  VotesStand' /\ VotesRepeat'
<1>1. vote'[n] = c /\ \A p \in Server \ {n} : vote'[p] = vote[p]
  BY DEF TypeOK
<1>2. \A b \in ballots : b.voter \in Server /\ b.term \in Nat /\ b.cand \in Server
  BY DEF TypeOK, Ballot
<1>3. \A b \in ballots : \/ vote[b.voter] \in {b.cand, b.voter}
                         \/ vote[b.voter] = Nil /\ lead[b.voter] # Nil
  BY DEF VoteInv, VotesStand
<1>4. \A b \in ballots : b.voter = n => c \in {b.cand, n}
  <2> SUFFICES ASSUME NEW b \in ballots, b.voter = n PROVE c \in {b.cand, n}
    OBVIOUS
  <2>1. vote[n] = b.cand \/ vote[n] = n \/ (vote[n] = Nil /\ lead[n] # Nil)
    BY <1>3
  <2>2. c # Nil /\ n # Nil /\ b.cand # Nil
    BY <1>2, ServerAssumption
  <2>3. QED
    BY <2>1, <2>2
<1>5. VotesStand'
  <2>1. ASSUME NEW b \in ballots'
        PROVE  \/ vote'[b.voter] \in {b.cand, b.voter}
               \/ vote'[b.voter] = Nil /\ lead'[b.voter] # Nil
    <3>1. CASE b \in ballots /\ b.voter = n
      BY <1>1, <1>4, <3>1
    <3>2. CASE b \in ballots /\ b.voter # n
      BY <1>1, <1>2, <1>3, <3>2
    <3>3. CASE b = [voter |-> n, term |-> t, cand |-> c]
      BY <1>1, <3>3
    <3>4. QED
      BY <3>1, <3>2, <3>3
  <2>2. QED
    BY <2>1 DEF VotesStand
<1>6. VotesRepeat'
  <2>1. ASSUME NEW a \in ballots', NEW b \in ballots', a.voter = b.voter, a.term < b.term
        PROVE  b.cand \in {a.cand, b.voter}
    <3>1. CASE a \in ballots /\ b \in ballots
      BY <2>1, <3>1 DEF VoteInv, VotesRepeat
    <3>2. CASE b = [voter |-> n, term |-> t, cand |-> c]
      <4>1. a # b
        BY <2>1, <3>2
      <4>2. a \in ballots
        BY <3>2, <4>1
      <4>3. QED
        BY <1>4, <2>1, <3>2, <4>2
    <3>3. CASE a = [voter |-> n, term |-> t, cand |-> c] /\ b \in ballots
      <4>1. b.term <= term[b.voter]
        BY <3>3 DEF ElectionInv, BallotsBind
      <4>2. b.voter = n /\ b.term > t /\ b.term \in Nat /\ term[n] \in Nat
        BY <1>2, <2>1, <3>3 DEF TypeOK
      <4>3. QED
        BY <4>1, <4>2
    <3>4. QED
      BY <3>1, <3>2, <3>3
  <2>2. QED
    BY <2>1 DEF VotesRepeat
<1>7. QED
  BY <1>5, <1>6

LEMMA TimeoutVotes ==
    ASSUME TypeOK, TypeOK', ElectionInv, VoteInv, NEW n \in Server, Timeout(n)
    PROVE  VoteInv'
<1>1. PICK t \in Nat : t = term[n] + 1
  BY DEF TypeOK
<1>2. term[n] \in Nat /\ t > term[n]
  BY <1>1 DEF TypeOK
<1>3. /\ term' = [term EXCEPT ![n] = t]
      /\ vote' = [vote EXCEPT ![n] = n]
      /\ ballots' = ballots \cup {[voter |-> n, term |-> t, cand |-> n]}
  BY <1>1 DEF Timeout
<1>4. \A p \in Server \ {n} : state'[p] = state[p] /\ lead'[p] = lead[p] /\ term'[p] = term[p]
  <2>1. PICK x, y : state' = [state EXCEPT ![n] = x] /\ lead' = [lead EXCEPT ![n] = y]
    BY DEF Timeout, BecomeLeader
  <2>2. QED
    BY <1>3, <2>1 DEF TypeOK
<1>5. term'[n] = t /\ \A p \in Server : term'[p] >= term[p]
  <2>1. \A p \in Server : term[p] \in Nat
    BY DEF TypeOK
  <2>2. term'[n] = t
    BY <1>3 DEF TypeOK
  <2>3. QED
    BY <1>2, <1>4, <2>1, <2>2
<1>6. VotesStand' /\ VotesRepeat'
  <2>1. t >= term[n]
    BY <1>2
  <2>2. \A p \in Server \ {n} : lead'[p] = lead[p]
    BY <1>4
  <2>3. QED
    BY <1>3, <2>1, <2>2, CastStands
<1>7. elected' \subseteq elected \cup {[term |-> t, node |-> n]}
  BY <1>1 DEF Timeout, BecomeLeader
<1>8. SelfVotes'
  <2>1. ASSUME NEW p \in Server, state'[p] # "Follower"
        PROVE  [voter |-> p, term |-> term'[p], cand |-> p] \in ballots'
    <3>1. CASE p = n
      BY <1>3, <1>5, <3>1
    <3>2. CASE p # n
      BY <1>3, <1>4, <2>1, <3>2 DEF VoteInv, SelfVotes
    <3>3. QED
      BY <3>1, <3>2
  <2>2. ASSUME NEW w \in elected'
        PROVE  [voter |-> w.node, term |-> w.term, cand |-> w.node] \in ballots'
    <3>1. CASE w \in elected
      BY <1>3, <3>1 DEF VoteInv, SelfVotes
    <3>2. CASE w = [term |-> t, node |-> n]
      BY <1>3, <3>2
    <3>3. QED
      BY <1>7, <3>1, <3>2
  <2>3. QED
    BY <2>1, <2>2 DEF SelfVotes
<1>9. RequestsReached'
  <2>1. ASSUME NEW w \in msgs'
        PROVE  /\ w.type = "Vote" => w.term <= term'[w.from]
               /\ w.type = "VoteRsp" => w.term <= term'[w.to]
    <3>1. CASE w \in msgs
      <4>1. RequestsReached
        BY DEF VoteInv
      <4>2. QED
        BY <1>5, <3>1, <4>1, ReachedStays
    <3>2. CASE w \notin msgs
      <4>1. Exchange({}, {VoteMsg(n, p, t, log[n]) : p \in Peers[n]})
        BY <1>1, <3>2 DEF Timeout
      <4>2. PICK p \in Peers[n] : w \in OnWire(VoteMsg(n, p, t, log[n]))
        BY <3>2, <4>1 DEF Exchange
      <4>3. \/ w = VoteMsg(n, p, t, log[n])
            \/ w = VoteMsg(n, p, t, <<>>)
        BY <4>2 DEF OnWire, VoteMsg
      <4>4. w.type = "Vote" /\ w.from = n /\ w.term = t
        BY <4>3 DEF VoteMsg
      <4>5. QED
        BY <1>5, <4>4
    <3>3. QED
      BY <3>1, <3>2
  <2>2. QED
    BY <2>1 DEF RequestsReached
<1>10. QED
  BY <1>6, <1>8, <1>9 DEF VoteInv

\* A node grants a vote, or denies it.
LEMMA AnswerVotes ==
    ASSUME TypeOK, TypeOK', ElectionInv, VoteInv, NEW n \in Server, NEW m \in msgs,
           GrantVote(n, m) \/ RejectVote(n, m)
    PROVE  VoteInv'
<1>1. m.from \in Server /\ m.to = n /\ m.term \in Nat /\ m.from # n /\ m.term >= term[n]
      /\ m.term <= term[m.from] /\ term[n] \in Nat /\ term[m.from] \in Nat
  BY MessageShape
  DEF TypeOK, GrantVote, RejectVote, ElectionInv, RequestsGoToOthers, VoteInv, RequestsReached
<1>2. PICK t \in Nat, g \in BOOLEAN : Exchange({m}, {VoteRspMsg(n, m.from, t, g)}) /\ t <= m.term
  <2>1. CASE GrantVote(n, m)
    <3>1. m.term \in Nat /\ m.term <= m.term /\ TRUE \in BOOLEAN
          /\ Exchange({m}, {VoteRspMsg(n, m.from, m.term, TRUE)})
      BY <1>1, <2>1 DEF GrantVote
    <3>2. QED
      BY <3>1
  <2>2. CASE RejectVote(n, m)
    <3>1. term[n] \in Nat /\ term[n] <= m.term /\ FALSE \in BOOLEAN
          /\ Exchange({m}, {VoteRspMsg(n, m.from, term[n], FALSE)})
      BY <1>1, <2>2 DEF RejectVote
    <3>2. QED
      BY <3>1
  <2>3. QED
    BY <2>1, <2>2
<1>3. ASSUME \A p \in Server : term'[p] >= term[p] PROVE RequestsReached'
  <2>1. ASSUME NEW w \in msgs'
        PROVE  /\ w.type = "Vote" => w.term <= term'[w.from]
               /\ w.type = "VoteRsp" => w.term <= term'[w.to]
    <3>1. CASE w \in msgs
      <4>1. RequestsReached
        BY DEF VoteInv
      <4>2. QED
        BY <1>3, <3>1, <4>1, ReachedStays
    <3>2. CASE w \notin msgs
      <4>1. w \in OnWire(VoteRspMsg(n, m.from, t, g))
        BY <1>2, <3>2 DEF Exchange
      <4>2. w = VoteRspMsg(n, m.from, t, g)
        BY <4>1 DEF OnWire, VoteRspMsg
      <4>3. w.type = "VoteRsp" /\ w.to = m.from /\ w.term = t
        BY <4>2 DEF VoteRspMsg
      <4>4. term'[m.from] >= term[m.from] /\ term'[m.from] \in Nat
        BY <1>1, <1>3 DEF TypeOK
      <4>5. QED
        BY <1>1, <1>2, <4>3, <4>4
    <3>3. QED
      BY <3>1, <3>2
  <2>2. QED
    BY <2>1 DEF RequestsReached
<1>4. CASE RejectVote(n, m)
  <2>1. UNCHANGED <<term, vote, state, lead, ballots, elected>>
    BY <1>4 DEF RejectVote, serverVars, history
  <2>2. VotesStand' /\ VotesRepeat' /\ SelfVotes'
    BY <2>1 DEF VoteInv, VotesStand, VotesRepeat, SelfVotes
  <2>3. \A p \in Server : term'[p] >= term[p]
    BY <2>1 DEF TypeOK
  <2>4. QED
    BY <1>3, <2>2, <2>3 DEF VoteInv
<1>5. CASE GrantVote(n, m)
  <2>1. /\ term' = [term EXCEPT ![n] = m.term]
        /\ vote' = [vote EXCEPT ![n] = m.from]
        /\ ballots' = ballots \cup {[voter |-> n, term |-> m.term, cand |-> m.from]}
        /\ UNCHANGED <<state, lead, elected>>
        /\ vote[n] = m.from \/ (vote[n] = Nil /\ lead[n] = Nil)
    BY <1>5 DEF GrantVote, CanVote
  <2>2. VotesStand' /\ VotesRepeat'
    BY <1>1, <2>1, CastStands
  <2>3. /\ term'[n] = m.term
        /\ \A p \in Server \ {n} : term'[p] = term[p]
    BY <2>1 DEF TypeOK
  <2>4. \A p \in Server : term'[p] >= term[p]
    <3>1. \A p \in Server : term[p] \in Nat
      BY DEF TypeOK
    <3>2. QED
      BY <1>1, <2>3, <3>1
  <2>5. state[n] = "Follower"
    <3>1. vote[n] # n
      BY <1>1, <2>1, ServerAssumption
    <3>2. QED
      BY <3>1 DEF ElectionInv, CandidatesVoteForThemselves
  <2>6. SelfVotes'
    <3>1. ASSUME NEW p \in Server, state'[p] # "Follower"
          PROVE  [voter |-> p, term |-> term'[p], cand |-> p] \in ballots'
      <4>1. p # n /\ state[p] # "Follower" /\ term'[p] = term[p]
        BY <2>1, <2>3, <2>5, <3>1
      <4>2. QED
        BY <2>1, <4>1 DEF VoteInv, SelfVotes
    <3>2. \A w \in elected' : [voter |-> w.node, term |-> w.term, cand |-> w.node] \in ballots'
      BY <2>1 DEF VoteInv, SelfVotes
    <3>3. QED
      BY <3>1, <3>2 DEF SelfVotes
  <2>7. QED
    BY <1>3, <2>2, <2>4, <2>6 DEF VoteInv
<1>6. QED
  BY <1>4, <1>5

LEMMA WinVotes ==
    ASSUME TypeOK, TypeOK', ElectionInv, VoteInv, NEW n \in Server, NEW m \in msgs,
           HandleVoteGranted(n, m)
    PROVE  VoteInv'
<1>1. /\ state[n] = "Candidate"
      /\ UNCHANGED <<term, vote, ballots>>
      /\ elected' \subseteq elected \cup {[term |-> term[n], node |-> n]}
  BY DEF HandleVoteGranted, BecomeLeader
<1>2. vote[n] = n
  BY <1>1 DEF ElectionInv, CandidatesVoteForThemselves
<1>3. \A p \in Server \ {n} : state'[p] = state[p] /\ lead'[p] = lead[p]
  <2>1. CASE UNCHANGED <<state, lead>>
    BY <2>1
  <2>2. CASE BecomeLeader(n, term[n])
    BY <2>2 DEF TypeOK, BecomeLeader
  <2>3. QED
    BY <2>1, <2>2 DEF HandleVoteGranted
<1>4. VotesStand'
  <2>1. ASSUME NEW b \in ballots
        PROVE  \/ vote[b.voter] \in {b.cand, b.voter}
               \/ vote[b.voter] = Nil /\ lead'[b.voter] # Nil
    <3>1. b.voter \in Server
      BY DEF TypeOK, Ballot
    <3>2. \/ vote[b.voter] \in {b.cand, b.voter}
          \/ vote[b.voter] = Nil /\ lead[b.voter] # Nil
      BY DEF VoteInv, VotesStand
    <3>3. QED
      BY <1>2, <1>3, <3>1, <3>2
  <2>2. QED
    BY <1>1, <2>1 DEF VotesStand
<1>5. VotesRepeat'
  BY <1>1 DEF VoteInv, VotesRepeat
<1>6. SelfVotes'
  <2>1. [voter |-> n, term |-> term[n], cand |-> n] \in ballots
    BY <1>1 DEF VoteInv, SelfVotes
  <2>2. ASSUME NEW w \in elected'
        PROVE  [voter |-> w.node, term |-> w.term, cand |-> w.node] \in ballots
    <3>1. CASE w \in elected
      BY <3>1 DEF VoteInv, SelfVotes
    <3>2. CASE w = [term |-> term[n], node |-> n]
      BY <2>1, <3>2
    <3>3. QED
      BY <1>1, <3>1, <3>2
  <2>3. ASSUME NEW p \in Server, state'[p] # "Follower"
        PROVE  [voter |-> p, term |-> term[p], cand |-> p] \in ballots
    BY <1>3, <2>1, <2>3 DEF VoteInv, SelfVotes
  <2>4. QED
    BY <1>1, <2>2, <2>3 DEF SelfVotes
<1>7. NoVotesSent
  <2>1. PICK out : out = {HeartbeatMsg(n, p, term[n], committed[n]) : p \in Peers[n]}
    OBVIOUS
  <2>2. \A w \in out : w.type = "Heartbeat"
    BY <2>1 DEF HeartbeatMsg
  <2>3. Exchange({m}, out) \/ Exchange({m}, {})
    BY <2>1 DEF HandleVoteGranted
  <2>4. QED
    BY <2>2, <2>3, ExchangeQuiet
<1>8. RequestsReached'
  BY <1>1, <1>7 DEF VoteInv, NoVotesSent, RequestsReached
<1>9. QED
  BY <1>4, <1>5, <1>6, <1>8 DEF VoteInv

LEMMA VoteStep ==
    ASSUME MaxRestarts = 0
    PROVE  TypeOK /\ TypeOK' /\ ElectionInv /\ VoteInv /\ [Next]_vars => VoteInv'
<1> SUFFICES ASSUME TypeOK, TypeOK', ElectionInv, VoteInv, [Next]_vars PROVE VoteInv'
  OBVIOUS
<1>1. RequestsReached
  BY DEF VoteInv
<1>2. QED
  BY <1>1, VoteSteps, NoVoteStep, TimeoutVotes, AnswerVotes, WinVotes

\* With three leaders of different terms, one of the first two or the last two
\* elections was won by the same node: the voters two majorities share would
\* otherwise have had to change their vote.
LEMMA LeadersRepeat ==
    ASSUME TypeOK, ElectionInv, VoteInv, NEW a \in elected, NEW b \in elected, NEW c \in elected,
           a.term < b.term, b.term < c.term
    PROVE  b.node = a.node \/ c.node = b.node
<1> SUFFICES ASSUME b.node # a.node, c.node # b.node PROVE FALSE
  OBVIOUS
<1>0. \A w \in elected : w.term \in Nat /\ w.node \in Server
  BY DEF TypeOK, Win
<1>1. \A w \in elected : \E Q \in SUBSET Server :
        /\ Majority(Q)
        /\ \A v \in Q : [voter |-> v, term |-> w.term, cand |-> w.node] \in ballots
  BY DEF ElectionInv, WinsHaveMajority, Majority
<1>2. \A w \in elected : [voter |-> w.node, term |-> w.term, cand |-> w.node] \in ballots
  BY DEF VoteInv, SelfVotes
<1>3. ASSUME NEW q, NEW s \in Nat, NEW t \in Nat, NEW x, NEW y, s < t,
             [voter |-> q, term |-> s, cand |-> x] \in ballots,
             [voter |-> q, term |-> t, cand |-> y] \in ballots
      PROVE  y = x \/ y = q
  <2>1. PICK f \in ballots, g \in ballots : /\ f = [voter |-> q, term |-> s, cand |-> x]
                                            /\ g = [voter |-> q, term |-> t, cand |-> y]
    BY <1>3
  <2>2. f.voter = g.voter /\ f.term < g.term /\ f.cand = x /\ g.cand = y /\ g.voter = q
    BY <1>3, <2>1
  <2>3. QED
    BY <2>2 DEF VoteInv, VotesRepeat
<1>4. PICK A \in SUBSET Server : /\ Majority(A)
        /\ \A v \in A : [voter |-> v, term |-> a.term, cand |-> a.node] \in ballots
  BY <1>1
<1>5. PICK B \in SUBSET Server : /\ Majority(B)
        /\ \A v \in B : [voter |-> v, term |-> b.term, cand |-> b.node] \in ballots
  BY <1>1
<1>6. PICK C \in SUBSET Server : /\ Majority(C)
        /\ \A v \in C : [voter |-> v, term |-> c.term, cand |-> c.node] \in ballots
  BY <1>1
\* c voted for b
<1>7. [voter |-> c.node, term |-> b.term, cand |-> b.node] \in ballots
  <2>1. PICK q \in Server : q \in B /\ q \in C
    BY <1>5, <1>6, MajoritiesMeet
  <2>2. c.node = b.node \/ c.node = q
    BY <1>0, <1>3, <1>5, <1>6, <2>1
  <2>3. QED
    BY <1>5, <2>1, <2>2
<1>8. PICK q \in Server : q \in A /\ q \in C
  BY <1>4, <1>6, MajoritiesMeet
<1>9. a.term < c.term
  BY <1>0
<1>10. c.node = a.node \/ c.node = q
  BY <1>0, <1>3, <1>4, <1>6, <1>8, <1>9
\* either way c voted for a before it voted for b
<1>11. [voter |-> c.node, term |-> a.term, cand |-> a.node] \in ballots
  BY <1>2, <1>4, <1>8, <1>10
<1>12. b.node = a.node \/ b.node = c.node
  BY <1>0, <1>3, <1>7, <1>11
<1>13. QED
  BY <1>12

LEMMA VoteInvHolds ==
    ASSUME StaticCluster, MaxRestarts = 0
    PROVE  Spec => [](TypeOK /\ ElectionInv /\ VoteInv)
<1>1. Init => ElectionInv /\ VoteInv
  BY DEF Init, ElectionInv, OneBallotPerTerm, BallotsBind, CandidatesVoteForThemselves,
         RequestsGoToOthers, GrantsWereCast, VotesWereCast, WinsHaveMajority,
         VoteInv, VotesStand, VotesRepeat, SelfVotes, RequestsReached
<1>2. TypeOK /\ ElectionInv /\ [Next]_vars => ElectionInv'
  BY ElectionStep
<1>3. TypeOK /\ TypeOK' /\ ElectionInv /\ VoteInv /\ [Next]_vars => VoteInv'
  BY VoteStep
<1>4. QED
  BY <1>1, <1>2, <1>3, TypeCorrect, PTL DEF Spec

\* Of any three elections ever won, two were won by the same node.
TwoNodesLead ==
    \A a, b, c \in elected : a.node = b.node \/ b.node = c.node \/ a.node = c.node

\* In a static cluster whose processes do not restart, no more than two nodes
\* ever become leader, in whatever number of elections: handleVoteRequest does not
\* forget a vote or a leader of an earlier term, so the nodes whose votes made the
\* first two leaders have none left for a third.
THEOREM AtMostTwoLeaders ==
    ASSUME StaticCluster, MaxRestarts = 0
    PROVE  Spec => []TwoNodesLead
<1>1. TypeOK /\ ElectionInv /\ VoteInv => TwoNodesLead
  <2> SUFFICES ASSUME TypeOK, ElectionInv, VoteInv,
                      NEW a \in elected, NEW b \in elected, NEW c \in elected,
                      a.node # b.node, b.node # c.node, a.node # c.node
               PROVE  FALSE
    BY DEF TwoNodesLead
  <2>1. a.term \in Nat /\ b.term \in Nat /\ c.term \in Nat
    BY DEF TypeOK, Win
  <2>2. a.term # b.term /\ b.term # c.term /\ a.term # c.term
    BY MajoritiesAgree DEF ElectionSafety
  <2>3. \A x, y, z \in elected :
          x.term < y.term /\ y.term < z.term => y.node = x.node \/ z.node = y.node
    BY LeadersRepeat
  <2>4. QED
    BY <2>1, <2>2, <2>3
<1>2. QED
  BY <1>1, VoteInvHolds, PTL

=============================================================================
