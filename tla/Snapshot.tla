------------------------------ MODULE Snapshot ------------------------------
(***************************************************************************)
(* SnapshotCoordinator of pkg/chaos, one on each node, with FIFO channels   *)
(* between the nodes: one snapshot, begun by any node at any moment, while  *)
(* the nodes exchange messages.                                             *)
(*                                                                         *)
(* The messages of a channel are numbered from 1, a MARKER is 0.  The state *)
(* of a node is how many messages it has sent and received on each channel. *)
(***************************************************************************)
EXTENDS Naturals, Sequences, FiniteSets

CONSTANTS
    Peer,
    MaxMessages      \* bound: messages of the application

ASSUME SnapshotAssumption == IsFiniteSet(Peer) /\ MaxMessages \in Nat

VARIABLES
    channel,         \* external: channel[p][q] is what is under way from p to q
    sent, seen,      \* external: sent[p][q] and seen[q][p], the state of the application
    initiated,       \* InitiateSnapshot was called
    currentSnapshot, \* the nodes that have one in progress
    stateRecorded, markerReceived, recordingFor,
    nodeStates,      \* the states that were recorded, with the set of nodes that have one
    channelStates    \* what was recorded for each channel, and for which channels

appVars == <<sent, seen>>
coordinatorVars == <<currentSnapshot, stateRecorded, markerReceived, recordingFor>>
resultVars == <<nodeStates, channelStates>>
snapshotVars == <<channel, appVars, initiated, coordinatorVars, resultVars>>

MARKER == 0

Zero == [q \in Peer |-> 0]

SnapshotInit ==
    /\ channel = [p \in Peer |-> [q \in Peer |-> <<>>]]
    /\ sent = [p \in Peer |-> Zero] /\ seen = [p \in Peer |-> Zero]
    /\ initiated = FALSE
    /\ currentSnapshot = {} /\ stateRecorded = {}
    /\ markerReceived = [p \in Peer |-> {}]
    /\ recordingFor = [p \in Peer |-> [q \in Peer |-> <<>>]]
    /\ nodeStates = [of |-> {}, sent |-> [p \in Peer |-> Zero], seen |-> [p \in Peer |-> Zero]]
    /\ channelStates = [of |-> {}, messages |-> [p \in Peer |-> [q \in Peer |-> <<>>]]]

MessagesSent == Cardinality({m \in Peer \X Peer \X (1 .. MaxMessages) : m[3] <= sent[m[1]][m[2]]})

SendMessage(p, q) ==
    /\ p # q /\ MessagesSent < MaxMessages
    /\ sent' = [sent EXCEPT ![p][q] = @ + 1]
    /\ channel' = [channel EXCEPT ![p][q] = Append(@, sent'[p][q])]
    /\ UNCHANGED <<seen, initiated, coordinatorVars, resultVars>>

\* The condition of RecordMessage.
Records(p, from) == p \in currentSnapshot /\ p \in stateRecorded /\ from \notin markerReceived[p]

\* The application takes a message and calls RecordMessage.
ReceiveMessage(p, from) ==
    /\ channel[from][p] # <<>> /\ Head(channel[from][p]) # MARKER
    /\ channel' = [channel EXCEPT ![from][p] = Tail(@)]
    /\ seen' = [seen EXCEPT ![p][from] = @ + 1]
    /\ recordingFor' = IF Records(p, from)
                       THEN [recordingFor EXCEPT ![p][from] = Append(@, Head(channel[from][p]))]
                       ELSE recordingFor
    /\ UNCHANGED <<sent, initiated, currentSnapshot, stateRecorded, markerReceived, resultVars>>

RecordLocalState(p) ==
    nodeStates' = [of |-> nodeStates.of \cup {p},
                   sent |-> [nodeStates.sent EXCEPT ![p] = sent[p]],
                   seen |-> [nodeStates.seen EXCEPT ![p] = seen[p]]]

\* Mutant: only the initiator sends markers.
MarkersToMutant(p, from) == {}

\* The nodes to which a marker is passed on: not back to where the first one came from.
MarkersTo(p, from) == Peer \ {p, from}

WithMarkers(ch, p, to) ==
    [ch EXCEPT ![p] = [q \in Peer |-> IF q \in to THEN Append(@[q], MARKER) ELSE @[q]]]

InitiateSnapshot(p) ==
    /\ ~initiated /\ initiated' = TRUE
    /\ currentSnapshot' = currentSnapshot \cup {p}
    /\ stateRecorded' = stateRecorded \cup {p}
    /\ markerReceived' = [markerReceived EXCEPT ![p] = {}]
    /\ recordingFor' = [recordingFor EXCEPT ![p] = [q \in Peer |-> <<>>]]
    /\ RecordLocalState(p)
    /\ channel' = WithMarkers(channel, p, Peer \ {p})
    /\ UNCHANGED <<appVars, channelStates>>

\* The first marker records the state; every marker ends the recording of its channel;
\* the last one completes the snapshot and resets the coordinator (checkCompletion).
ReceiveMarker(p, from) ==
    LET first == p \notin currentSnapshot
        markers == IF first THEN {from} ELSE markerReceived[p] \cup {from}
        recording == IF first THEN [q \in Peer |-> <<>>] ELSE recordingFor[p]
        complete == Peer \ {p} \subseteq markers
        taken == [channel EXCEPT ![from][p] = Tail(@)]
    IN  /\ channel[from][p] # <<>> /\ Head(channel[from][p]) = MARKER
        /\ IF first THEN RecordLocalState(p) ELSE UNCHANGED nodeStates
        /\ channel' = IF first THEN WithMarkers(taken, p, MarkersTo(p, from)) ELSE taken
        /\ channelStates' = [of |-> channelStates.of \cup {<<from, p>>},
                             messages |-> [channelStates.messages EXCEPT ![from][p] = recording[from]]]
        /\ currentSnapshot' = IF complete THEN currentSnapshot \ {p} ELSE currentSnapshot \cup {p}
        /\ stateRecorded' = IF complete THEN stateRecorded \ {p} ELSE stateRecorded \cup {p}
        /\ markerReceived' = [markerReceived EXCEPT ![p] = IF complete THEN {} ELSE markers]
        /\ recordingFor' = [recordingFor EXCEPT ![p] = IF complete THEN [q \in Peer |-> <<>>] ELSE recording]
        /\ UNCHANGED <<appVars, initiated>>

SnapshotNext ==
    \/ \E p \in Peer : InitiateSnapshot(p)
    \/ \E p, q \in Peer : SendMessage(p, q) \/ ReceiveMessage(p, q) \/ ReceiveMarker(p, q)

SnapshotSpec == SnapshotInit /\ [][SnapshotNext]_snapshotVars

-----------------------------------------------------------------------------
\* The recorded states fit together: no node has recorded the receipt of a message that
\* its sender, as recorded, had not sent yet (ReceiveMarker passes markers on before
\* anything else is sent).
ConsistentCut ==
    \A p, q \in nodeStates.of : nodeStates.seen[q][p] <= nodeStates.sent[p][q]

\* What was recorded for a channel is what was under way in it at the cut: sent before
\* the sender recorded its state and received after the receiver recorded its own.
ChannelStatesAreExact ==
    \A c \in channelStates.of :
        LET from == c[1]
            to == c[2]
            first == nodeStates.seen[to][from]
        IN  channelStates.messages[from][to]
                = [i \in 1 .. (nodeStates.sent[from][to] - first) |-> first + i]

\* The recorded nodes and channels make up one consistent global state.
SnapshotIsConsistent == ConsistentCut /\ ChannelStatesAreExact
=============================================================================
