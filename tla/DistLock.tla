------------------------------ MODULE DistLock ------------------------------
(***************************************************************************)
(* DistributedLockService of pkg/consistency/distlock.go: one named lock,   *)
(* its clients and a resource that asks VerifyToken before it lets a client *)
(* in.  Every method holds the service's mutex.  A client may pause between *)
(* any two of its calls while its lock expires and is granted to others.    *)
(***************************************************************************)
EXTENDS Naturals

CONSTANTS
    Client,
    NoClient,
    MaxToken         \* bound: highest fencing token

ASSUME DistLockAssumption == NoClient \notin Client /\ MaxToken \in Nat

VARIABLES
    grant,           \* the lock's current grant; holder NoClient when there is none
    nextToken,
    ticket,          \* the token of each client's last grant, 0 before the first
    lastUse,         \* history: the highest token the resource has let in
    releasedBy       \* history: the client whose Release was the last to succeed

distLockVars == <<grant, nextToken, ticket, lastUse, releasedBy>>

NoGrant == [holder |-> NoClient, token |-> 0, valid |-> FALSE]

DistLockInit ==
    /\ grant = NoGrant
    /\ nextToken = 1
    /\ ticket = [c \in Client |-> 0]
    /\ lastUse = 0
    /\ releasedBy = NoClient

\* Refused while a valid grant is there; the counter is incremented before it is used.
Acquire(c) ==
    /\ ~grant.valid
    /\ nextToken < MaxToken
    /\ nextToken' = nextToken + 1
    /\ grant' = [holder |-> c, token |-> nextToken', valid |-> TRUE]
    /\ ticket' = [ticket EXCEPT ![c] = nextToken']
    /\ UNCHANGED <<lastUse, releasedBy>>

\* Mutant: whoever asks releases the lock.
ReleaseMutant(c) ==
    /\ grant # NoGrant
    /\ grant' = NoGrant
    /\ releasedBy' = c
    /\ UNCHANGED <<nextToken, ticket, lastUse>>

\* A holder whose lock has expired may still release it.
Release(c) ==
    /\ grant # NoGrant /\ grant.token = ticket[c]
    /\ grant' = NoGrant
    /\ releasedBy' = c
    /\ UNCHANGED <<nextToken, ticket, lastUse>>

\* Renewing moves the expiry of a valid grant: it changes nothing that can be seen here
\* but that the grant is still valid.
Renew(c) ==
    /\ grant # NoGrant /\ grant.token = ticket[c] /\ grant.valid
    /\ grant' = [grant EXCEPT !.valid = TRUE]
    /\ UNCHANGED <<nextToken, ticket, lastUse, releasedBy>>

\* ExpiresAt is over.
GrantExpires ==
    /\ grant.valid
    /\ grant' = [grant EXCEPT !.valid = FALSE]
    /\ UNCHANGED <<nextToken, ticket, lastUse, releasedBy>>

\* expireLoop
DropExpired ==
    /\ grant # NoGrant /\ ~grant.valid
    /\ grant' = NoGrant
    /\ UNCHANGED <<nextToken, ticket, lastUse, releasedBy>>

VerifyToken(token) == grant # NoGrant /\ grant.token <= token /\ grant.valid

\* The resource verifies the token of a client's request and serves it.
UseResource(c) ==
    /\ ticket[c] # 0 /\ VerifyToken(ticket[c])
    /\ lastUse' = IF ticket[c] > lastUse THEN ticket[c] ELSE lastUse
    /\ UNCHANGED <<grant, nextToken, ticket, releasedBy>>

DistLockNext ==
    \/ \E c \in Client : Acquire(c) \/ Release(c) \/ Renew(c) \/ UseResource(c)
    \/ GrantExpires \/ DropExpired

DistLockSpec == DistLockInit /\ [][DistLockNext]_distLockVars

-----------------------------------------------------------------------------
\* Only the holder of the lock gets in: a client that was paused while its lock expired
\* and went to others is turned away by the resource, and nobody with an older token
\* than the resource has served gets in (the example in the file's header).
OnlyTheHolderGetsIn ==
    \A c \in Client :
        ticket[c] # 0 /\ VerifyToken(ticket[c]) => grant.holder = c /\ ticket[c] >= lastUse

\* A valid grant ends by its expiry or by its own holder, never by the late release or
\* the new acquisition of another client.
GrantIsKept ==
    [][grant.valid /\ grant' # grant =>
         \/ grant' = [grant EXCEPT !.valid = FALSE]
         \/ grant' = NoGrant /\ releasedBy' = grant.holder]_distLockVars

\* The two halves of mutual exclusion over time: whoever holds the lock is neither joined
\* by a client that held it before nor deprived of it by one.
HolderIsProtected == []OnlyTheHolderGetsIn /\ GrantIsKept
=============================================================================
