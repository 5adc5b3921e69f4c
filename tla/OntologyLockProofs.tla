------------------------ MODULE OntologyLockProofs ------------------------
(***************************************************************************)
(* The safety properties of OntologyLock, for any clients and lock names   *)
(* and any bound on the tokens.                                            *)
(***************************************************************************)
EXTENDS OntologyLock, FiniteSetTheorems, WellFoundedInduction, TLAPS

\* How far a call has got in its list of names, and that the list climbs.
CallShape ==
    \A c \in Clients :
        /\ held[c] <= Len(names[c])
        /\ phase[c] = "idle" => held[c] = 0
        /\ phase[c] = "acquire" => held[c] < Len(names[c])
        /\ phase[c] = "body" => token[c] > 0
        /\ Len(names[c]) = 2 => names[c][1] < names[c][2]
        /\ token[c] <= counter

\* The inductive invariant.  OwnerKnows needs the shape of the list of names
\* to know what Acquire adds to Held; FreshTokenOrder needs the tokens to be
\* bounded by the counter.
LockInv ==
    /\ LockTypeOK
    /\ CallShape
    /\ OwnerKnows
    /\ FreshTokenOrder

\* What a client waits for is a lock name, and it comes after the names it
\* holds.
LEMMA WantedName ==
    ASSUME LockTypeOK, CallShape,
           NEW c \in Clients, phase[c] = "acquire"
    PROVE  /\ Wanted(c) \in LockNames
           /\ Wanted(c) = names[c][held[c] + 1]
           /\ Len(names[c]) \in {1, 2}
           /\ held[c] \in {0, 1}
           /\ \A n \in Held(c) : n \in LockNames /\ n < Wanted(c)
<1>1. PICK ns \in NameSeqs \cup {<<>>} : names[c] = ns
  BY DEF LockTypeOK
<1>2. held[c] \in 0..2 /\ held[c] < Len(ns)
  BY <1>1 DEF LockTypeOK, CallShape
<1>3. CASE ns = <<>>
  BY <1>2, <1>3
<1>4. CASE \E n \in LockNames : ns = <<n>>
  BY <1>1, <1>2, <1>4 DEF Wanted, Held
<1>5. CASE \E m, n \in LockNames : ns = <<m, n>>
  <2>1. PICK m \in LockNames, n \in LockNames : ns = <<m, n>>
    BY <1>5
  <2>2. Len(ns) = 2 /\ ns[1] = m /\ ns[2] = n /\ m < n
    BY <1>1, <2>1 DEF CallShape
  <2> QED
    BY <1>1, <1>2, <2>2, LockAssumption DEF Wanted, Held
<1> QED
  BY <1>1, <1>3, <1>4, <1>5 DEF NameSeqs

\* The locks a client believes it holds are lock names; the next one to be
\* released is the last of them, and the others come earlier in its list.
LEMMA HeldNames ==
    ASSUME LockTypeOK, CallShape, NEW c \in Clients
    PROVE  /\ Held(c) \subseteq LockNames
           /\ held[c] > 0 => names[c][held[c]] \in LockNames
           /\ \A n \in Held(c) : n # names[c][held[c]]
                                => \E i \in 1..(held[c] - 1) : n = names[c][i]
<1>1. PICK ns \in NameSeqs \cup {<<>>} : names[c] = ns
  BY DEF LockTypeOK
<1>2. held[c] \in 0..2 /\ held[c] <= Len(ns)
  BY <1>1 DEF LockTypeOK, CallShape
<1>3. CASE ns = <<>>
  BY <1>1, <1>2, <1>3 DEF Held
<1>4. CASE \E n \in LockNames : ns = <<n>>
  BY <1>1, <1>2, <1>4 DEF Held
<1>5. CASE \E m, n \in LockNames : ns = <<m, n>>
  BY <1>1, <1>2, <1>5 DEF Held
<1> QED
  BY <1>1, <1>3, <1>4, <1>5 DEF NameSeqs

\* A step that lets no call enter its body and gives no lock to a call in its
\* body keeps the order of the tokens.
LEMMA KeepsTokenOrder ==
    ASSUME FreshTokenOrder,
           \A c \in Clients : phase'[c] = "body" =>
               /\ phase[c] = "body"
               /\ token'[c] = token[c] /\ fresh'[c] = fresh[c]
               /\ names'[c] = names[c] /\ held'[c] = held[c]
               /\ \A n \in Held(c) : owner'[n] = c => owner[n] = c
    PROVE  FreshTokenOrder'
<1> SUFFICES ASSUME NEW c \in Clients, NEW d \in Clients,
                    NEW n \in Held(c)' \cap Held(d)', c # d,
                    phase'[c] = "body", owner'[n] = c,
                    phase'[d] = "body", fresh'[d]
             PROVE  token'[d] < token'[c]
  BY DEF FreshTokenOrder
<1>1. Held(c)' = Held(c) /\ Held(d)' = Held(d)
  BY DEF Held
<1> QED
  BY <1>1 DEF FreshTokenOrder

\* A step that gives no call a lock and takes no name from Held, but of those
\* it no longer owns, keeps OwnerKnows.
LEMMA KeepsOwnerKnows ==
    ASSUME OwnerKnows,
           \A c \in Clients, n \in LockNames : owner'[n] = c =>
               /\ owner[n] = c
               /\ n \in Held(c) => n \in Held(c)'
    PROVE  OwnerKnows'
  BY DEF OwnerKnows

---------------------------------------------------------------------------
LEMMA LockInitInv == LockInit => LockInv
  BY LockAssumption
  DEF LockInit, LockInv, LockTypeOK, CallShape, OwnerKnows, FreshTokenOrder,
      Phases, Held

\* A step of one call, or the end of a lease, preserves the invariant.
LEMMA LockStepInv == LockInv /\ [LockNext]_lockVars => LockInv'
<1> SUFFICES ASSUME LockInv, [LockNext]_lockVars
             PROVE  LockInv'
  OBVIOUS
<1> USE LockAssumption DEF LockInv, Phases
<1>1. ASSUME NEW c \in Clients, NEW ns \in NameSeqs, Start(c, ns),
             Len(ns) \in {1, 2}, Len(ns) = 2 => ns[1] < ns[2]
      PROVE  LockInv'
  <2>1. LockTypeOK'
    BY <1>1 DEF Start, LockTypeOK
  <2>2. CallShape'
    <3>1. /\ names'[c] = ns /\ held'[c] = 0 /\ phase'[c] = "acquire"
          /\ token'[c] = token[c] /\ counter' = counter
      BY <1>1 DEF Start, LockTypeOK, CallShape
    <3>2. \A d \in Clients : d # c =>
             /\ names'[d] = names[d] /\ held'[d] = held[d]
             /\ phase'[d] = phase[d] /\ token'[d] = token[d]
      BY <1>1 DEF Start, LockTypeOK
    <3> QED
      BY <1>1, <3>1, <3>2 DEF CallShape
  <2>3. OwnerKnows'
    BY <1>1, KeepsOwnerKnows DEF Start, LockTypeOK, CallShape, Held
  <2>4. FreshTokenOrder'
    BY <1>1, KeepsTokenOrder DEF Start, LockTypeOK
  <2> QED
    BY <2>1, <2>2, <2>3, <2>4
<1>2. ASSUME NEW c \in Clients, Acquire(c)
      PROVE  LockInv'
  <2>0. /\ phase[c] = "acquire"
        /\ Wanted(c) \in LockNames
        /\ Wanted(c) = names[c][held[c] + 1]
        /\ Len(names[c]) \in {1, 2}
        /\ held[c] \in {0, 1}
        /\ held[c] < Len(names[c])
    BY <1>2, WantedName DEF Acquire, CallShape
  <2>1. LockTypeOK'
    BY <1>2, <2>0 DEF Acquire, LockTypeOK
  <2>2. CallShape'
    BY <1>2, <2>0 DEF Acquire, LockTypeOK, CallShape
  <2>3. OwnerKnows'
    <3>1. Held(c)' = Held(c) \cup {Wanted(c)}
      BY <1>2, <2>0 DEF Acquire, LockTypeOK, Held
    <3>2. \A d \in Clients : d # c => Held(d)' = Held(d)
      BY <1>2 DEF Acquire, LockTypeOK, Held
    <3> QED
      BY <1>2, <2>0, <3>1, <3>2 DEF Acquire, LockTypeOK, OwnerKnows
  <2>4. FreshTokenOrder'
    <3>1. \A d \in Clients : phase'[d] = "body" => d # c /\ phase[d] = "body"
      BY <1>2, <2>0 DEF Acquire, LockTypeOK
    <3> QED
      BY <1>2, <2>0, <3>1, KeepsTokenOrder, HeldNames DEF Acquire, LockTypeOK
  <2> QED
    BY <2>1, <2>2, <2>3, <2>4
<1>3. ASSUME NEW c \in Clients, AcquireTimeout(c)
      PROVE  LockInv'
  <2>1. LockTypeOK'
    BY <1>3 DEF AcquireTimeout, LockTypeOK
  <2>2. CallShape'
    BY <1>3 DEF AcquireTimeout, LockTypeOK, CallShape
  <2>3. OwnerKnows'
    BY <1>3, KeepsOwnerKnows DEF AcquireTimeout, LockTypeOK, Held
  <2>4. FreshTokenOrder'
    BY <1>3, KeepsTokenOrder DEF AcquireTimeout, LockTypeOK
  <2> QED
    BY <2>1, <2>2, <2>3, <2>4
<1>4. ASSUME NEW c \in Clients, AcquireError(c)
      PROVE  LockInv'
  <2>1. LockTypeOK'
    BY <1>4, WantedName DEF AcquireError, LockTypeOK
  <2>2. CallShape'
    BY <1>4 DEF AcquireError, LockTypeOK, CallShape
  <2>3. OwnerKnows'
    BY <1>4, WantedName, KeepsOwnerKnows DEF AcquireError, LockTypeOK, Held
  <2>4. FreshTokenOrder'
    BY <1>4, KeepsTokenOrder, HeldNames DEF AcquireError, LockTypeOK
  <2> QED
    BY <2>1, <2>2, <2>3, <2>4
<1>5. ASSUME NEW c \in Clients, IssueToken(c)
      PROVE  LockInv'
  <2>1. LockTypeOK'
    BY <1>5 DEF IssueToken, LockTypeOK
  <2>2. CallShape'
    BY <1>5 DEF IssueToken, LockTypeOK, CallShape
  <2>3. OwnerKnows'
    BY <1>5, KeepsOwnerKnows DEF IssueToken, LockTypeOK, Held
  <2>4. FreshTokenOrder'
    <3> SUFFICES ASSUME NEW a \in Clients, NEW b \in Clients,
                        NEW n \in Held(a)' \cap Held(b)', a # b,
                        phase'[a] = "body", owner'[n] = a,
                        phase'[b] = "body", fresh'[b]
                 PROVE  token'[b] < token'[a]
      BY DEF FreshTokenOrder
    <3>1. /\ Held(a)' = Held(a) /\ Held(b)' = Held(b)
          /\ owner'[n] = owner[n]
      BY <1>5 DEF IssueToken, Held
    <3>2. CASE a = c
      \* b took its token earlier
      BY <1>5, <3>2 DEF IssueToken, LockTypeOK, CallShape
    <3>3. CASE b = c
      \* a owns n, so c does not and its token is not fresh
      BY <1>5, <3>1, <3>3 DEF IssueToken, LockTypeOK
    <3>4. CASE a # c /\ b # c
      BY <1>5, <3>1, <3>4 DEF IssueToken, LockTypeOK, FreshTokenOrder
    <3> QED
      BY <3>2, <3>3, <3>4
  <2> QED
    BY <2>1, <2>2, <2>3, <2>4
<1>6. ASSUME NEW c \in Clients, IssueTokenError(c)
      PROVE  LockInv'
  <2>1. LockTypeOK'
    BY <1>6 DEF IssueTokenError, LockTypeOK
  <2>2. CallShape'
    BY <1>6 DEF IssueTokenError, LockTypeOK, CallShape
  <2>3. OwnerKnows'
    BY <1>6, KeepsOwnerKnows DEF IssueTokenError, LockTypeOK, Held
  <2>4. FreshTokenOrder'
    BY <1>6, KeepsTokenOrder DEF IssueTokenError, LockTypeOK
  <2> QED
    BY <2>1, <2>2, <2>3, <2>4
<1>7. ASSUME NEW c \in Clients, LeaveBody(c)
      PROVE  LockInv'
  <2>1. LockTypeOK'
    BY <1>7 DEF LeaveBody, LockTypeOK
  <2>2. CallShape'
    BY <1>7 DEF LeaveBody, LockTypeOK, CallShape
  <2>3. OwnerKnows'
    BY <1>7, KeepsOwnerKnows DEF LeaveBody, LockTypeOK, Held
  <2>4. FreshTokenOrder'
    BY <1>7, KeepsTokenOrder DEF LeaveBody, LockTypeOK
  <2> QED
    BY <2>1, <2>2, <2>3, <2>4
<1>8. ASSUME NEW c \in Clients, Release(c)
      PROVE  LockInv'
  <2>0. /\ Held(c) \subseteq LockNames
        /\ names[c][held[c]] \in LockNames
        /\ held[c] \in {1, 2}
        /\ \A n \in Held(c) : n # names[c][held[c]]
                             => \E i \in 1..(held[c] - 1) : n = names[c][i]
    BY <1>8, HeldNames DEF Release, LockTypeOK
  <2>1. LockTypeOK'
    <3>1. owner' \in [LockNames -> Clients \cup {NoOwner, Orphan}]
      BY <1>8, <2>0 DEF Release, LockTypeOK
    <3>2. held' \in [Clients -> 0..2]
      <4>1. held[c] - 1 \in 0..2
        BY <2>0
      <4> QED
        BY <1>8, <4>1 DEF Release, LockTypeOK
    <3> QED
      BY <1>8, <3>1, <3>2 DEF Release, LockTypeOK
  <2>2. CallShape'
    BY <1>8 DEF Release, LockTypeOK, CallShape
  <2>3. OwnerKnows'
    <3>1. \A n \in Held(c) : n # names[c][held[c]] => n \in Held(c)'
      BY <1>8, <2>0 DEF Release, LockTypeOK, Held
    <3>2. \A d \in Clients : d # c => Held(d)' = Held(d)
      BY <1>8 DEF Release, LockTypeOK, Held
    <3>3. \A d \in Clients, n \in LockNames : owner'[n] = d =>
             owner[n] = d /\ (d = c => n # names[c][held[c]])
      BY <1>8, <2>0 DEF Release, LockTypeOK
    <3> QED
      BY <3>1, <3>2, <3>3, KeepsOwnerKnows
  <2>4. FreshTokenOrder'
    BY <1>8, <2>0, HeldNames, KeepsTokenOrder DEF Release, LockTypeOK
  <2> QED
    BY <2>1, <2>2, <2>3, <2>4
<1>9. ASSUME NEW c \in Clients, ReleaseError(c)
      PROVE  LockInv'
  <2>0. /\ \A d \in Clients, n \in LockNames :
              owner'[n] = d => d # c /\ owner[n] = d
        /\ owner' \in [LockNames -> Clients \cup {NoOwner, Orphan}]
        /\ \A d \in Clients : d # c => Held(d)' = Held(d)
    <3>1. \A d \in Clients : d # c => Held(d)' = Held(d)
      BY <1>9 DEF ReleaseError, Forget, LockTypeOK, Held
    <3>2. names[c][held[c]] \in LockNames
      BY <1>9, HeldNames DEF ReleaseError
    <3>3. CASE owner' = Abandoned(c)
      BY <3>1, <3>3 DEF Abandoned, LockTypeOK
    <3>4. CASE owner' = [Abandoned(c) EXCEPT ![names[c][held[c]]] = NoOwner]
      BY <3>1, <3>2, <3>4 DEF Abandoned, LockTypeOK
    <3> QED
      BY <1>9, <3>3, <3>4 DEF ReleaseError
  <2>1. LockTypeOK'
    BY <1>9, <2>0 DEF ReleaseError, Forget, LockTypeOK
  <2>2. CallShape'
    BY <1>9 DEF ReleaseError, Forget, LockTypeOK, CallShape
  <2>3. OwnerKnows'
    BY <1>9, <2>0, KeepsOwnerKnows
  <2>4. FreshTokenOrder'
    <3>1. ASSUME NEW d \in Clients, phase'[d] = "body"
          PROVE  /\ phase[d] = "body"
                 /\ token'[d] = token[d] /\ fresh'[d] = fresh[d]
                 /\ names'[d] = names[d] /\ held'[d] = held[d]
                 /\ \A n \in Held(d) : owner'[n] = d => owner[n] = d
      <4>1. d # c /\ phase[d] = "body"
        BY <1>9, <3>1 DEF ReleaseError, Forget, LockTypeOK
      <4>2. /\ token'[d] = token[d] /\ fresh'[d] = fresh[d]
            /\ names'[d] = names[d] /\ held'[d] = held[d]
        BY <1>9, <4>1 DEF ReleaseError, Forget, LockTypeOK
      <4> QED
        BY <2>0, <4>1, <4>2, HeldNames
    <3> QED
      BY <3>1, KeepsTokenOrder
  <2> QED
    BY <2>1, <2>2, <2>3, <2>4
<1>10. ASSUME NEW c \in Clients, Return(c)
      PROVE  LockInv'
  <2>1. LockTypeOK'
    BY <1>10 DEF Return, Forget, LockTypeOK
  <2>2. CallShape'
    BY <1>10 DEF Return, Forget, LockTypeOK, CallShape
  <2>3. OwnerKnows'
    BY <1>10, KeepsOwnerKnows DEF Return, Forget, LockTypeOK, Held
  <2>4. FreshTokenOrder'
    BY <1>10, KeepsTokenOrder DEF Return, Forget, LockTypeOK
  <2> QED
    BY <2>1, <2>2, <2>3, <2>4
<1>11. ASSUME NEW c \in Clients, Crash(c)
      PROVE  LockInv'
  <2>0. /\ \A d \in Clients, n \in LockNames :
              owner'[n] = d => d # c /\ owner[n] = d
        /\ owner' \in [LockNames -> Clients \cup {NoOwner, Orphan}]
        /\ \A d \in Clients : d # c => Held(d)' = Held(d)
    BY <1>11, HeldNames DEF Crash, Forget, Abandoned, LockTypeOK, Held
  <2>1. LockTypeOK'
    BY <1>11, <2>0 DEF Crash, Forget, LockTypeOK
  <2>2. CallShape'
    BY <1>11 DEF Crash, Forget, LockTypeOK, CallShape
  <2>3. OwnerKnows'
    BY <1>11, <2>0, KeepsOwnerKnows
  <2>4. FreshTokenOrder'
    <3>1. ASSUME NEW d \in Clients, phase'[d] = "body"
          PROVE  /\ phase[d] = "body"
                 /\ token'[d] = token[d] /\ fresh'[d] = fresh[d]
                 /\ names'[d] = names[d] /\ held'[d] = held[d]
                 /\ \A n \in Held(d) : owner'[n] = d => owner[n] = d
      <4>1. d # c /\ phase[d] = "body"
        BY <1>11, <3>1 DEF Crash, Forget, LockTypeOK
      <4>2. /\ token'[d] = token[d] /\ fresh'[d] = fresh[d]
            /\ names'[d] = names[d] /\ held'[d] = held[d]
        BY <1>11, <4>1 DEF Crash, Forget, LockTypeOK
      <4> QED
        BY <2>0, <4>1, <4>2, HeldNames
    <3> QED
      BY <3>1, KeepsTokenOrder
  <2> QED
    BY <2>1, <2>2, <2>3, <2>4
<1>12. ASSUME NEW n \in LockNames, Expire(n)
      PROVE  LockInv'
  <2>1. LockTypeOK' /\ CallShape'
    BY <1>12 DEF Expire, LockTypeOK, CallShape
  <2>2. \A c \in Clients, m \in LockNames : owner'[m] = c => owner[m] = c
    BY <1>12 DEF Expire, LockTypeOK
  <2>3. OwnerKnows'
    BY <1>12, <2>2, KeepsOwnerKnows DEF Expire, Held
  <2>4. FreshTokenOrder'
    BY <1>12, <2>2, HeldNames, KeepsTokenOrder DEF Expire
  <2> QED
    BY <2>1, <2>3, <2>4
<1>13. CASE UNCHANGED lockVars
  BY <1>13 DEF lockVars, LockTypeOK, CallShape, OwnerKnows, FreshTokenOrder,
     Held
<1>14. ASSUME NEW c \in Clients, Request(c)
      PROVE  LockInv'
  <2>1. CASE \E n \in LockNames : NodeLock(c, n)
    <3>1. PICK n \in LockNames : Start(c, <<n>>)
      BY <2>1 DEF NodeLock
    <3>2. <<n>> \in NameSeqs /\ Len(<<n>>) = 1
      BY DEF NameSeqs
    <3> QED
      BY <1>1, <3>1, <3>2
  <2>2. CASE \E s, t \in LockNames : EdgeLocks(c, s, t)
    <3>1. PICK s \in LockNames, t \in LockNames :
            s # t /\ Start(c, Sorted(s, t))
      BY <2>2 DEF EdgeLocks
    <3>2. /\ Sorted(s, t) \in NameSeqs
          /\ Len(Sorted(s, t)) = 2
          /\ Sorted(s, t)[1] < Sorted(s, t)[2]
      BY <3>1 DEF NameSeqs, Sorted
    <3> QED
      BY <1>1, <3>1, <3>2
  <2>3. CASE EdgeLocksRefused(c)
    BY <1>13, <2>3 DEF EdgeLocksRefused
  <2> QED
    BY <1>14, <2>1, <2>2, <2>3 DEF Request
<1> QED
  BY <1>2, <1>3, <1>4, <1>5, <1>6, <1>7, <1>8, <1>9, <1>10, <1>11, <1>12,
     <1>13, <1>14
  DEF LockNext, Advance, Fail

---------------------------------------------------------------------------
LEMMA LockInvariance == LockSpec => []LockInv
<1>1. LockInit => LockInv
  BY LockInitInv
<1>2. LockInv /\ [LockNext]_lockVars => LockInv'
  BY LockStepInv
<1> QED
  BY <1>1, <1>2, PTL DEF LockSpec

\* Every variable keeps its type, for any number of clients and names.
THEOREM LockTypeCorrect == LockSpec => []LockTypeOK
<1>1. LockInv => LockTypeOK
  BY DEF LockInv
<1> QED
  BY <1>1, LockInvariance, PTL

\* A call knows of every lock that holds its token.
THEOREM NoLockForgotten == LockSpec => []OwnerKnows
<1>1. LockInv => OwnerKnows
  BY DEF LockInv
<1> QED
  BY <1>1, LockInvariance, PTL

\* The holder of a lock has a newer token than any body that once held it.
THEOREM SuccessorsOutrank == LockSpec => []FreshTokenOrder
<1>1. LockInv => FreshTokenOrder
  BY DEF LockInv
<1> QED
  BY <1>1, LockInvariance, PTL

\* The names climb along every chain of waiting calls: since what d holds
\* comes before what it waits for, and c waits for something d holds.
THEOREM NoCircularWait == LockSpec => []AscendingWaits
<1>1. LockInv => AscendingWaits
  <2> SUFFICES ASSUME LockInv, NEW c \in Clients, NEW d \in Clients,
                      phase[c] = "acquire", phase[d] = "acquire",
                      owner[Wanted(c)] = d
               PROVE  Wanted(c) < Wanted(d)
    BY DEF AscendingWaits
  <2>1. Wanted(c) \in LockNames
    BY WantedName DEF LockInv
  <2>2. Wanted(c) \in Held(d)
    BY <2>1 DEF LockInv, OwnerKnows
  <2> QED
    BY <2>2, WantedName DEF LockInv
<1> QED
  BY <1>1, LockInvariance, PTL

---------------------------------------------------------------------------
\* c waits for a lock that another call holds.
Blocked(c) == phase[c] = "acquire" /\ owner[Wanted(c)] \in Clients

\* As long as calls are under way, one of them does not wait for another: even
\* with leases that never end and without blocking_timeout the calls of all
\* processes could not stop for each other (concurrency.py:62-65).
SomeCallIsFree ==
    (\E c \in Clients : phase[c] # "idle")
        => \E c \in Clients : phase[c] # "idle" /\ ~Blocked(c)

\* Among finitely many calls with a number each, one has the greatest: a set of
\* calls without one and with the fewest members would have one fewer member.
LEMMA GreatestExists ==
    ASSUME NEW f \in [Clients -> Nat], NEW S \in SUBSET Clients, S # {}
    PROVE  \E x \in S : \A y \in S : f[y] <= f[x]
<1> DEFINE HasGreatest(T) == \E x \in T : \A y \in T : f[y] <= f[x]
           Bad == {n \in Nat : \E T \in SUBSET Clients :
                      T # {} /\ Cardinality(T) = n /\ ~HasGreatest(T)}
<1>1. \A T \in SUBSET Clients : IsFiniteSet(T) /\ Cardinality(T) \in Nat
  BY LockAssumption, FS_Subset, FS_CardinalityType
<1>2. Bad = {}
  <2>1. SUFFICES ASSUME Bad # {} PROVE FALSE
    OBVIOUS
  <2>2. PICK n \in Bad : \A m \in Bad : <<m, n>> \notin OpToRel(<, Nat)
    <3> HIDE DEF Bad
    <3>1. Bad \subseteq Nat
      BY DEF Bad
    <3> QED
      BY <2>1, <3>1, WFMin, NatLessThanWellFounded
  <2>3. \A m \in Bad : ~(m < n)
    BY <2>2 DEF OpToRel
  <2>4. PICK T \in SUBSET Clients :
           T # {} /\ Cardinality(T) = n /\ ~HasGreatest(T)
    OBVIOUS
  <2>5. PICK x \in T : TRUE
    BY <2>4
  <2> DEFINE R == T \ {x}
  <2>6. R \in SUBSET Clients /\ Cardinality(R) = n - 1 /\ n - 1 \in Nat
    <3>1. Cardinality(R) = Cardinality(T) - 1
      BY <1>1, <2>5, FS_RemoveElement
    <3> QED
      BY <1>1, <2>4, <3>1
  <2>7. R # {}
    <3>1. R = {} => HasGreatest(T)
      BY <2>5
    <3> QED
      BY <2>4, <3>1
  <2>8. n - 1 \notin Bad
    BY <2>3, <2>6
  <2>9. HasGreatest(R)
    BY <2>6, <2>7, <2>8
  <2>10. PICK z \in R : \A y \in R : f[y] <= f[z]
    BY <2>9
  <2>11. f[x] \in Nat /\ f[z] \in Nat /\ \A y \in R : f[y] \in Nat
    BY <2>5
  <2>12. CASE f[x] <= f[z]
    BY <2>4, <2>10, <2>12
  <2>13. CASE f[z] < f[x]
    <3>1. \A y \in T : f[y] <= f[x]
      BY <2>10, <2>11, <2>13
    <3> QED
      BY <2>4, <2>5, <3>1
  <2> QED
    BY <2>11, <2>12, <2>13
<1>3. Cardinality(S) \notin Bad /\ Cardinality(S) \in Nat
  BY <1>1, <1>2
<1> QED
  BY <1>3

\* Of the calls that wait for others, the one that waits for the greatest name
\* waits for a call that waits for none: no set of calls is deadlocked.
THEOREM LocksDoNotDeadlock == LockSpec => []SomeCallIsFree
<1>1. LockInv /\ AscendingWaits => SomeCallIsFree
  <2> SUFFICES ASSUME LockInv, AscendingWaits,
                      \E c \in Clients : phase[c] # "idle",
                      \A c \in Clients : phase[c] # "idle" => Blocked(c)
               PROVE  FALSE
    BY DEF SomeCallIsFree
  <2> DEFINE S == {c \in Clients : phase[c] = "acquire"}
             f == [c \in Clients |-> IF c \in S THEN Wanted(c) ELSE 0]
  <2>1. S # {} /\ \A c \in S : owner[Wanted(c)] \in Clients
    BY DEF Blocked
  <2>2. \A c \in S : Wanted(c) \in LockNames
    BY WantedName DEF LockInv
  <2>3. f \in [Clients -> Nat]
    BY <2>2, LockAssumption
  <2>4. \A c \in S : f[c] = Wanted(c)
    OBVIOUS
  <2> HIDE DEF f
  <2>5. PICK c \in S : \A d \in S : f[d] <= f[c]
    BY <2>1, <2>3, GreatestExists
  <2> DEFINE d == owner[Wanted(c)]
  <2>6. d \in Clients /\ Wanted(c) \in Held(d)
    BY <2>1, <2>2 DEF LockInv, OwnerKnows
  <2>7. d \in S
    <3>1. held[d] # 0
      BY <2>6 DEF Held
    <3>2. phase[d] # "idle"
      BY <2>6, <3>1 DEF LockInv, CallShape
    <3> QED
      BY <2>6, <3>2 DEF Blocked
  <2>8. Wanted(c) < Wanted(d)
    BY <2>6, <2>7 DEF AscendingWaits
  <2> HIDE DEF d, S
  <2>9. Wanted(d) <= Wanted(c)
    BY <2>4, <2>5, <2>7
  <2>10. Wanted(c) \in Nat /\ Wanted(d) \in Nat
    BY <2>2, <2>5, <2>7, LockAssumption
  <2> QED
    BY <2>8, <2>9, <2>10
<1> QED
  BY <1>1, LockInvariance, NoCircularWait, PTL

---------------------------------------------------------------------------
\* Only its holder's own steps or its expiry take a lock from its holder.
THEOREM NoForeignRelease == LockSpec => OnlyHolderFrees
<1>1. LockInv /\ [LockNext]_lockVars =>
        [\A n \in LockNames, c \in Clients :
            owner[n] = c /\ owner'[n] # c
            => held'[c] < held[c] \/ UNCHANGED <<phase, held>>]_lockVars
  <2> SUFFICES ASSUME LockInv, LockNext, NEW n \in LockNames,
                      NEW c \in Clients, owner[n] = c, owner'[n] # c
               PROVE  held'[c] < held[c] \/ UNCHANGED <<phase, held>>
    BY DEF lockVars
  <2> USE LockAssumption DEF LockInv
  <2>1. held[c] \in 1..2
    <3>1. n \in Held(c)
      BY DEF OwnerKnows
    <3>2. held[c] \in 0..2 /\ 1..held[c] # {}
      BY <3>1 DEF Held, LockTypeOK
    <3> QED
      BY <3>2
  <2>2. ASSUME NEW d \in Clients, Request(d) PROVE FALSE
    BY <2>2 DEF Request, NodeLock, EdgeLocks, EdgeLocksRefused, Start, lockVars
  <2>3. ASSUME NEW d \in Clients, Acquire(d) PROVE FALSE
    BY <2>3, WantedName DEF Acquire, LockTypeOK
  <2>4. ASSUME NEW d \in Clients, AcquireError(d) PROVE FALSE
    BY <2>4, WantedName DEF AcquireError, LockTypeOK
  <2>5. ASSUME NEW d \in Clients, Release(d) PROVE held'[c] < held[c]
    <3>1. d = c
      BY <2>5, HeldNames DEF Release, LockTypeOK
    <3> QED
      BY <2>1, <2>5, <3>1 DEF Release, LockTypeOK
  <2>6. ASSUME NEW d \in Clients, ReleaseError(d) PROVE held'[c] < held[c]
    <3>1. d = c
      <4>1. CASE owner' = Abandoned(d)
        BY <2>6, <4>1 DEF Abandoned, LockTypeOK
      <4>2. CASE owner' = [Abandoned(d) EXCEPT ![names[d][held[d]]] = NoOwner]
        <5>1. phase[d] = "release"
          BY <2>6 DEF ReleaseError
        <5> QED
          BY <2>6, <4>2, HeldNames DEF ReleaseError, Abandoned, LockTypeOK
      <4> QED
        BY <2>6, <4>1, <4>2 DEF ReleaseError
    <3> QED
      BY <2>1, <2>6, <3>1 DEF ReleaseError, Forget, LockTypeOK
  <2>7. ASSUME NEW d \in Clients, Crash(d) PROVE held'[c] < held[c]
    <3>1. d = c
      BY <2>7 DEF Crash, Abandoned, LockTypeOK
    <3> QED
      BY <2>1, <2>7, <3>1 DEF Crash, Forget, LockTypeOK
  <2>8. ASSUME NEW m \in LockNames, Expire(m) PROVE UNCHANGED <<phase, held>>
    BY <2>8 DEF Expire
  <2>9. ASSUME NEW d \in Clients,
               \/ AcquireTimeout(d) \/ IssueToken(d) \/ IssueTokenError(d)
               \/ LeaveBody(d) \/ Return(d)
        PROVE  FALSE
    BY <2>9 DEF AcquireTimeout, IssueToken, IssueTokenError, LeaveBody, Return
  <2> QED
    BY <2>2, <2>3, <2>4, <2>5, <2>6, <2>7, <2>8, <2>9
    DEF LockNext, Advance, Fail
<1> QED
  BY <1>1, LockInvariance, PTL DEF LockSpec, OnlyHolderFrees
---------------------------------------------------------------------------
\* The steps that a call has left, at most.
CallRank(c) ==
    CASE phase[c] = "acquire" -> 7 - held[c]
      [] phase[c] = "incr"    -> 5
      [] phase[c] = "body"    -> 4
      [] phase[c] = "release" -> 1 + held[c]
      [] OTHER                -> 0

\* A call ends after at most seven steps of its own, failures included, and
\* nothing that other calls or leases do takes it back: there is no livelock
\* behind CallsReturn, only a call that is not served (concurrency.py:40-102).
CallsShrink ==
    [][\A c \in Clients : phase[c] # "idle" =>
          /\ CallRank(c)' <= CallRank(c)
          /\ Advance(c) \/ Fail(c) => CallRank(c)' < CallRank(c)]_lockVars

\* Every step of a call brings its end nearer: the safety half of CallsReturn.
\* Each action lowers the rank of its own call, and none writes the phase or
\* the count of locks of another.
THEOREM CallsAreBounded == LockSpec => CallsShrink
<1> DEFINE Shrinks(c) ==
        phase[c] # "idle" =>
          /\ CallRank(c)' <= CallRank(c)
          /\ Advance(c) \/ Fail(c) => CallRank(c)' < CallRank(c)
<1>1. ASSUME LockInv, LockNext, NEW c \in Clients, phase[c] # "idle"
      PROVE  Shrinks(c)
  <2>1. /\ phase[c] \in Phases /\ held[c] \in 0..2
        /\ phase[c] = "acquire" => held[c] \in 0..1
        /\ phase \in [Clients -> Phases] /\ held \in [Clients -> 0..2]
    BY <1>1, WantedName DEF LockInv, LockTypeOK
  <2>2. ASSUME Advance(c) PROVE CallRank(c)' < CallRank(c)
    <3>1. CASE Acquire(c)
      BY <2>1, <3>1 DEF Acquire, CallRank
    <3>2. CASE AcquireTimeout(c)
      BY <2>1, <3>2 DEF AcquireTimeout, CallRank
    <3>3. CASE IssueToken(c)
      BY <2>1, <3>3 DEF IssueToken, CallRank
    <3>4. CASE LeaveBody(c)
      BY <2>1, <3>4 DEF LeaveBody, CallRank
    <3>5. CASE Release(c)
      BY <2>1, <3>5 DEF Release, CallRank
    <3>6. CASE Return(c)
      BY <2>1, <3>6 DEF Return, Forget, CallRank
    <3> QED
      BY <2>2, <3>1, <3>2, <3>3, <3>4, <3>5, <3>6 DEF Advance
  <2>3. ASSUME Fail(c) PROVE CallRank(c)' < CallRank(c)
    <3>1. CASE AcquireError(c)
      BY <2>1, <3>1 DEF AcquireError, CallRank
    <3>2. CASE IssueTokenError(c)
      BY <2>1, <3>2 DEF IssueTokenError, CallRank
    <3>3. CASE ReleaseError(c)
      BY <2>1, <3>3 DEF ReleaseError, Forget, CallRank
    <3>4. CASE Crash(c)
      BY <1>1, <2>1, <3>4 DEF Crash, Forget, CallRank, Phases
    <3> QED
      BY <2>3, <3>1, <3>2, <3>3, <3>4 DEF Fail
  <2>4. ~Request(c)
    BY <1>1 DEF Request, NodeLock, EdgeLocks, EdgeLocksRefused, Start
  <2>5. ASSUME NEW d \in Clients, d # c, Request(d) \/ Advance(d) \/ Fail(d)
        PROVE  phase'[c] = phase[c] /\ held'[c] = held[c]
    <3>1. CASE Request(d)
      BY <2>1, <2>5, <3>1
      DEF Request, NodeLock, EdgeLocks, EdgeLocksRefused, Start, lockVars
    <3>2. CASE Advance(d)
      BY <2>1, <2>5, <3>2 DEF Advance, Acquire, AcquireTimeout, IssueToken,
         LeaveBody, Release, Return, Forget
    <3>3. CASE Fail(d)
      BY <2>1, <2>5, <3>3
      DEF Fail, AcquireError, IssueTokenError, ReleaseError, Crash, Forget
    <3> QED
      BY <2>5, <3>1, <3>2, <3>3
  <2>6. ASSUME NEW n \in LockNames, Expire(n)
        PROVE  phase'[c] = phase[c] /\ held'[c] = held[c]
    BY <2>6 DEF Expire
  <2>7. CallRank(c) \in Nat /\ CallRank(c)' \in Nat
    <3>1. LockTypeOK'
      BY <1>1, LockStepInv DEF LockInv
    <3>2. held'[c] \in 0..2
      BY <3>1 DEF LockTypeOK
    <3> QED
      BY <2>1, <3>2 DEF CallRank
  <2>8. phase'[c] = phase[c] /\ held'[c] = held[c] => CallRank(c)' = CallRank(c)
    BY DEF CallRank
  <2>9. \/ CallRank(c)' < CallRank(c)
        \/ CallRank(c)' = CallRank(c)
    BY <1>1, <2>2, <2>3, <2>4, <2>5, <2>6, <2>8 DEF LockNext
  <2> QED
    BY <2>2, <2>3, <2>7, <2>9
<1>2. LockInv /\ [LockNext]_lockVars
        => [\A c \in Clients : Shrinks(c)]_lockVars
  BY <1>1
<1> QED
  BY <1>2, LockInvariance, PTL DEF LockSpec, CallsShrink
===========================================================================
