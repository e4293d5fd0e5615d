------------------------ MODULE ConnectionPoolProofs ------------------------
(* Proofs about ConnectionPool, for any number of requests, connections and *)
(* threads.                                                                 *)
EXTENDS ConnectionPool, FiniteSetTheorems, TLAPS

\* Where a request of the auth router has a connection: from its first rows to the
\* exit of get_session, but not from a commit to the next statement.
WithConnection == SyncPc \ {"idle", "query", "committed", "reload"}

\* Who can have a connection: such a request, and the one that runs on the loop.
HoldersAtWork ==
    \A r \in holders :
        \/ r \in SyncRequest /\ pc[r] \in WithConnection
        \/ r \in AsyncRequest /\ r = loop /\ pc[r] # "idle"

ThreadsBounded == IsFiniteSet(InThread) /\ Cardinality(InThread) <= Threads

\* The inductive invariant.
IInv ==
    /\ TypeOK
    /\ \A r \in SyncRequest : pc[r] \in SyncPc
    /\ loop # None => pc[loop] # "idle"
    /\ IsFiniteSet(holders)
    /\ HoldersAtWork
    /\ ThreadsBounded

\* Whatever sizes a process was started with, they are positive numbers.
LEMMA Sized ==
  ASSUME sizing \in Sizings
  PROVE  PoolSize \in Nat \ {0} /\ Threads \in Nat \ {0}
  <1>1. sizing \in [pool : Nat \ {0}, threads : Nat \ {0}]
    BY PoolAssumption
  <1> QED
    BY <1>1 DEF PoolSize, Threads

\* It holds when nothing runs.
LEMMA InitIInv == Init => IInv
  <1> SUFFICES ASSUME Init PROVE IInv
    OBVIOUS
  <1>0. PoolSize \in Nat \ {0} /\ Threads \in Nat \ {0}
    BY Sized DEF Init
  <1>1. InThread = {}
    BY DEF Init, InThread, Request, AtWork, Done
  <1>2. TypeOK
    BY <1>0, FS_EmptySet DEF Init, TypeOK, Request, SyncPc, AsyncPc, AtWork, Done, BetweenCalls
  <1>3. ThreadsBounded
    BY <1>0, <1>1, FS_EmptySet DEF ThreadsBounded
  <1>4. HoldersAtWork
    BY DEF Init, HoldersAtWork
  <1>5. IsFiniteSet(holders)
    BY FS_EmptySet DEF Init
  <1> QED
    BY <1>2, <1>3, <1>4, <1>5 DEF Init, IInv, SyncPc, AtWork, Done, BetweenCalls, Request

\* A step gives threads back or takes a free one.
LEMMA ThreadsStep ==
  ASSUME IInv, NEW r \in SyncRequest, UNCHANGED sizing,
         \/ InThread' \subseteq InThread
         \/ InThread' = InThread \cup {r} /\ FreeThread
  PROVE  ThreadsBounded'
  <1> USE DEF IInv, ThreadsBounded
  <1>0. Threads \in Nat \ {0} /\ Threads' = Threads
    BY Sized DEF TypeOK, Threads
  <1>1. CASE InThread' \subseteq InThread
    <2>1. IsFiniteSet(InThread') /\ Cardinality(InThread') <= Cardinality(InThread)
      BY <1>1, FS_Subset
    <2> QED
      BY <1>0, <2>1, FS_CardinalityType
  <1>2. CASE InThread' = InThread \cup {r} /\ FreeThread
    <2>1. /\ IsFiniteSet(InThread')
          /\ \/ Cardinality(InThread') = Cardinality(InThread)
             \/ Cardinality(InThread') = Cardinality(InThread) + 1
      BY <1>2, FS_AddElement
    <2>2. Cardinality(InThread) \in Nat /\ Cardinality(InThread) < Threads
      BY <1>2, FS_CardinalityType DEF FreeThread
    <2> QED
      BY <1>0, <2>1, <2>2
  <1> QED
    BY <1>1, <1>2

\* A step gives connections back or takes a free one.
LEMMA HoldersStep ==
  ASSUME IInv, NEW r \in Request, UNCHANGED sizing,
         \/ holders' \subseteq holders
         \/ holders' = holders \cup {r} /\ FreeConnection
  PROVE  /\ IsFiniteSet(holders')
         /\ Cardinality(holders') <= PoolSize'
         /\ holders' \subseteq Request
  <1> USE DEF IInv, TypeOK
  <1>0. PoolSize \in Nat \ {0} /\ PoolSize' = PoolSize
    BY Sized DEF PoolSize
  <1>1. CASE holders' \subseteq holders
    <2>1. IsFiniteSet(holders') /\ Cardinality(holders') <= Cardinality(holders)
      BY <1>1, FS_Subset
    <2> QED
      BY <1>0, <1>1, <2>1, FS_CardinalityType
  <1>2. CASE holders' = holders \cup {r} /\ FreeConnection
    <2>1. /\ IsFiniteSet(holders')
          /\ \/ Cardinality(holders') = Cardinality(holders)
             \/ Cardinality(holders') = Cardinality(holders) + 1
      BY <1>2, FS_AddElement
    <2>2. Cardinality(holders) \in Nat /\ Cardinality(holders) < PoolSize
      BY <1>2, FS_CardinalityType DEF FreeConnection
    <2> QED
      BY <1>0, <1>2, <2>1, <2>2
  <1> QED
    BY <1>1, <1>2

\* Every step keeps the invariant.
LEMMA NextIInv == IInv /\ [Next]_vars => IInv'
  <1> SUFFICES ASSUME IInv, [Next]_vars PROVE IInv'
    OBVIOUS
  <1> USE RequestAssumption, NoneAssumption
  <1>1. ASSUME NEW r \in SyncRequest, Dispatch(r) \/ SyncStep(r) PROVE IInv'
    <2> DEFINE l == pc'[r]
    <2> USE DEF AtWork, Done, BetweenCalls
    <2>1. /\ pc' = [pc EXCEPT ![r] = l] /\ l \in SyncPc
          /\ loop' = loop /\ sizing' = sizing
          /\ pc[r] \in SyncPc
          /\ \A q \in Request \ {r} : pc'[q] = pc[q]
      BY <1>1
      DEF IInv, TypeOK, Request, Dispatch, SyncStep, Checkout, CheckoutTimeout, UserFound,
          Return, Commit, AfterCommit, TakeResult, DispatchNext, Endpoint, Validate,
          Answer, Close, Goto, SyncPc
    <2>2. \/ holders' = holders
          \/ holders' = holders \cup {r} /\ FreeConnection /\ l \in {"rows", "result"}
          \/ holders' = holders \ {r}
      BY <1>1, <2>1
      DEF IInv, TypeOK, Request, Dispatch, SyncStep, Checkout, CheckoutTimeout, UserFound,
          Return, Commit, AfterCommit, TakeResult, DispatchNext, Endpoint, Validate,
          Answer, Close, Goto
    <2>0. r \in holders => pc[r] \in WithConnection
      BY RequestAssumption DEF IInv, HoldersAtWork
    <2>3. r \in holders' => l \in WithConnection
      BY <1>1, <2>0, <2>1
      DEF IInv, TypeOK, WithConnection, SyncPc, Request, Dispatch, SyncStep, Checkout,
          CheckoutTimeout, UserFound, Return, Commit, AfterCommit, TakeResult,
          DispatchNext, Endpoint, Validate, Answer, Close, Goto
    <2>4. InThread' \subseteq InThread \/ (InThread' = InThread \cup {r} /\ FreeThread)
      <3>1. \A q \in SyncRequest \ {r} : q \in InThread' <=> q \in InThread
        BY <2>1 DEF InThread, Request
      <3>2. CASE Dispatch(r) \/ DispatchNext(r)
        <4>1. r \in InThread' /\ FreeThread
          BY <3>2 DEF Dispatch, DispatchNext, Goto, InThread, IInv, TypeOK, Request
        <4>2. InThread' = InThread \cup {r}
          BY <3>1, <4>1 DEF InThread
        <4> QED
          BY <4>1, <4>2
      <3>3. CASE SyncStep(r) /\ ~DispatchNext(r)
        <4>1. r \in InThread' => r \in InThread
          BY <2>1, <3>3
          DEF SyncStep, Checkout, CheckoutTimeout, UserFound, Return, Commit, AfterCommit,
              TakeResult, Endpoint, Validate, Answer, Close, Goto, InThread, IInv,
              TypeOK, Request
        <4>2. InThread' \subseteq InThread
          BY <3>1, <4>1 DEF InThread
        <4> QED
          BY <4>2
      <3> QED
        BY <1>1, <3>2, <3>3
    <2>5. ThreadsBounded'
      BY <2>1, <2>4, ThreadsStep
    <2>6. /\ IsFiniteSet(holders') /\ Cardinality(holders') <= PoolSize'
          /\ holders' \subseteq Request
      BY <2>1, <2>2, HoldersStep DEF Request
    <2>7. TypeOK'
      BY <2>1, <2>6 DEF IInv, TypeOK, Request
    <2>8. HoldersAtWork'
      BY <2>1, <2>2, <2>3 DEF IInv, TypeOK, HoldersAtWork, Request
    <2>9. /\ \A q \in SyncRequest : pc'[q] \in SyncPc
          /\ loop' # None => pc'[loop'] # "idle"
      BY <2>1 DEF IInv, TypeOK, Request
    <2> QED
      BY <2>5, <2>6, <2>7, <2>8, <2>9 DEF IInv
  <1>2. ASSUME NEW r \in AsyncRequest, Begin(r) \/ AsyncStep(r) PROVE IInv'
    <2> DEFINE l == pc'[r]
    <2>1. /\ pc' = [pc EXCEPT ![r] = l] /\ l \in AsyncPc
          /\ loop \in {r, None} /\ loop' \in {r, None}
          /\ (loop' = r) <=> (l # "idle")
          /\ sizing' = sizing
          /\ \A q \in Request \ {r} : pc'[q] = pc[q]
      BY <1>2
      DEF IInv, TypeOK, HoldersAtWork, Request, Begin, AsyncStep, LoopCheckout,
          LoopTimeout, Authenticated, LeaveLoop, Goto, AsyncPc
    <2>2. \/ holders' = holders
          \/ holders' = holders \cup {r} /\ FreeConnection
          \/ holders' = holders \ {r}
      BY <1>2
      DEF Begin, AsyncStep, LoopCheckout, LoopTimeout, Authenticated, LeaveLoop
    <2>3. r \in holders' => loop' = r
      BY <1>2, <2>1
      DEF IInv, HoldersAtWork, Begin, AsyncStep, LoopCheckout, LoopTimeout,
          Authenticated, LeaveLoop
    <2>4. InThread' = InThread
      BY <2>1 DEF InThread, Request
    <2>5. ThreadsBounded'
      BY <2>1, <2>4 DEF IInv, ThreadsBounded, Threads
    <2>6. /\ IsFiniteSet(holders') /\ Cardinality(holders') <= PoolSize'
          /\ holders' \subseteq Request
      BY <2>1, <2>2, HoldersStep DEF Request
    <2>7. TypeOK'
      BY <2>1, <2>6 DEF IInv, TypeOK, Request
    <2>8. HoldersAtWork'
      BY <2>1, <2>2, <2>3 DEF IInv, TypeOK, HoldersAtWork, Request
    <2>9. /\ \A q \in SyncRequest : pc'[q] \in SyncPc
          /\ loop' # None => pc'[loop'] # "idle"
      BY <2>1 DEF IInv, TypeOK, Request
    <2> QED
      BY <2>5, <2>6, <2>7, <2>8, <2>9 DEF IInv
  <1>3. CASE UNCHANGED vars
    BY <1>3
    DEF vars, IInv, TypeOK, HoldersAtWork, WithConnection, ThreadsBounded, InThread, PoolSize, Threads
  <1> QED
    BY <1>1, <1>2, <1>3 DEF Next

\* The invariant of the specification.
THEOREM PoolInvariant == Spec => []IInv
  BY InitIInv, NextIInv, PTL DEF Spec

\* The pool is never over its limit.
THEOREM PoolTypes == Spec => []TypeOK
  <1>1. IInv => TypeOK
    BY DEF IInv
  <1> QED
    BY PoolInvariant, <1>1, PTL

\* Every path through a request gives its connection back.
THEOREM PoolNoLeaks == Spec => []NoConnectionLeaks
  <1>1. IInv => NoConnectionLeaks
    BY DEF IInv, HoldersAtWork, WithConnection, NoConnectionLeaks
  <1> QED
    BY PoolInvariant, <1>1, PTL

\* A pool with more connections than there are threads cannot come to the
\* standstill in which the loop and every connection wait for each other, unless
\* requests keep its connections while they wait for their next thread.
THEOREM PoolKeepsMoving == Spec => []SizedPoolKeepsMoving
  <1>1. ASSUME IInv, Threads + Cardinality(Kept) < PoolSize, Standstill PROVE FALSE
    <2>1. IsFiniteSet(Kept) /\ IsFiniteSet(InThread) /\ Cardinality(InThread) <= Threads
      BY <1>1, FS_Subset DEF Kept, IInv, ThreadsBounded
    <2>2. holders \subseteq InThread \cup Kept
      BY <1>1, RequestAssumption
      DEF Standstill, IInv, HoldersAtWork, InThread, Kept
    <2>3. IsFiniteSet(InThread \cup Kept)
          /\ Cardinality(InThread \cup Kept)
             = Cardinality(InThread) + Cardinality(Kept) - Cardinality(InThread \cap Kept)
      BY <2>1, FS_Union
    <2>4. /\ Cardinality(InThread) \in Nat /\ Cardinality(Kept) \in Nat
          /\ Cardinality(InThread \cap Kept) \in Nat
          /\ Cardinality(InThread \cup Kept) \in Nat
      BY <2>1, <2>3, FS_CardinalityType, FS_Intersection
    <2>5. Cardinality(holders) <= Cardinality(InThread \cup Kept)
          /\ Cardinality(holders) \in Nat
      BY <1>1, <2>2, <2>3, FS_Subset, FS_CardinalityType DEF IInv
    <2>6. PoolSize \in Nat /\ Threads \in Nat
      BY <1>1, Sized DEF IInv, TypeOK
    <2>7. Cardinality(holders) < PoolSize
      BY <1>1, <2>1, <2>3, <2>4, <2>5, <2>6
    <2> QED
      BY <1>1, <2>7 DEF Standstill, FreeConnection
  <1>2. IInv => SizedPoolKeepsMoving
    BY <1>1 DEF SizedPoolKeepsMoving
  <1> QED
    BY PoolInvariant, <1>2, PTL

=============================================================================
