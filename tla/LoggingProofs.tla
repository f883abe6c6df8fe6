--------------------------- MODULE LoggingProofs ---------------------------
(***************************************************************************)
(* The debug flag and the one-time installation of the logger, for every   *)
(* set of threads and any number of requests.  FlagInv ties the flag of a  *)
(* thread to its own place in run(); LockInv says how far whoever holds    *)
(* LOG_LOCK has got with the installation.  The last theorem is one of     *)
(* liveness: a request that has got the lock needs at most 6 more steps of *)
(* its own to reach do_authenticate() or its end.                          *)
(***************************************************************************)
EXTENDS Logging, TLAPS

USE LoggingAssumption DEF LoggingAssumption

FlagInv ==
    \A t \in Threads :
        /\ REQUEST_DEBUG[t] <=> pc[t] \in {"body", "reset"} /\ asks[t]
        /\ pc[t] \in {"body", "reset"} => ~previous[t]

LockInv ==
    /\ \A t \in Threads : pc[t] \in {"open", "install", "level"} => ~initialized
    /\ initialized <=> max_level = "Debug"
    /\ initialized => logger = "ours"
    /\ logger = "ours" => initialized \/ \E t \in Threads : pc[t] = "level"
    /\ \A t \in Threads : pc[t] = "level" => logger = "ours"
    /\ \A t \in Threads : pc[t] \in LoggedPcs => initialized
    /\ NoSelfConflict

----------------------------------------------------------------------------
(* Types, among them that the installation is only ever in the hands of the
   thread that holds LOG_LOCK.                                             *)
THEOREM Typing == Spec => []TypeOK
<1>1. Init => TypeOK
  <2> SUFFICES ASSUME Init PROVE TypeOK
    OBVIOUS
  <2>1. \A t \in Threads : ~(pc[t] \in InitPcs) /\ lock # t
    BY DEF Init, InitPcs
  <2>2. REQUEST_DEBUG \in [Threads -> BOOLEAN]
    BY DEF Init
  <2>3. asks \in [Threads -> BOOLEAN] /\ previous \in [Threads -> BOOLEAN]
    BY DEF Init
  <2>4. result \in [Threads -> {"none", "ok", "error", "conflict", "panic"}]
    BY DEF Init
  <2>5. pc \in [Threads -> Pcs]
    BY DEF Init, Pcs
  <2> QED
    BY <2>1, <2>2, <2>3, <2>4, <2>5 DEF Init, TypeOK
<1>2. TypeOK /\ [Next]_vars => TypeOK'
  <2> SUFFICES ASSUME TypeOK, [Next]_vars PROVE TypeOK'
    OBVIOUS
  <2> USE DEF TypeOK, Pcs, InitPcs, LoggedPcs, shared, local, Goto, Ends
  <2>1. ASSUME NEW t \in Threads, Begin(t) PROVE TypeOK'
    BY <2>1 DEF Begin
  <2>2. ASSUME NEW t \in Threads, Context(t) PROVE TypeOK'
    BY <2>2 DEF Context
  <2>3. ASSUME NEW t \in Threads, Acquire(t) PROVE TypeOK'
    BY <2>3 DEF Acquire, LockFree
  <2>4. ASSUME NEW t \in Threads, NotInitialized(t) \/ AlreadyInitialized(t)
        PROVE TypeOK'
    BY <2>4 DEF NotInitialized, AlreadyInitialized
  <2>5. ASSUME NEW t \in Threads, Open(t) PROVE TypeOK'
    BY <2>5 DEF Open
  <2>6. ASSUME NEW t \in Threads, Install(t) \/ InstallFails(t) PROVE TypeOK'
    BY <2>6 DEF Install, InstallFails
  <2>7. ASSUME NEW t \in Threads, Level(t) PROVE TypeOK'
    BY <2>7 DEF Level
  <2>8. ASSUME NEW t \in Threads, ParseFails(t) \/ Body(t) PROVE TypeOK'
    BY <2>8 DEF ParseFails, Body
  <2>9. ASSUME NEW t \in Threads, WithDebug(t) PROVE TypeOK'
    BY <2>9 DEF WithDebug, SetFlag
  <2>10. ASSUME NEW t \in Threads, Reset(t) \/ Outcome(t) PROVE TypeOK'
    BY <2>10 DEF Reset, Outcome, SetFlag, AfterReset
  <2>11. CASE UNCHANGED vars
    BY <2>11 DEF vars
  <2> QED
    BY <2>1, <2>2, <2>3, <2>4, <2>5, <2>6, <2>7, <2>8, <2>9, <2>10, <2>11
    DEF Next, Step, Own
<1> QED
  BY <1>1, <1>2, PTL DEF Spec

----------------------------------------------------------------------------
(* The strengthening, step by step.                                        *)

(* A step of any thread keeps the flags of all of them in order.           *)
LEMMA FlagStep == TypeOK /\ FlagInv /\ [Next]_vars => FlagInv'
<1> SUFFICES ASSUME TypeOK, FlagInv, [Next]_vars PROVE FlagInv'
  OBVIOUS
<1> USE DEF FlagInv, TypeOK, Pcs, InitPcs, LoggedPcs, shared, local, Goto, Ends
<1>1. ASSUME NEW t \in Threads, Begin(t) \/ Context(t) \/ Acquire(t)
      PROVE FlagInv'
  BY <1>1 DEF Begin, Context, Acquire
<1>2. ASSUME NEW t \in Threads,
             NotInitialized(t) \/ AlreadyInitialized(t) \/ Open(t)
      PROVE FlagInv'
  BY <1>2 DEF NotInitialized, AlreadyInitialized, Open
<1>3. ASSUME NEW t \in Threads, Install(t) \/ InstallFails(t) \/ Level(t)
      PROVE FlagInv'
  BY <1>3 DEF Install, InstallFails, Level
<1>4. ASSUME NEW t \in Threads, ParseFails(t) \/ Body(t) \/ Outcome(t)
      PROVE FlagInv'
  BY <1>4 DEF ParseFails, Body, Outcome
<1>5. ASSUME NEW t \in Threads, WithDebug(t) PROVE FlagInv'
  <2>1. ~REQUEST_DEBUG[t]
    BY <1>5 DEF WithDebug
  <2> QED
    BY <1>5, <2>1 DEF WithDebug, SetFlag
<1>6. ASSUME NEW t \in Threads, Reset(t) PROVE FlagInv'
  BY <1>6 DEF Reset, SetFlag, AfterReset
<1>7. CASE UNCHANGED vars
  BY <1>7 DEF vars
<1> QED
  BY <1>1, <1>2, <1>3, <1>4, <1>5, <1>6, <1>7 DEF Next, Step, Own

(* Only one thread is between check and level, so that two cannot both find
   the logger not installed.                                               *)
LEMMA OneInstalls ==
    ASSUME TypeOK, NEW t \in Threads, pc[t] \in InitPcs
    PROVE  \A u \in Threads \ {t} : ~(pc[u] \in InitPcs)
BY DEF TypeOK

(* It keeps in order what the lock protects.                               *)
LEMMA LockStep == TypeOK /\ LockInv /\ [Next]_vars => LockInv'
<1> SUFFICES ASSUME TypeOK, LockInv, [Next]_vars PROVE LockInv'
  OBVIOUS
<1> USE DEF LockInv, NoSelfConflict, TypeOK, Pcs, InitPcs, LoggedPcs, shared,
            local, Goto, Ends
<1>1. ASSUME NEW t \in Threads, Begin(t) \/ Context(t) \/ Acquire(t)
      PROVE LockInv'
  BY <1>1 DEF Begin, Context, Acquire
<1>2. ASSUME NEW t \in Threads, NotInitialized(t) \/ AlreadyInitialized(t)
      PROVE LockInv'
  BY <1>2 DEF NotInitialized, AlreadyInitialized
<1>3. ASSUME NEW t \in Threads, Open(t) PROVE LockInv'
  BY <1>3 DEF Open
<1>4. ASSUME NEW t \in Threads, Install(t) PROVE LockInv'
  BY <1>4 DEF Install
<1>5. ASSUME NEW t \in Threads, InstallFails(t) PROVE LockInv'
  <2>1. \A u \in Threads : pc[u] # "level"
    BY <1>5, OneInstalls DEF InstallFails
  <2>2. logger = "host"
    BY <1>5, <2>1 DEF InstallFails
  <2> QED
    BY <1>5, <2>1, <2>2 DEF InstallFails
<1>6. ASSUME NEW t \in Threads, Level(t) PROVE LockInv'
  <2>1. \A u \in Threads \ {t} : ~(pc[u] \in InitPcs)
    BY <1>6, OneInstalls DEF Level
  <2> QED
    BY <1>6, <2>1 DEF Level
<1>7. ASSUME NEW t \in Threads, ParseFails(t) \/ Body(t) \/ Outcome(t)
      PROVE LockInv'
  BY <1>7 DEF ParseFails, Body, Outcome
<1>8. ASSUME NEW t \in Threads, WithDebug(t) \/ Reset(t) PROVE LockInv'
  BY <1>8 DEF WithDebug, Reset, AfterReset
<1>9. CASE UNCHANGED vars
  BY <1>9 DEF vars
<1> QED
  BY <1>1, <1>2, <1>3, <1>4, <1>5, <1>6, <1>7, <1>8, <1>9 DEF Next, Step, Own

(* The strengthened invariant, in every execution.                         *)
LEMMA Strengthened == Spec => [](TypeOK /\ FlagInv /\ LockInv)
<1>1. Init => FlagInv /\ LockInv
  BY DEF Init, FlagInv, LockInv, NoSelfConflict, LoggedPcs
<1> QED
  BY <1>1, Typing, FlagStep, LockStep, PTL DEF Spec

----------------------------------------------------------------------------
(* enabled() wants debug messages exactly while with_debug() runs a request
   that asks for them, on the thread that runs it.                         *)
THEOREM FlagFollowsRequest == Spec => []DebugFollowsRequest
<1>1. FlagInv => DebugFollowsRequest
  BY DEF FlagInv, DebugFollowsRequest, Enabled
<1> QED
  BY <1>1, Strengthened, PTL

(* Past init_logging() the messages of a request are really written.       *)
THEOREM Heard == Spec => []NothingSilenced
<1>1. LockInv => NothingSilenced
  BY DEF LockInv, NothingSilenced, Written
<1> QED
  BY <1>1, Strengthened, PTL

(* Concurrent first requests do not fail each other.                       *)
THEOREM NoConflict == Spec => []NoSelfConflict
<1>1. LockInv => NoSelfConflict
  BY DEF LockInv
<1> QED
  BY <1>1, Strengthened, PTL
----------------------------------------------------------------------------
(* What becomes of a request once it is past the wait for LOG_LOCK.         *)

(* A thread is scheduled unless it has nothing to do, may have to wait for
   the lock or is in do_authenticate(), of which nothing is assumed: this is
   what WF_vars(Own(t)) comes to without ENABLED.                          *)
Scheduled(t) ==
    []<>(pc[t] \in {"idle", "lock", "body"}) \/ []<><<Own(t)>>_vars

(* The most steps a request has ahead of it on the way from the lock to
   do_authenticate(), and from there to its end.                           *)
Left(t) ==
    CASE pc[t] = "check" -> 6 [] pc[t] = "open" -> 5 [] pc[t] = "install" -> 4
      [] pc[t] = "level" -> 3 [] pc[t] \in {"parse", "reset"} -> 2
      [] pc[t] = "outcome" -> 1 [] OTHER -> 0

(* It is on one of those ways, no more than n steps from where that leads.  *)
Within(t, n) == Left(t) \in 1 .. n

(* Where they lead: the end of the request, or do_authenticate().           *)
There(t) == pc[t] \in {"idle", "body"}

(* A step of its own brings a request closer to one of the two, ...        *)
LEMMA Nearer ==
    ASSUME NEW t \in Threads, TypeOK, Own(t), Left(t) # 0
    PROVE  /\ Left(t)' < Left(t)
           /\ Left(t)' = 0 => There(t)'
<1> USE DEF Left, There, Goto, Ends
<1>1. pc' = [pc EXCEPT ![t] = pc'[t]] /\ pc[t] \in Pcs /\ pc \in [Threads -> Pcs]
  BY DEF TypeOK, Own, Context, Acquire, NotInitialized, AlreadyInitialized, Open,
         Install, InstallFails, Level, ParseFails, WithDebug, Reset, Outcome
<1>2. CASE NotInitialized(t) \/ AlreadyInitialized(t) \/ Open(t)
  BY <1>1, <1>2 DEF NotInitialized, AlreadyInitialized, Open
<1>3. CASE Install(t) \/ InstallFails(t) \/ Level(t)
  BY <1>1, <1>3 DEF Install, InstallFails, Level
<1>4. CASE ParseFails(t) \/ WithDebug(t) \/ Reset(t) \/ Outcome(t)
  BY <1>1, <1>4 DEF ParseFails, WithDebug, Reset, AfterReset, Outcome
<1>5. CASE Context(t) \/ Acquire(t)
  BY <1>5 DEF Context, Acquire
<1> QED
  BY <1>2, <1>3, <1>4, <1>5 DEF Own

(* ... and those of the other threads leave it where it is.                *)
LEMMA OnlyItsOwn ==
    ASSUME NEW t \in Threads, NEW u \in Threads \ {t}, TypeOK, Step(u)
    PROVE  pc'[t] = pc[t]
BY DEF TypeOK, Step, Own, Begin, Context, Acquire, NotInitialized,
       AlreadyInitialized, Open, Install, InstallFails, Level, ParseFails,
       WithDebug, Body, Reset, Outcome, Goto, Ends

(* So a request past the lock stays within n steps of where it gets, and a
   step of its own brings it within one less.                              *)
LEMMA Descends ==
    ASSUME NEW t \in Threads, NEW n \in 1 .. 6, NEW m, m = n - 1, TypeOK,
           Within(t, n), [Next]_vars
    PROVE  /\ Within(t, n)' \/ There(t)'
           /\ <<Own(t)>>_vars => Within(t, m)' \/ There(t)'
<1>1. Left(t) \in 0 .. 6 /\ Left(t)' \in 0 .. 6
  BY DEF Left
<1>2. CASE Own(t)
  BY <1>1, <1>2, Nearer DEF Within
<1>3. CASE pc'[t] = pc[t]
  <2>1. Left(t)' = Left(t) /\ ~Own(t)
    <3>1. Left(t)' = Left(t)
      BY <1>3 DEF Left
    <3> QED
      BY <1>1, <3>1, Nearer DEF Within
  <2> QED
    BY <2>1 DEF Within
<1>4. ~Begin(t) /\ ~Body(t)
  <2>1. pc[t] \notin {"idle", "body"}
    BY DEF Within, Left
  <2> QED
    BY <2>1 DEF Begin, Body
<1>5. CASE UNCHANGED vars
  BY <1>3, <1>5 DEF vars
<1>6. ASSUME NEW u \in Threads \ {t}, Step(u)
      PROVE  pc'[t] = pc[t]
  BY <1>6, OnlyItsOwn
<1> QED
  BY <1>2, <1>3, <1>4, <1>5, <1>6 DEF Next, Step

(* It waits for nothing but to be scheduled.                               *)
LEMMA Waits ==
    ASSUME NEW t \in Threads, NEW n, Within(t, n)
    PROVE  ~(pc[t] \in {"idle", "lock", "body"})
BY DEF Within, Left

(* A request that has got LOG_LOCK reaches do_authenticate() or its end, and
   one that do_authenticate() has let go its end, without the lock, however
   its attempt at init_logging() goes, whatever the other threads do and
   however long their agents or its own take: it waits for nothing on the
   way, and no way keeps the lock.                                         *)
THEOREM LockedRequestEnds ==
    ASSUME NEW t \in Threads
    PROVE  Spec /\ Scheduled(t) =>
              (pc[t] \notin {"idle", "context", "lock", "body"}
                 ~> pc[t] \in {"idle", "body"} /\ lock # t)
<1>1. Spec /\ Scheduled(t) => (Within(t, 6) ~> Within(t, 5) \/ There(t))
  <2>1. /\ TypeOK /\ Within(t, 6) /\ [Next]_vars => Within(t, 6)' \/ There(t)'
        /\ TypeOK /\ Within(t, 6) /\ <<Next /\ Own(t)>>_vars =>
              Within(t, 5)' \/ There(t)'
    BY Descends
  <2>2. Within(t, 6) => ~(pc[t] \in {"idle", "lock", "body"})
    BY Waits
  <2> QED
    BY <2>1, <2>2, Typing, PTL DEF Spec, Scheduled
<1>2. Spec /\ Scheduled(t) => (Within(t, 5) ~> Within(t, 4) \/ There(t))
  <2>1. /\ TypeOK /\ Within(t, 5) /\ [Next]_vars => Within(t, 5)' \/ There(t)'
        /\ TypeOK /\ Within(t, 5) /\ <<Next /\ Own(t)>>_vars =>
              Within(t, 4)' \/ There(t)'
    BY Descends
  <2>2. Within(t, 5) => ~(pc[t] \in {"idle", "lock", "body"})
    BY Waits
  <2> QED
    BY <2>1, <2>2, Typing, PTL DEF Spec, Scheduled
<1>3. Spec /\ Scheduled(t) => (Within(t, 4) ~> Within(t, 3) \/ There(t))
  <2>1. /\ TypeOK /\ Within(t, 4) /\ [Next]_vars => Within(t, 4)' \/ There(t)'
        /\ TypeOK /\ Within(t, 4) /\ <<Next /\ Own(t)>>_vars =>
              Within(t, 3)' \/ There(t)'
    BY Descends
  <2>2. Within(t, 4) => ~(pc[t] \in {"idle", "lock", "body"})
    BY Waits
  <2> QED
    BY <2>1, <2>2, Typing, PTL DEF Spec, Scheduled
<1>4. Spec /\ Scheduled(t) => (Within(t, 3) ~> Within(t, 2) \/ There(t))
  <2>1. /\ TypeOK /\ Within(t, 3) /\ [Next]_vars => Within(t, 3)' \/ There(t)'
        /\ TypeOK /\ Within(t, 3) /\ <<Next /\ Own(t)>>_vars =>
              Within(t, 2)' \/ There(t)'
    BY Descends
  <2>2. Within(t, 3) => ~(pc[t] \in {"idle", "lock", "body"})
    BY Waits
  <2> QED
    BY <2>1, <2>2, Typing, PTL DEF Spec, Scheduled
<1>5. Spec /\ Scheduled(t) => (Within(t, 2) ~> Within(t, 1) \/ There(t))
  <2>1. /\ TypeOK /\ Within(t, 2) /\ [Next]_vars => Within(t, 2)' \/ There(t)'
        /\ TypeOK /\ Within(t, 2) /\ <<Next /\ Own(t)>>_vars =>
              Within(t, 1)' \/ There(t)'
    BY Descends
  <2>2. Within(t, 2) => ~(pc[t] \in {"idle", "lock", "body"})
    BY Waits
  <2> QED
    BY <2>1, <2>2, Typing, PTL DEF Spec, Scheduled
<1>6. Spec /\ Scheduled(t) => (Within(t, 1) ~> Within(t, 0) \/ There(t))
  <2>1. /\ TypeOK /\ Within(t, 1) /\ [Next]_vars => Within(t, 1)' \/ There(t)'
        /\ TypeOK /\ Within(t, 1) /\ <<Next /\ Own(t)>>_vars =>
              Within(t, 0)' \/ There(t)'
    BY Descends
  <2>2. Within(t, 1) => ~(pc[t] \in {"idle", "lock", "body"})
    BY Waits
  <2> QED
    BY <2>1, <2>2, Typing, PTL DEF Spec, Scheduled
<1>7. ~Within(t, 0)
  BY DEF Within
<1>8. TypeOK /\ pc[t] \notin {"idle", "context", "lock", "body"} => Within(t, 6)
  BY DEF TypeOK, Pcs, InitPcs, LoggedPcs, Within, Left
<1>9. TypeOK /\ There(t) => pc[t] \in {"idle", "body"} /\ lock # t
  BY DEF TypeOK, InitPcs, There
<1> QED
  BY <1>1, <1>2, <1>3, <1>4, <1>5, <1>6, <1>7, <1>8, <1>9, Typing, PTL
=============================================================================
