------------------------------ MODULE Logging ------------------------------
(***************************************************************************)
(* src/logging.rs as src/lib.rs uses it: the requests of all threads of a  *)
(* PAM host share one logger, installed by the first of them under         *)
(* LOG_LOCK, and each thread has a debug flag of its own, which            *)
(* with_debug() sets for the duration of do_authenticate().                *)
(***************************************************************************)
EXTENDS Integers

CONSTANT Threads  \* the threads of the host

ASSUME LoggingAssumption == "free" \notin Threads

VARIABLES
    pc,           \* where each thread stands
    asks,         \* is debug among the options of its request?
    previous,     \* the flag with_debug() will restore
    result,       \* how its request ended
    lock,         \* who holds LOG_LOCK
    poisoned,     \* has a thread panicked while it held LOG_LOCK?
    initialized,  \* the bool under LOG_LOCK
    logger,       \* the logger of the log crate: "none", "ours" or "host"
    max_level,    \* of the log crate: "Off" until set_max_level(Debug)
    REQUEST_DEBUG \* the thread-local flag

local == <<asks, previous, result>>
shared == <<lock, poisoned, initialized, logger, max_level>>
vars == <<pc, local, shared, REQUEST_DEBUG>>

InitPcs == {"check", "open", "install", "level"}
LoggedPcs == {"parse", "body", "reset"}
Pcs == {"idle", "context", "lock", "outcome"} \cup InitPcs \cup LoggedPcs

TypeOK ==
    /\ pc \in [Threads -> Pcs]
    /\ asks \in [Threads -> BOOLEAN]
    /\ previous \in [Threads -> BOOLEAN]
    /\ result \in [Threads -> {"none", "ok", "error", "conflict", "panic"}]
    /\ lock \in Threads \cup {"free"}
    /\ {poisoned, initialized} \subseteq BOOLEAN /\ max_level \in {"Off", "Debug"}
    /\ logger \in {"none", "ours", "host"}
    /\ REQUEST_DEBUG \in [Threads -> BOOLEAN]
    /\ \A t \in Threads : pc[t] \in InitPcs <=> lock = t

(* Code that links this library may have installed a logger before.        *)
Init ==
    /\ pc = [t \in Threads |-> "idle"]
    /\ asks = [t \in Threads |-> FALSE]
    /\ previous = [t \in Threads |-> FALSE]
    /\ result = [t \in Threads |-> "none"]
    /\ lock = "free"
    /\ poisoned = FALSE
    /\ initialized = FALSE
    /\ logger \in {"none", "host"}
    /\ max_level = "Off"
    /\ REQUEST_DEBUG = [t \in Threads |-> FALSE]

Goto(t, label) == pc' = [pc EXCEPT ![t] = label]

Ends(t, label, r) ==
    /\ Goto(t, label)
    /\ result' = [result EXCEPT ![t] = r]
    /\ UNCHANGED <<asks, previous>>

----------------------------------------------------------------------------
(* lib.rs run(), up to the call of init_logging().                         *)

Begin(t) ==
    /\ pc[t] = "idle"
    /\ Goto(t, "context")
    /\ \E debug \in BOOLEAN : asks' = [asks EXCEPT ![t] = debug]
    /\ result' = [result EXCEPT ![t] = "none"]
    /\ UNCHANGED <<previous, shared, REQUEST_DEBUG>>

(* PamContext::new() may not find the user or the service.                 *)
Context(t) ==
    /\ pc[t] = "context"
    /\ \/ Goto(t, "lock") /\ UNCHANGED local
       \/ Ends(t, "outcome", "error")
    /\ UNCHANGED <<shared, REQUEST_DEBUG>>

----------------------------------------------------------------------------
(* init_logging() and init_impl()                                          *)

(* Mutant: there is no lock.                                               *)
AnyTime == TRUE

LockFree == lock = "free"

(* Mutant: lock() is unwrapped, which panics once the lock is poisoned.     *)
AcquireUnwrap(t) ==
    /\ pc[t] = "lock"
    /\ LockFree
    /\ IF poisoned
         THEN Ends(t, "idle", "panic") /\ UNCHANGED lock
         ELSE Goto(t, "check") /\ lock' = t /\ UNCHANGED local
    /\ UNCHANGED <<poisoned, initialized, logger, max_level, REQUEST_DEBUG>>

(* unwrap_or_else(into_inner): a lock that a panic has poisoned is taken like
   any other.                                                              *)
Acquire(t) ==
    /\ pc[t] = "lock"
    /\ LockFree
    /\ Goto(t, "check")
    /\ lock' = t
    /\ UNCHANGED <<local, poisoned, initialized, logger, max_level, REQUEST_DEBUG>>

(* Mutant: the bool is set before init_impl() has succeeded.               *)
MarkEarly(t) ==
    /\ pc[t] = "check"
    /\ ~initialized
    /\ Goto(t, "open")
    /\ initialized' = TRUE
    /\ UNCHANGED <<local, lock, poisoned, logger, max_level, REQUEST_DEBUG>>

NotInitialized(t) ==
    /\ pc[t] = "check"
    /\ ~initialized
    /\ Goto(t, "open")
    /\ UNCHANGED <<local, shared, REQUEST_DEBUG>>

AlreadyInitialized(t) ==
    /\ pc[t] = "check"
    /\ initialized
    /\ Goto(t, "parse")
    /\ lock' = "free"
    /\ UNCHANGED <<local, poisoned, initialized, logger, max_level, REQUEST_DEBUG>>

(* Mutant: a connection to syslog that fails is tried again.               *)
OpenOrRetry(t) ==
    /\ pc[t] = "open"
    /\ \/ Goto(t, "install") /\ UNCHANGED <<local, lock>>
       \/ Goto(t, "lock") /\ lock' = "free" /\ UNCHANGED local
    /\ UNCHANGED <<poisoned, initialized, logger, max_level, REQUEST_DEBUG>>

(* syslog::unix() connects, or not; the guard is dropped on every way out,
   and poisons the lock if that is a panic.                                *)
Open(t) ==
    /\ pc[t] = "open"
    /\ \/ Goto(t, "install") /\ UNCHANGED <<local, lock, poisoned>>
       \/ Ends(t, "outcome", "error") /\ lock' = "free" /\ UNCHANGED poisoned
       \/ Ends(t, "idle", "panic") /\ lock' = "free" /\ poisoned' = TRUE
    /\ UNCHANGED <<initialized, logger, max_level, REQUEST_DEBUG>>

(* set_boxed_logger() succeeds once in the life of a process.              *)
Install(t) ==
    /\ pc[t] = "install"
    /\ logger = "none"
    /\ Goto(t, "level")
    /\ logger' = "ours"
    /\ UNCHANGED <<local, lock, poisoned, initialized, max_level, REQUEST_DEBUG>>

InstallFails(t) ==
    /\ pc[t] = "install"
    /\ logger # "none"
    /\ Ends(t, "outcome", "conflict")
    /\ lock' = "free"
    /\ UNCHANGED <<poisoned, initialized, logger, max_level, REQUEST_DEBUG>>

Level(t) ==
    /\ pc[t] = "level"
    /\ Goto(t, "parse")
    /\ max_level' = "Debug"
    /\ initialized' = TRUE
    /\ lock' = "free"
    /\ UNCHANGED <<local, poisoned, logger, REQUEST_DEBUG>>

----------------------------------------------------------------------------
(* The rest of run(): options and strict checks, and with_debug().         *)

(* Mutant: the flag is a static that all threads share.                    *)
SetForAll(t, value) == [u \in Threads |-> value]

SetFlag(t, value) == [REQUEST_DEBUG EXCEPT ![t] = value]

ParseFails(t) ==
    /\ pc[t] = "parse"
    /\ Ends(t, "outcome", "error") \/ Ends(t, "idle", "panic")
    /\ UNCHANGED <<shared, REQUEST_DEBUG>>

WithDebug(t) ==
    /\ pc[t] = "parse"
    /\ Goto(t, "body")
    /\ previous' = [previous EXCEPT ![t] = REQUEST_DEBUG[t]]
    /\ REQUEST_DEBUG' = SetFlag(t, asks[t])
    /\ UNCHANGED <<asks, result, shared>>

(* do_authenticate() returns or unwinds.                                   *)
Body(t) ==
    /\ pc[t] = "body"
    /\ \E r \in {"ok", "error", "panic"} : Ends(t, "reset", r)
    /\ UNCHANGED <<shared, REQUEST_DEBUG>>

AfterReset(t) == IF result[t] = "panic" THEN "idle" ELSE "outcome"

(* Reset::drop(), also while a panic unwinds to invoke_hook().             *)
Reset(t) ==
    /\ pc[t] = "reset"
    /\ Goto(t, AfterReset(t))
    /\ REQUEST_DEBUG' = SetFlag(t, previous[t])
    /\ UNCHANGED <<local, shared>>

(* sm_authenticate() logs the outcome and returns.                         *)
Outcome(t) ==
    /\ pc[t] = "outcome"
    /\ Goto(t, "idle")
    /\ UNCHANGED <<local, shared, REQUEST_DEBUG>>

(* What a thread does without waiting for anybody outside the process.      *)
Own(t) ==
    \/ Context(t) \/ Acquire(t) \/ NotInitialized(t) \/ AlreadyInitialized(t)
    \/ Open(t) \/ Install(t) \/ InstallFails(t) \/ Level(t) \/ ParseFails(t)
    \/ WithDebug(t) \/ Reset(t) \/ Outcome(t)

Step(t) == Begin(t) \/ Own(t) \/ Body(t)

Next == \E t \in Threads : Step(t)

Spec == Init /\ [][Next]_vars

(* Every thread is scheduled.  Nothing says that another request comes, nor
   that do_authenticate() returns: a legacy request without agent_timeout
   may wait for a mute agent for ever.                                     *)
FairSpec == Spec /\ \A t \in Threads : WF_vars(Own(t))

----------------------------------------------------------------------------
(* Properties.                                                             *)

(* PrefixWrappingLogger::enabled(), which only log_enabled!() would ask.    *)
Enabled(t, level) == level # "debug" \/ REQUEST_DEBUG[t]

(* Does a record reach syslog?  The macros of the log crate compare its level,
   here error, info or debug, with max_level() and call log(), which writes
   what it is given.  Neither asks enabled().                              *)
Written == logger = "ours" /\ max_level = "Debug"

(* enabled() says of a thread that debug messages are wanted while a request
   that asks for them runs on it, and at no other time, whatever other
   threads do and however earlier requests of this thread have ended.      *)
DebugFollowsRequest ==
    \A t \in Threads :
        Enabled(t, "debug") <=> pc[t] \in {"body", "reset"} /\ asks[t]

(* A request goes past init_logging() only when what it logs from then on is
   really written: a failed first attempt does not silence the next ones.  *)
NothingSilenced ==
    \A t \in Threads : pc[t] \in LoggedPcs => Written

(* Two first requests at a time do not fail each other: set_boxed_logger()
   only fails if somebody else has installed a logger.                     *)
NoSelfConflict ==
    \A t \in Threads : result[t] = "conflict" => logger = "host"

(* Every request gets LOG_LOCK if it asks for it, and reaches do_authenticate()
   or its end, whatever becomes of the other requests: LOG_LOCK is released
   on every path, nobody keeps it over do_authenticate(), and a panic under
   it does not shut out the requests that follow.  The one excuse is that
   LOG_LOCK is handed from one other thread to the next for ever, as
   std::sync::Mutex is not fair.                                           *)
NoneShutOut ==
    \A t \in Threads :
        \/ /\ pc[t] = "lock" ~> lock = t
           /\ pc[t] \notin {"idle", "body"} ~> pc[t] \in {"idle", "body"}
        \/ []<>(lock = "free") /\ []<>(lock \notin {t, "free"})

(* "debug: Increase log output" (README.md): the debug messages of
   do_authenticate() are written in requests that ask for them only.       *)
DebugOnlyOnRequest ==
    \A t \in Threads : pc[t] = "body" /\ Written => asks[t]
============================================================================
