--------------------------- MODULE CommandRunner ---------------------------
(***************************************************************************)
(* src/cmd.rs: run_inner() forks an authorized_keys helper into a process  *)
(* group of its own, drops privileges in it, drains its stdout and stderr  *)
(* until both are closed and the helper has been reaped, and kills the     *)
(* group when a limit is passed.  The helper (and, outside strict mode,    *)
(* its descendants), the kernel and the clock are the environment.         *)
(*                                                                         *)
(* Output is counted in bytes, not spelled out; time is counted in ticks,  *)
(* Milli of which make the millisecond that poll() counts in.              *)
(***************************************************************************)
EXTENDS Integers, FiniteSets

CONSTANTS
    Child,        \* the spawned helper
    Descendants,  \* processes the helper may create
    MaxOutput,    \* MAX_OUTPUT_BYTES
    Chunk,        \* size of the buffer drain_output() reads into
    PipeCap,      \* capacity of a pipe
    Milli,        \* clock ticks in a millisecond
    IdlePoll,     \* milliseconds slept when no stream is open (10)
    MaxPoll,      \* longest timeout poll() can be given (i32::MAX)
    Timeout,      \* ticks from the start of the spawn to the deadline
    MaxClock      \* bound on the clock

ASSUME CommandRunnerAssumption ==
    /\ Child \notin Descendants
    /\ {MaxOutput, Timeout, MaxClock} \subseteq Nat
    /\ {Chunk, PipeCap, Milli, IdlePoll, MaxPoll} \subseteq Nat \ {0}

Procs == {Child} \cup Descendants
Streams == {"stdout", "stderr"}

(* What run_inner() is called with: which wrapper (run or
   run_without_descendants), whether the PAM process is root, the uid to
   drop to, and whether the executable is an absolute path.  A strict
   request may ask for root: run() in lib.rs has checked an earlier lookup
   of the user, filter.rs looks it up again and passes on what it finds.   *)
Requests == [prevent : BOOLEAN, root : BOOLEAN,
             uid : {"root", "user"}, absolute : BOOLEAN]

VARIABLES
    req,       \* the arguments of run_inner()
    pc,        \* where run_inner() stands
    status,    \* the collected ExitStatus: "none", "ok" or "fail"
    out,       \* bytes in stdout_bytes and stderr_bytes
    eof,       \* stdout_eof and stderr_eof
    wake,      \* when the poll() in progress times out
    result,    \* what run_inner() returns, "none" until that is settled
    cred,      \* the helper's credentials and limits
    proc,      \* each process: "unborn", "running", "zombie" or "gone"
    code,      \* how the helper ended
    group,     \* the members of the process group the helper was put in
    killed,    \* the processes with a SIGKILL pending
    writers,   \* the processes holding each pipe's write end
    pipe,      \* bytes in each pipe
    written,   \* history: bytes ever written to each pipe
    pidOwner,  \* whose the helper's process id is: "helper" or "other"
    foreign,   \* history: a signal was sent to a group of somebody else
    clock,
    delayed,   \* history: time passed while run_inner() was not blocked
    spawned,   \* history: when spawn() was last seen at work
    unnoticed  \* history: ticks an ended helper has waited for try_wait()

time == <<clock, delayed, spawned, unnoticed>>
parent == <<pc, status, out, eof, wake, result>>
helper == <<proc, code, group, killed, writers, pipe, written>>
vars == <<req, parent, cred, helper, pidOwner, foreign, time>>

PreExecPcs == {"prepare", "spawn", "setrlimit", "setgroups", "setgid",
               "setuid", "exec"}
LoopPcs == {"stdout", "stderr", "break", "trywait", "deadline", "wait", "poll"}
Errors == {"timeout", "limit", "read", "trywait", "poll", "setup"}
Results == {"none", "invalid", "spawn", "exit", "utf8", "ok"} \cup Errors

TypeOK ==
    /\ req \in Requests
    /\ pc \in PreExecPcs \cup {"setup"} \cup LoopPcs \cup {"kill", "reap", "done"}
    /\ status \in {"none", "ok", "fail"}
    /\ out \in [Streams -> 0 .. MaxOutput]
    /\ eof \in [Streams -> BOOLEAN]
    /\ wake \in Nat
    /\ result \in Results
    /\ cred \in [nproc : BOOLEAN, groups : BOOLEAN, lowgid : BOOLEAN,
                 uid : {"root", "user"}]
    /\ proc \in [Procs -> {"unborn", "running", "zombie", "gone"}]
    /\ code \in {"none", "ok", "fail"}
    /\ group \subseteq Procs
    /\ killed \subseteq Procs
    /\ writers \in [Streams -> SUBSET Procs]
    /\ pipe \in [Streams -> 0 .. PipeCap]
    /\ written \in [Streams -> Nat]
    /\ pidOwner \in {"helper", "other"}
    /\ foreign \in BOOLEAN
    /\ clock \in Nat /\ spawned \in Nat /\ unnoticed \in Nat
    /\ delayed \in BOOLEAN

(* The caller's credentials, which the forked helper starts with.  A caller
   that is not root may happen to have the low-privilege gid already.      *)
Init ==
    /\ req \in Requests
    /\ pc = "prepare"
    /\ status = "none"
    /\ out = [s \in Streams |-> 0]
    /\ eof = [s \in Streams |-> FALSE]
    /\ wake = 0
    /\ result = "none"
    /\ \E low \in BOOLEAN :
          cred = [nproc |-> FALSE, groups |-> TRUE, lowgid |-> low,
                  uid |-> IF req.root THEN "root" ELSE "user"]
    /\ proc = [p \in Procs |-> "unborn"]
    /\ code = "none"
    /\ group = {}
    /\ killed = {}
    /\ writers = [s \in Streams |-> {}]
    /\ pipe = [s \in Streams |-> 0]
    /\ written = [s \in Streams |-> 0]
    /\ pidOwner = "helper"
    /\ foreign = FALSE
    /\ clock = 0
    /\ delayed = FALSE
    /\ spawned = 0
    /\ unnoticed = 0

----------------------------------------------------------------------------
(* Leaving run_inner(): directly, or through terminate_and_reap().         *)

Return(r) ==
    /\ pc' = "done"
    /\ result' = r
    /\ UNCHANGED <<status, out, eof, wake>>

Terminate(error) ==
    /\ pc' = "kill"
    /\ result' = error
    /\ UNCHANGED <<status, out, eof, wake>>

Goto(label) ==
    /\ pc' = label
    /\ UNCHANGED <<status, out, eof, wake, result>>

----------------------------------------------------------------------------
(* Validation and the steps between fork and exec.  The parent waits for
   them; std reaps the child itself when one fails.                        *)

(* The executable must be absolute; on macOS the group lookup may fail.    *)
Prepare ==
    /\ pc = "prepare"
    /\ \/ req.absolute /\ Goto("spawn")
       \/ Return("invalid")
    /\ UNCHANGED <<req, cred, helper, pidOwner, foreign, time>>

(* The deadline is fixed, then the process is forked.                      *)
Spawn ==
    /\ pc = "spawn"
    /\ Goto("setrlimit") \/ Return("spawn")
    /\ UNCHANGED <<req, cred, helper, pidOwner, foreign, time>>

Privileged == cred.uid = "root"

(* One pre_exec system call: it takes effect and the next one follows, or
   it fails and so does the spawn.                                         *)
PreExec(label, allowed, newCred, next) ==
    /\ pc = label
    /\ \/ allowed /\ cred' = newCred /\ Goto(next)
       \/ cred' = cred /\ Return("spawn")
    /\ UNCHANGED <<req, helper, pidOwner, foreign, time>>

(* Mutant: the process limit is only set by a privileged caller.           *)
RlimitForRoot ==
    PreExec("setrlimit", TRUE,
            [cred EXCEPT !.nproc = IF req.prevent /\ req.root THEN TRUE ELSE @],
            "setgroups")

SetRlimit ==
    PreExec("setrlimit", TRUE, [cred EXCEPT !.nproc = IF req.prevent THEN TRUE ELSE @],
            "setgroups")

(* Mutant: supplementary groups are kept.                                  *)
KeepGroups == PreExec("setgroups", TRUE, cred, "setgid")

(* setgroups is only called by root (clear_groups), and needs privilege.   *)
SetGroups ==
    PreExec("setgroups", req.root => Privileged,
            [cred EXCEPT !.groups = IF req.root THEN FALSE ELSE @], "setgid")

SetGid ==
    PreExec("setgid", Privileged \/ cred.lowgid,
            [cred EXCEPT !.lowgid = TRUE], "setuid")

SetUid ==
    PreExec("setuid", Privileged \/ req.uid = cred.uid,
            [cred EXCEPT !.uid = req.uid], "exec")

(* exec succeeds: the helper runs, alone in its group, holding both pipes. *)
Exec ==
    /\ pc = "exec"
    /\ \/ /\ Goto("setup")
          /\ proc' = [proc EXCEPT ![Child] = "running"]
          /\ group' = {Child}
          /\ writers' = [s \in Streams |-> {Child}]
          /\ UNCHANGED <<code, killed, pipe, written>>
       \/ Return("spawn") /\ UNCHANGED helper
    /\ UNCHANGED <<req, cred, pidOwner, foreign, time>>

SetNonblocking ==
    /\ pc = "setup"
    /\ Goto("stdout") \/ Terminate("setup")
    /\ UNCHANGED <<req, cred, helper, pidOwner, foreign, time>>

----------------------------------------------------------------------------
(* The loop of run_inner().                                                *)

Smaller(a, b) == IF a <= b THEN a ELSE b
Larger(a, b) == IF a <= b THEN b ELSE a

(* Mutant: output of exactly the limit is refused.                         *)
OverLimitOffByOne(length, count) == length + count >= MaxOutput

(* Mutant: one byte more than the limit is kept.                           *)
OverLimitLate(length, count) == length + count > MaxOutput + 1

OverLimit(length, count) == length + count > MaxOutput

After(s) == IF s = "stdout" THEN "stderr" ELSE "break"

(* One read() of drain_output().  EINTR repeats it, which is no step.      *)
DrainOutput(s) ==
    LET count == Smaller(Chunk, pipe[s]) IN
    /\ pc = s
    /\ \/ /\ pipe[s] = 0
          /\ writers[s] = {}
          /\ eof' = [eof EXCEPT ![s] = TRUE]
          /\ pc' = After(s)
          /\ UNCHANGED <<status, out, wake, result, pipe>>
       \/ /\ pipe[s] = 0
          /\ writers[s] # {}
          /\ Goto(After(s))
          /\ UNCHANGED pipe
       \/ /\ pipe[s] > 0
          /\ pipe' = [pipe EXCEPT ![s] = @ - count]
          /\ IF OverLimit(out[s], count)
               THEN Terminate("limit")
               ELSE /\ out' = [out EXCEPT ![s] = @ + count]
                    /\ UNCHANGED <<pc, status, eof, wake, result>>
       \/ Terminate("read") /\ UNCHANGED pipe
    /\ UNCHANGED <<req, cred, proc, code, group, killed, writers, written,
                   pidOwner, foreign, time>>

(* Mutant: the streams are not awaited once the helper has been reaped.    *)
FinishedWhenReaped == status # "none"

Finished == status # "none" /\ \A s \in Streams : eof[s]

(* Mutant: the exit status is not looked at.                               *)
AnyStatus == {"ok", "utf8"}

(* What the collected status and output come to: only a zero status counts,
   and whatever was printed has to be UTF-8.                               *)
Outcome ==
    IF status # "ok" THEN {"exit"}
    ELSE {"ok"} \cup {"utf8" : s \in {t \in Streams : out[t] > 0}}

Break ==
    /\ pc = "break"
    /\ IF Finished THEN \E r \in Outcome : Return(r) ELSE Goto("trywait")
    /\ UNCHANGED <<req, cred, helper, pidOwner, foreign, time>>

Collected == code

(* try_wait() reaps a finished helper, after which its pid is free.        *)
TryWait ==
    /\ pc = "trywait"
    /\ \/ /\ status # "none" \/ proc[Child] = "running"
          /\ Goto("deadline")
          /\ UNCHANGED proc
       \/ /\ status = "none"
          /\ proc[Child] = "zombie"
          /\ status' = Collected
          /\ proc' = [proc EXCEPT ![Child] = "gone"]
          /\ pc' = "deadline"
          /\ UNCHANGED <<out, eof, wake, result>>
       \/ /\ status = "none"
          /\ Terminate("trywait")
          /\ UNCHANGED proc
    /\ UNCHANGED <<req, cred, code, group, killed, writers, pipe, written,
                   pidOwner, foreign, time>>

(* Mutant: the time allowed only starts when spawn() has returned.         *)
ExpiryAfterSpawn == spawned + Timeout

Expiry == Timeout

CheckDeadline ==
    /\ pc = "deadline"
    /\ IF clock >= Expiry THEN Terminate("timeout") ELSE Goto("wait")
    /\ UNCHANGED <<req, cred, helper, pidOwner, foreign, time>>

NoOpenStreams == \A s \in Streams : eof[s]

(* Mutant: the idle poll waits for the deadline too.                       *)
PollForever(remaining, idle) ==
    Milli * Larger(1, remaining \div Milli)

(* The timeout given to poll(), in ticks: whole milliseconds, clamped.     *)
PollTicks(remaining, idle) ==
    Milli * Larger(1, Smaller(remaining \div Milli,
                              IF idle THEN IdlePoll ELSE MaxPoll))

(* wait_for_output() computes the time left and calls poll() ...           *)
StartPoll ==
    /\ pc = "wait"
    /\ IF clock >= Expiry
         THEN Goto("stdout")
         ELSE /\ pc' = "poll"
              /\ wake' = clock + PollTicks(Expiry - clock, NoOpenStreams)
              /\ UNCHANGED <<status, out, eof, result>>
    /\ UNCHANGED <<req, cred, helper, pidOwner, foreign, time>>

Ready == \E s \in Streams : ~eof[s] /\ (pipe[s] > 0 \/ writers[s] = {})

PollReturns == Ready \/ clock >= wake

(* ... which reports a stream or times out, ...                            *)
EndPoll ==
    /\ pc = "poll"
    /\ PollReturns
    /\ Goto("stdout")
    /\ UNCHANGED <<req, cred, helper, pidOwner, foreign, time>>

(* ... or is interrupted, and repeated with a timeout of its own, which
   starts the wait for an ended helper anew, or fails.                     *)
PollDisturbed ==
    /\ pc = "poll"
    /\ Goto("wait") \/ Terminate("poll")
    /\ unnoticed' = 0
    /\ UNCHANGED <<req, cred, helper, pidOwner, foreign, clock, delayed, spawned>>

----------------------------------------------------------------------------
(* terminate_and_reap().                                                   *)

Running(S) == {p \in S : proc[p] = "running"}

(* Mutant: only the helper itself is killed.                               *)
ChildTargetOnly == IF status = "none" THEN Running({Child}) ELSE {}

(* Mutant: only the group is killed.                                       *)
GroupTargetOnly == IF pidOwner = "helper" THEN Running(group) ELSE {}

(* kill(-pid) reaches the group that has the helper's pid as its id, and
   Child::kill() the helper unless std has already collected its status.   *)
KillTargets ==
    (IF pidOwner = "helper" THEN Running(group) ELSE {})
      \cup (IF status = "none" THEN Running({Child}) ELSE {})

Kill ==
    /\ pc = "kill"
    /\ killed' = killed \cup KillTargets
    /\ foreign' = IF pidOwner = "other" THEN TRUE ELSE foreign
    /\ Goto("reap")
    /\ UNCHANGED <<req, cred, proc, code, group, writers, pipe, written,
                   pidOwner, time>>

(* Mutant: the error is returned without Child::wait().                    *)
NoReap ==
    /\ pc = "reap"
    /\ Return(result)
    /\ UNCHANGED <<req, cred, helper, pidOwner, foreign, time>>

(* Child::wait(): a status collected before, or a blocking wait.           *)
Reap ==
    /\ pc = "reap"
    /\ status # "none" \/ proc[Child] = "zombie"
    /\ proc' = [proc EXCEPT ![Child] = "gone"]
    /\ Return(result)
    /\ UNCHANGED <<req, cred, code, group, killed, writers, pipe, written,
                   pidOwner, foreign, time>>

Parent ==
    \/ Prepare \/ Spawn \/ SetRlimit \/ SetGroups \/ SetGid \/ SetUid \/ Exec
    \/ SetNonblocking \/ (\E s \in Streams : DrainOutput(s)) \/ Break
    \/ TryWait \/ CheckDeadline \/ StartPoll \/ EndPoll \/ Kill \/ Reap

----------------------------------------------------------------------------
(* The helper and its descendants, as far as the parent can tell.  A
   process with a pending SIGKILL does nothing more.                       *)

Alive(p) == pc # "done" /\ proc[p] = "running" /\ p \notin killed

Write(p, s) ==
    /\ Alive(p)
    /\ p \in writers[s]
    /\ pipe[s] < PipeCap
    /\ pipe' = [pipe EXCEPT ![s] = @ + 1]
    /\ written' = [written EXCEPT ![s] = @ + 1]
    /\ UNCHANGED <<req, parent, cred, proc, code, group, killed, writers,
                   pidOwner, foreign, time>>

Close(p, s) ==
    /\ Alive(p)
    /\ p \in writers[s]
    /\ writers' = [writers EXCEPT ![s] = @ \ {p}]
    /\ UNCHANGED <<req, parent, cred, proc, code, group, killed, pipe, written,
                   pidOwner, foreign, time>>

(* RLIMIT_NPROC of zero refuses every fork, except to root.                *)
MayFork == cred.nproc => Privileged

Fork(p, d) ==
    /\ Alive(p)
    /\ MayFork
    /\ proc[d] = "unborn"
    /\ proc' = [proc EXCEPT ![d] = "running"]
    /\ group' = IF p \in group THEN group \cup {d} ELSE group
    /\ writers' = [s \in Streams |-> IF p \in writers[s] THEN writers[s] \cup {d}
                                     ELSE writers[s]]
    /\ UNCHANGED <<req, parent, cred, code, killed, pipe, written, pidOwner,
                   foreign, time>>

(* setsid() or setpgid().                                                  *)
LeaveGroup(p) ==
    /\ Alive(p)
    /\ p \in group
    /\ group' = group \ {p}
    /\ UNCHANGED <<req, parent, cred, proc, code, killed, writers, pipe, written,
                   pidOwner, foreign, time>>

(* A process ends: of its own accord with status c, or killed.  The helper
   stays a zombie for its parent to reap; init reaps the others.           *)
End(p, c) ==
    /\ proc' = [proc EXCEPT ![p] = IF p = Child THEN "zombie" ELSE "gone"]
    /\ code' = IF p = Child THEN c ELSE code
    /\ writers' = [s \in Streams |-> writers[s] \ {p}]
    /\ UNCHANGED <<req, parent, cred, group, killed, pipe, written, pidOwner,
                   foreign, time>>

Exit(p) == Alive(p) /\ \E c \in {"ok", "fail"} : End(p, c)

Die(p) == pc # "done" /\ p \in killed /\ proc[p] = "running" /\ End(p, "fail")

(* The kernel hands out the pid of a reaped process again once no group is
   named after it, and the new owner starts a group of its own.            *)
RecyclePid ==
    /\ pc # "done"
    /\ proc[Child] = "gone"
    /\ Running(group) = {}
    /\ pidOwner = "helper"
    /\ pidOwner' = "other"
    /\ UNCHANGED <<req, parent, cred, helper, foreign, time>>

(* spawn() waits for the new process to report that exec succeeded.        *)
Spawning == pc \in PreExecPcs \ {"prepare", "spawn"}

Blocked == (pc = "poll" /\ ~PollReturns) \/ Spawning

(* The helper has ended and nobody holds a pipe: all there is left for
   run_inner() to do is to find that out.                                  *)
AllOver == proc[Child] = "zombie" /\ \A s \in Streams : writers[s] = {}

(* Time passes once the deadline has been fixed.                           *)
Tick ==
    /\ pc \notin {"prepare", "done"}
    /\ clock < MaxClock
    /\ clock' = clock + 1
    /\ delayed' = (delayed \/ ~Blocked)
    /\ spawned' = IF Spawning THEN clock' ELSE spawned
    /\ unnoticed' = IF AllOver THEN unnoticed + 1 ELSE unnoticed
    /\ UNCHANGED <<req, parent, cred, helper, pidOwner, foreign>>

Environment ==
    \/ \E p \in Procs :
          \/ \E s \in Streams : Write(p, s) \/ Close(p, s)
          \/ \E d \in Descendants : Fork(p, d)
          \/ LeaveGroup(p)
          \/ Exit(p)
          \/ Die(p)
    \/ RecyclePid
    \/ Tick

(* run_inner() has returned; nothing is left to happen.                    *)
Returned == pc = "done" /\ UNCHANGED vars

Next == Parent \/ PollDisturbed \/ Environment \/ Returned

Spec == Init /\ [][Next]_vars

(* The thread running run_inner() is scheduled, time passes and a killed
   process dies.  Nothing is assumed of a helper that was not killed, and no
   signal has to interrupt poll().                                         *)
Fairness ==
    /\ WF_vars(Parent)
    /\ WF_vars(Tick)
    /\ \A p \in Procs : WF_vars(Die(p))

FairSpec == Spec /\ Fairness

----------------------------------------------------------------------------
(* Properties.                                                             *)

TerminatedByParent == pc = "done" /\ result \in Errors

(* However run_inner() returns, the helper it spawned has been reaped: no
   error path leaves a running helper or a zombie behind.                  *)
ReapedOnReturn == pc = "done" => proc[Child] \in {"unborn", "gone"}

(* Ok carries everything: a zero exit status, every byte that anybody wrote
   to either pipe, and nobody left who could still write.                  *)
CompleteOutput ==
    pc = "done" /\ result = "ok" =>
        /\ code = "ok"
        /\ out = written
        /\ \A s \in Streams : writers[s] = {}

(* "output limit exceeded" is reported only of a helper that did write more
   than MAX_OUTPUT_BYTES to one stream, and drain_output() never keeps more
   than that of either, however fast the helper floods it.                 *)
LimitIsExact ==
    /\ result = "limit" => \E s \in Streams : written[s] > MaxOutput
    /\ \A s \in Streams : out[s] <= MaxOutput

(* When terminate_and_reap() has run, no member of the helper's process
   group survives it, whoever forked it and whenever.                      *)
GroupKilled == TerminatedByParent => Running(group) \subseteq killed

(* From exec on the helper has the uid asked for, the low-privilege group,
   no supplementary group of a root caller and, in strict mode, a process
   limit of zero.                                                          *)
HelperConfined ==
    proc[Child] # "unborn" =>
        /\ cred.uid = req.uid
        /\ cred.lowgid
        /\ req.root => ~cred.groups
        /\ req.prevent => cred.nproc

(* run_without_descendants(): a strict helper that does not run as root
   never has a descendant, whoever the caller is.  RLIMIT_NPROC in cmd.rs
   does not hold back root, and cmd.rs itself does not refuse root: what
   run() in lib.rs looked at was another lookup of the helper's user.      *)
StrictHelperIsAlone ==
    req.prevent /\ req.uid # "root" => \A d \in Descendants : proc[d] = "unborn"

(* The signal of terminate_and_reap() goes to the helper's own group, never
   to the group of a process that was given the helper's old pid.          *)
OnlyOwnGroupKilled == ~foreign

(* The weaker fact the code does ensure: the signal can only go astray when
   try_wait() had reaped the helper before terminate_and_reap() ran.       *)
AstrayOnlyAfterTryWait == foreign => status # "none"

(* With a prompt scheduler run_inner() overruns its deadline by less than
   the millisecond poll() rounds to, whatever helper and signals do; and
   where spawn() alone takes longer, by nothing on top of that.            *)
DeadlineHolds == ~delayed => clock < Larger(Timeout, spawned) + Milli

(* With a prompt scheduler, a helper that has ended and whose pipes nobody
   holds waits at most IdlePoll milliseconds for try_wait(), even when it
   had closed both pipes long before and poll() has no stream to report.
   A signal that interrupts poll() starts the count anew: wait_for_output()
   polls again, with a fresh timeout, before run_inner() looks.            *)
ExitNoticed == ~delayed => unnoticed <= Milli * IdlePoll

(* run_inner() returns, even if the helper hangs, floods a pipe, or leaves
   descendants that keep the pipes open.                                   *)
Terminates == <>(pc = "done")

(* The caller's view: the helper's life, what has been collected, and the
   verdict.                                                                *)
Stage == [unborn |-> "none", running |-> "running", zombie |-> "ended",
          gone |-> "reaped"]
HelperStage == Stage[proc[Child]]

AllCollected == \A s \in Streams : out[s] = written[s] /\ writers[s] = {}

Verdict ==
    IF pc # "done" THEN "pending" ELSE IF result = "ok" THEN "good" ELSE "bad"

Contract == INSTANCE HelperContract WITH
    helper <- HelperStage, status <- code, whole <- AllCollected, verdict <- Verdict

(* run_inner() keeps the promise of HelperContract: the helper's life goes
   one way, a good verdict needs all of it and of its output, and no
   verdict leaves it behind or is followed by another.                     *)
ImplementsContract == Contract!Spec
============================================================================
