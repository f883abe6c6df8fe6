------------------------ MODULE CommandRunnerProofs ------------------------
(***************************************************************************)
(* The safety properties of CommandRunner, for every set of descendants    *)
(* and every limit, capacity and timeout.  Three inductive invariants are  *)
(* layered: the life cycle of the helper (LifeInv), what is in the pipes   *)
(* and the buffers (PipeInv), and who is in the process group (GroupInv);  *)
(* the credentials (CredInv), the clock (ClockInv) and the time an ended   *)
(* helper has waited (NoticeInv) stand beside them.                        *)
(* Then the refinement of HelperContract, and what happens once the        *)
(* deadline has passed: few steps are left (FewStepsLeft), and what was    *)
(* decided then is carried out (CutShort).                                 *)
(***************************************************************************)
EXTENDS CommandRunner, TLAPS

USE CommandRunnerAssumption DEF CommandRunnerAssumption, time, Expiry

AfterExecPcs == {"setup", "kill", "reap"} \cup LoopPcs

(* Where run_inner() stands tells what has become of the helper.           *)
LifeInv ==
    /\ pc \in PreExecPcs => \A p \in Procs : proc[p] = "unborn"
    /\ pc \in PreExecPcs \cup {"setup"} => status = "none"
    /\ pc \in AfterExecPcs => proc[Child] # "unborn"
    /\ pc \in AfterExecPcs /\ status = "none" => proc[Child] # "gone"
    /\ status # "none" => proc[Child] = "gone" /\ code = status
    /\ proc[Child] = "unborn" => \A p \in Procs : proc[p] = "unborn"
    /\ proc[Child] = "zombie" => code # "none"
    /\ pc = "done" => proc[Child] \in {"unborn", "gone"}
    /\ pc \in {"kill", "reap"} => result \in Errors
    /\ pc \in PreExecPcs \cup {"setup"} \cup LoopPcs => result = "none"
    /\ result \in {"ok", "exit", "utf8"} =>
          status # "none" /\ \A s \in Streams : eof[s]
    /\ result = "ok" => status = "ok"

(* No byte is lost between a pipe and its buffer, and a stream is only ever
   taken to be at its end when it is.                                      *)
PipeInv ==
    /\ \A s \in Streams :
          /\ result # "limit" => out[s] + pipe[s] = written[s]
          /\ eof[s] => pipe[s] = 0 /\ writers[s] = {}
          /\ \A p \in writers[s] : proc[p] = "running"
          /\ pc \in PreExecPcs => ~eof[s]
    /\ LimitIsExact

(* Once the signal has been sent it has reached every running member of the
   group, and so no member is left that could fork another.                *)
GroupInv ==
    /\ pc \in {"reap", "done"} /\ result \in Errors =>
          \A p \in group : proc[p] = "running" => p \in killed
    /\ pidOwner = "other" =>
          proc[Child] = "gone" /\ \A p \in group : proc[p] # "running"
    /\ \A p \in group : proc[p] # "unborn"
    /\ AstrayOnlyAfterTryWait

(* What each of the pre_exec steps has established by the time it is over. *)
CredInv ==
    /\ pc \in {"setgroups", "setgid", "setuid", "exec"} =>
          (req.prevent => cred.nproc)
    /\ pc \in {"setgid", "setuid", "exec"} => (req.root => ~cred.groups)
    /\ pc \in {"setuid", "exec"} => cred.lowgid
    /\ pc = "exec" => cred.uid = req.uid
    /\ HelperConfined
    /\ StrictHelperIsAlone

(* poll() is never asked to sleep past the deadline by a millisecond.      *)
ClockInv ==
    /\ pc = "poll" => wake < Timeout + Milli
    /\ spawned <= clock
    /\ DeadlineHolds

(* How long an ended helper has waited, told by where run_inner() stands:
   not at all when try_wait() has just found it running, and during a poll()
   of no streams for less than that poll() has lasted.                     *)
IdleTicks == Milli * IdlePoll

NoticeInv ==
    /\ proc[Child] \in {"unborn", "running"} => unnoticed = 0
    /\ ExitNoticed
    /\ ~delayed /\ status = "none" =>
          /\ pc \in {"deadline", "wait"} => unnoticed = 0
          /\ pc = "poll" /\ ~NoOpenStreams => unnoticed = 0
          /\ pc = "poll" /\ NoOpenStreams => unnoticed + wake <= IdleTicks + clock

----------------------------------------------------------------------------
(* A pre_exec system call touches the credentials only, and is followed by
   the next one or fails the spawn.                                        *)
LEMMA PreExecKeeps ==
    ASSUME SetRlimit \/ SetGroups \/ SetGid \/ SetUid
    PROVE  /\ UNCHANGED <<req, helper, pidOwner, foreign, time, status, out, eof, wake>>
           /\ pc \in PreExecPcs
           /\ \/ pc' \in PreExecPcs /\ result' = result
              \/ pc' = "done" /\ result' = "spawn"
BY DEF SetRlimit, SetGroups, SetGid, SetUid, PreExec, PreExecPcs, Goto, Return

(* What the type invariant says of cred.                                   *)
Credentials == [nproc : BOOLEAN, groups : BOOLEAN, lowgid : BOOLEAN,
                uid : {"root", "user"}]

(* It leaves credentials that are well-formed.                             *)
LEMMA PreExecType ==
    ASSUME TypeOK, SetRlimit \/ SetGroups \/ SetGid \/ SetUid
    PROVE  cred' \in Credentials
<1>1. /\ cred \in Credentials
      /\ req.prevent \in BOOLEAN /\ req.root \in BOOLEAN
      /\ req.uid \in {"root", "user"}
  BY DEF TypeOK, Requests, Credentials
<1>2. \A b \in BOOLEAN : /\ [cred EXCEPT !.nproc = b] \in Credentials
                         /\ [cred EXCEPT !.groups = b] \in Credentials
                         /\ [cred EXCEPT !.lowgid = b] \in Credentials
  BY <1>1 DEF Credentials
<1>3. [cred EXCEPT !.uid = req.uid] \in Credentials
  BY <1>1 DEF Credentials
<1>4. CASE SetRlimit
  <2>1. (IF req.prevent THEN TRUE ELSE cred.nproc) \in BOOLEAN
    BY <1>1 DEF Credentials
  <2> QED
    BY <1>1, <1>2, <1>4, <2>1 DEF SetRlimit, PreExec
<1>5. CASE SetGroups
  <2>1. (IF req.root THEN FALSE ELSE cred.groups) \in BOOLEAN
    BY <1>1 DEF Credentials
  <2> QED
    BY <1>1, <1>2, <1>5, <2>1 DEF SetGroups, PreExec
<1>6. CASE SetGid
  BY <1>1, <1>2, <1>6 DEF SetGid, PreExec
<1>7. CASE SetUid
  BY <1>1, <1>3, <1>7 DEF SetUid, PreExec
<1> QED
  BY <1>4, <1>5, <1>6, <1>7

(* drain_output() never lets a buffer grow past MAX_OUTPUT_BYTES, and every
   other variable keeps its type.                                          *)
THEOREM Typing == Spec => []TypeOK
<1>1. Init => TypeOK
  <2> SUFFICES ASSUME Init PROVE TypeOK
    OBVIOUS
  <2>1. cred \in [nproc : BOOLEAN, groups : BOOLEAN, lowgid : BOOLEAN,
                 uid : {"root", "user"}]
    BY DEF Init
  <2>2. req \in Requests
    BY DEF Init
  <2>3. out \in [Streams -> 0 .. MaxOutput] /\ pipe \in [Streams -> 0 .. PipeCap]
    BY DEF Init
  <2> QED
    BY <2>1, <2>2, <2>3 DEF Init, TypeOK, PreExecPcs, Results
<1>2. TypeOK /\ [Next]_vars => TypeOK'
  <2> SUFFICES ASSUME TypeOK, [Next]_vars PROVE TypeOK'
    OBVIOUS
  <2> USE DEF TypeOK, PreExecPcs, LoopPcs, Results, Errors, parent, helper,
              Return, Terminate, Goto
  <2>1. CASE Prepare
    BY <2>1 DEF Prepare
  <2>2. CASE Spawn
    BY <2>2 DEF Spawn
  <2>3. CASE SetRlimit \/ SetGroups \/ SetGid \/ SetUid
    <3>1. cred' \in Credentials
      BY <2>3, PreExecType
    <3> QED
      BY <2>3, <3>1, PreExecKeeps DEF Credentials, time
  <2>7. CASE Exec
    BY <2>7 DEF Exec, Procs
  <2>8. CASE SetNonblocking
    BY <2>8 DEF SetNonblocking
  <2>9. ASSUME NEW s \in Streams, DrainOutput(s) PROVE TypeOK'
    <3> DEFINE count == Smaller(Chunk, pipe[s])
    <3>1. count \in 0 .. pipe[s]
      BY DEF Smaller
    <3>2. pipe' \in [Streams -> 0 .. PipeCap]
      BY <2>9, <3>1 DEF DrainOutput
    <3>3. out' \in [Streams -> 0 .. MaxOutput]
      BY <2>9, <3>1 DEF DrainOutput, OverLimit
    <3>4. /\ pc' \in {pc, "stderr", "break", "kill"}
          /\ result' \in {result, "limit", "read"}
      BY <2>9 DEF DrainOutput, After
    <3>5. eof' \in [Streams -> BOOLEAN]
      BY <2>9 DEF DrainOutput
    <3> QED
      BY <2>9, <3>2, <3>3, <3>4, <3>5 DEF DrainOutput
  <2>10. CASE Break
    BY <2>10 DEF Break, Outcome
  <2>11. CASE TryWait
    BY <2>11 DEF TryWait, Collected
  <2>12. CASE CheckDeadline
    BY <2>12 DEF CheckDeadline
  <2>13. CASE StartPoll
    BY <2>13 DEF StartPoll, PollTicks, Larger, Smaller
  <2>14. CASE EndPoll \/ PollDisturbed
    BY <2>14 DEF EndPoll, PollDisturbed
  <2>15. CASE Kill
    <3>1. foreign' \in BOOLEAN
      BY <2>15 DEF Kill
    <3>2. KillTargets \subseteq Procs
      BY DEF KillTargets, Running, Procs
    <3>3. UNCHANGED <<clock, delayed, spawned, unnoticed>>
      BY <2>15 DEF Kill
    <3>4. killed' \subseteq Procs
      BY <2>15, <3>2 DEF Kill
    <3>5. /\ pc' = "reap"
          /\ UNCHANGED <<req, status, out, eof, wake, result, cred, proc, code,
                         group, writers, pipe, written, pidOwner>>
      BY <2>15 DEF Kill
    <3> QED
      BY <3>1, <3>3, <3>4, <3>5
  <2>16. CASE Reap
    <3>1. proc' \in [Procs -> {"unborn", "running", "zombie", "gone"}]
      BY <2>16 DEF Reap
    <3> QED
      BY <2>16, <3>1 DEF Reap
  <2>17. ASSUME NEW p \in Procs, NEW s \in Streams, Write(p, s) \/ Close(p, s)
         PROVE  TypeOK'
    BY <2>17 DEF Write, Close
  <2>18. ASSUME NEW p \in Procs, NEW d \in Descendants, Fork(p, d)
         PROVE  TypeOK'
    BY <2>18 DEF Fork, Procs
  <2>19. ASSUME NEW p \in Procs, LeaveGroup(p) PROVE TypeOK'
    BY <2>19 DEF LeaveGroup
  <2>20. ASSUME NEW p \in Procs, Exit(p) \/ Die(p) PROVE TypeOK'
    BY <2>20 DEF Exit, Die, End
  <2>21. CASE RecyclePid
    BY <2>21 DEF RecyclePid
  <2>22. CASE Tick
    BY <2>22 DEF Tick
  <2>23. CASE Returned \/ UNCHANGED vars
    BY <2>23 DEF Returned, vars
  <2> QED
    BY <2>1, <2>2, <2>3, <2>7, <2>8, <2>9, <2>10, <2>11,
       <2>12, <2>13, <2>14, <2>15, <2>16, <2>17, <2>18, <2>19, <2>20, <2>21,
       <2>22, <2>23 DEF Next, Parent, Environment
<1> QED
  BY <1>1, <1>2, PTL DEF Spec

(* Every step of run_inner(), of the helper and of the kernel keeps track of
   the helper's life cycle.                                                *)
LEMMA LifeStep ==
    ASSUME TypeOK, LifeInv, [Next]_vars
    PROVE  LifeInv'
<1> USE DEF LifeInv, AfterExecPcs, PreExecPcs, LoopPcs, Errors, parent, helper,
            Return, Terminate, Goto
<1> Child \in Procs
  BY DEF Procs
<1>1. CASE Prepare
  BY <1>1 DEF Prepare, TypeOK
<1>2. CASE Spawn
  BY <1>2 DEF Spawn, TypeOK
<1>3. CASE SetRlimit
  BY <1>3 DEF SetRlimit, PreExec, TypeOK
<1>4. CASE SetGroups
  BY <1>4 DEF SetGroups, PreExec, TypeOK
<1>5. CASE SetGid
  BY <1>5 DEF SetGid, PreExec, TypeOK
<1>6. CASE SetUid
  BY <1>6 DEF SetUid, PreExec, TypeOK
<1>7. CASE Exec
  BY <1>7 DEF Exec, TypeOK
<1>8. CASE SetNonblocking
  BY <1>8 DEF SetNonblocking, TypeOK
<1>9. ASSUME NEW s \in Streams, DrainOutput(s) PROVE LifeInv'
  BY <1>9 DEF DrainOutput, Streams, After, TypeOK
<1>10. CASE Break
  BY <1>10 DEF Break, Outcome, Finished, TypeOK
<1>11. CASE TryWait
  BY <1>11 DEF TryWait, Collected, TypeOK
<1>12. CASE CheckDeadline
  BY <1>12 DEF CheckDeadline, TypeOK
<1>13. CASE StartPoll
  BY <1>13 DEF StartPoll, TypeOK
<1>14. CASE EndPoll \/ PollDisturbed
  BY <1>14 DEF EndPoll, PollDisturbed, TypeOK
<1>15. CASE Kill
  BY <1>15 DEF Kill, TypeOK
<1>16. CASE Reap
  BY <1>16 DEF Reap, TypeOK
<1>17. ASSUME NEW p \in Procs, NEW s \in Streams, Write(p, s) \/ Close(p, s)
       PROVE  LifeInv'
  BY <1>17 DEF Write, Close
<1>18. ASSUME NEW p \in Procs, NEW d \in Descendants, Fork(p, d)
       PROVE  LifeInv'
  BY <1>18 DEF Fork, Alive, Procs, TypeOK
<1>19. ASSUME NEW p \in Procs, LeaveGroup(p) PROVE LifeInv'
  BY <1>19 DEF LeaveGroup
<1>20. ASSUME NEW p \in Procs, Exit(p) \/ Die(p) PROVE LifeInv'
  BY <1>20 DEF Exit, Die, End, Alive, TypeOK
<1>21. CASE RecyclePid
  BY <1>21 DEF RecyclePid
<1>22. CASE Tick
  BY <1>22 DEF Tick
<1>23. CASE Returned \/ UNCHANGED vars
  BY <1>23 DEF Returned, vars
<1> QED
  BY <1>1, <1>2, <1>3, <1>4, <1>5, <1>6, <1>7, <1>8, <1>9, <1>10, <1>11,
     <1>12, <1>13, <1>14, <1>15, <1>16, <1>17, <1>18, <1>19, <1>20, <1>21,
     <1>22, <1>23 DEF Next, Parent, Environment

(* The life cycle is an invariant of every execution.                      *)
LEMMA Life == Spec => []LifeInv
<1>1. Init => LifeInv
  BY DEF Init, LifeInv, PreExecPcs, AfterExecPcs, LoopPcs, Errors, Procs
<1>2. TypeOK /\ LifeInv /\ [Next]_vars => LifeInv'
  BY LifeStep
<1> QED
  BY <1>1, <1>2, Typing, PTL DEF Spec

(* Bytes are conserved by every step, and the end of a stream is only taken
   for reached when no process can write to it any more.                   *)
LEMMA PipeStep ==
    ASSUME TypeOK, LifeInv, PipeInv, [Next]_vars
    PROVE  PipeInv'
<1> USE DEF TypeOK, PipeInv, LimitIsExact, parent, helper, Return, Terminate, Goto
<1> result # "limit" \/ pc \in {"kill", "reap", "done"}
  BY DEF LifeInv, PreExecPcs, LoopPcs
<1>1. CASE Prepare
  BY <1>1 DEF Prepare, PreExecPcs
<1>2. CASE Spawn
  BY <1>2 DEF Spawn, PreExecPcs
<1>3. CASE SetRlimit \/ SetGroups \/ SetGid \/ SetUid
  <2>1. /\ UNCHANGED <<out, eof, pipe, written, writers, proc>>
        /\ pc \in PreExecPcs
        /\ result' \in {result, "spawn"}
    BY <1>3, PreExecKeeps
  <2>2. result # "limit" /\ result' # "limit"
    BY <2>1 DEF PreExecPcs
  <2>3. \A s \in Streams :
           /\ out[s] + pipe[s] = written[s]
           /\ ~eof[s]
           /\ \A p \in writers[s] : proc[p] = "running"
    BY <2>1, <2>2
  <2> QED
    BY <2>1, <2>2, <2>3
<1>7. CASE Exec
  BY <1>7 DEF Exec, LifeInv, PreExecPcs, Procs
<1>8. CASE SetNonblocking
  BY <1>8 DEF SetNonblocking, PreExecPcs
<1>9. ASSUME NEW s \in Streams, DrainOutput(s) PROVE PipeInv'
  <2>1. pc \in LoopPcs /\ result = "none"
    BY <1>9 DEF DrainOutput, LifeInv, LoopPcs, Streams
  <2>2. out[s] + pipe[s] = written[s]
    BY <2>1
  <2> DEFINE count == Smaller(Chunk, pipe[s])
  <2>3. count \in 0 .. pipe[s]
    BY DEF Smaller
  <2>4. CASE pipe[s] > 0 /\ OverLimit(out[s], count) /\ Terminate("limit")
    BY <1>9, <2>2, <2>3, <2>4 DEF DrainOutput, OverLimit, PreExecPcs
  <2> QED
    BY <1>9, <2>1, <2>2, <2>3, <2>4
       DEF DrainOutput, OverLimit, After, Streams, PreExecPcs, LoopPcs
<1>10. CASE Break
  BY <1>10 DEF Break, Outcome, PreExecPcs
<1>11. CASE TryWait
  <2>1. \A s \in Streams : Child \in writers[s] => proc[Child] = "running"
    OBVIOUS
  <2> QED
    BY <1>11, <2>1 DEF TryWait, PreExecPcs
<1>12. CASE CheckDeadline
  BY <1>12 DEF CheckDeadline, PreExecPcs
<1>13. CASE StartPoll
  BY <1>13 DEF StartPoll, PreExecPcs
<1>14. CASE EndPoll \/ PollDisturbed
  BY <1>14 DEF EndPoll, PollDisturbed, PreExecPcs
<1>15. CASE Kill
  BY <1>15 DEF Kill, PreExecPcs
<1>16. CASE Reap
  BY <1>16 DEF Reap, LifeInv, PreExecPcs
<1>17. ASSUME NEW p \in Procs, NEW s \in Streams, Write(p, s) \/ Close(p, s)
       PROVE  PipeInv'
  <2>1. CASE Write(p, s)
    BY <2>1 DEF Write, Alive
  <2>2. CASE Close(p, s)
    BY <2>2 DEF Close, Alive
  <2> QED
    BY <1>17, <2>1, <2>2
<1>18. ASSUME NEW p \in Procs, NEW d \in Descendants, Fork(p, d)
       PROVE  PipeInv'
  BY <1>18 DEF Fork, Alive, Procs
<1>19. ASSUME NEW p \in Procs, LeaveGroup(p) PROVE PipeInv'
  BY <1>19 DEF LeaveGroup
<1>20. ASSUME NEW p \in Procs, Exit(p) \/ Die(p) PROVE PipeInv'
  BY <1>20 DEF Exit, Die, End, Alive, Procs
<1>21. CASE RecyclePid
  BY <1>21 DEF RecyclePid
<1>22. CASE Tick
  BY <1>22 DEF Tick
<1>23. CASE Returned \/ UNCHANGED vars
  BY <1>23 DEF Returned, vars
<1> QED
  BY <1>1, <1>2, <1>3, <1>7, <1>8, <1>9, <1>10, <1>11,
     <1>12, <1>13, <1>14, <1>15, <1>16, <1>17, <1>18, <1>19, <1>20, <1>21,
     <1>22, <1>23 DEF Next, Parent, Environment

(* What the pipes hold, in every execution.                                *)
LEMMA Pipes == Spec => []PipeInv
<1>1. Init => PipeInv
  BY DEF Init, PipeInv, LimitIsExact
<1>2. TypeOK /\ LifeInv /\ PipeInv /\ [Next]_vars => PipeInv'
  BY PipeStep
<1> QED
  BY <1>1, <1>2, Typing, Life, PTL DEF Spec

(* The group is complete when it is signalled and cannot grow afterwards.  *)
LEMMA GroupStep ==
    ASSUME TypeOK, LifeInv, GroupInv, [Next]_vars
    PROVE  GroupInv'
<1> USE DEF GroupInv, AstrayOnlyAfterTryWait, Errors, parent, helper,
            Return, Terminate, Goto
<1> Child \in Procs
  BY DEF Procs
<1>1. CASE Prepare
  BY <1>1 DEF Prepare
<1>2. CASE Spawn
  BY <1>2 DEF Spawn
<1>3. CASE SetRlimit
  BY <1>3 DEF SetRlimit, PreExec
<1>4. CASE SetGroups
  BY <1>4 DEF SetGroups, PreExec
<1>5. CASE SetGid
  BY <1>5 DEF SetGid, PreExec
<1>6. CASE SetUid
  BY <1>6 DEF SetUid, PreExec
<1>7. CASE Exec
  BY <1>7 DEF Exec, LifeInv, PreExecPcs, TypeOK
<1>8. CASE SetNonblocking
  BY <1>8 DEF SetNonblocking
<1>9. ASSUME NEW s \in Streams, DrainOutput(s) PROVE GroupInv'
  BY <1>9 DEF DrainOutput, Streams, After
<1>10. CASE Break
  BY <1>10 DEF Break, Outcome
<1>11. CASE TryWait
  BY <1>11 DEF TryWait, Collected, TypeOK
<1>12. CASE CheckDeadline
  BY <1>12 DEF CheckDeadline
<1>13. CASE StartPoll
  BY <1>13 DEF StartPoll
<1>14. CASE EndPoll \/ PollDisturbed
  BY <1>14 DEF EndPoll, PollDisturbed
<1>15. CASE Kill
  BY <1>15 DEF Kill, KillTargets, Running, LifeInv, AfterExecPcs, TypeOK
<1>16. CASE Reap
  BY <1>16 DEF Reap, TypeOK
<1>17. ASSUME NEW p \in Procs, NEW s \in Streams, Write(p, s) \/ Close(p, s)
       PROVE  GroupInv'
  BY <1>17 DEF Write, Close, TypeOK
<1>18. ASSUME NEW p \in Procs, NEW d \in Descendants, Fork(p, d)
       PROVE  GroupInv'
  BY <1>18 DEF Fork, Alive, Procs, TypeOK
<1>19. ASSUME NEW p \in Procs, LeaveGroup(p) PROVE GroupInv'
  BY <1>19 DEF LeaveGroup
<1>20. ASSUME NEW p \in Procs, Exit(p) \/ Die(p) PROVE GroupInv'
  BY <1>20 DEF Exit, Die, End, Alive, Procs, TypeOK
<1>21. CASE RecyclePid
  BY <1>21 DEF RecyclePid, Running, LifeInv, TypeOK
<1>22. CASE Tick
  BY <1>22 DEF Tick
<1>23. CASE Returned \/ UNCHANGED vars
  BY <1>23 DEF Returned, vars
<1> QED
  BY <1>1, <1>2, <1>3, <1>4, <1>5, <1>6, <1>7, <1>8, <1>9, <1>10, <1>11,
     <1>12, <1>13, <1>14, <1>15, <1>16, <1>17, <1>18, <1>19, <1>20, <1>21,
     <1>22, <1>23 DEF Next, Parent, Environment

(* Who is in the group and who was signalled, in every execution.          *)
LEMMA Groups == Spec => []GroupInv
<1>1. Init => GroupInv
  BY DEF Init, GroupInv, AstrayOnlyAfterTryWait
<1>2. TypeOK /\ LifeInv /\ GroupInv /\ [Next]_vars => GroupInv'
  BY GroupStep
<1> QED
  BY <1>1, <1>2, Typing, Life, PTL DEF Spec

(* Each pre_exec step adds one restriction and none is lifted again.       *)
LEMMA CredStep ==
    ASSUME TypeOK, LifeInv, CredInv, [Next]_vars
    PROVE  CredInv'
<1> USE DEF CredInv, HelperConfined, StrictHelperIsAlone,
            PreExecPcs, parent, helper, Return, Terminate, Goto
<1> Child \in Procs /\ Descendants \subseteq Procs
  BY DEF Procs
<1>1. CASE Prepare
  BY <1>1 DEF Prepare, LifeInv
<1>2. CASE Spawn
  BY <1>2 DEF Spawn, LifeInv
<1>3. CASE SetRlimit
  BY <1>3 DEF SetRlimit, PreExec, TypeOK, LifeInv
<1>4. CASE SetGroups
  BY <1>4 DEF SetGroups, PreExec, TypeOK, LifeInv
<1>5. CASE SetGid
  BY <1>5 DEF SetGid, PreExec, TypeOK, LifeInv
<1>6. CASE SetUid
  BY <1>6 DEF SetUid, PreExec, TypeOK, LifeInv, Requests
<1>7. CASE Exec
  BY <1>7 DEF Exec, LifeInv, TypeOK
<1>8. CASE SetNonblocking
  BY <1>8 DEF SetNonblocking
<1>9. ASSUME NEW s \in Streams, DrainOutput(s) PROVE CredInv'
  BY <1>9 DEF DrainOutput, Streams, After
<1>10. CASE Break
  BY <1>10 DEF Break, Outcome
<1>11. CASE TryWait
  BY <1>11 DEF TryWait, TypeOK, LifeInv, AfterExecPcs, LoopPcs
<1>12. CASE CheckDeadline
  BY <1>12 DEF CheckDeadline
<1>13. CASE StartPoll
  BY <1>13 DEF StartPoll
<1>14. CASE EndPoll \/ PollDisturbed
  BY <1>14 DEF EndPoll, PollDisturbed
<1>15. CASE Kill
  BY <1>15 DEF Kill, TypeOK
<1>16. CASE Reap
  BY <1>16 DEF Reap, LifeInv, AfterExecPcs, TypeOK
<1>17. ASSUME NEW p \in Procs, NEW s \in Streams, Write(p, s) \/ Close(p, s)
       PROVE  CredInv'
  BY <1>17 DEF Write, Close
<1>18. ASSUME NEW p \in Procs, NEW d \in Descendants, Fork(p, d)
       PROVE  CredInv'
  BY <1>18 DEF Fork, Alive, MayFork, Privileged, LifeInv, TypeOK
<1>19. ASSUME NEW p \in Procs, LeaveGroup(p) PROVE CredInv'
  BY <1>19 DEF LeaveGroup
<1>20. ASSUME NEW p \in Procs, Exit(p) \/ Die(p) PROVE CredInv'
  BY <1>20 DEF Exit, Die, End, Alive, LifeInv, TypeOK
<1>21. CASE RecyclePid
  BY <1>21 DEF RecyclePid
<1>22. CASE Tick
  BY <1>22 DEF Tick
<1>23. CASE Returned \/ UNCHANGED vars
  BY <1>23 DEF Returned, vars
<1> QED
  BY <1>1, <1>2, <1>3, <1>4, <1>5, <1>6, <1>7, <1>8, <1>9, <1>10, <1>11,
     <1>12, <1>13, <1>14, <1>15, <1>16, <1>17, <1>18, <1>19, <1>20, <1>21,
     <1>22, <1>23 DEF Next, Parent, Environment

(* The helper's credentials, in every execution.                           *)
LEMMA Creds == Spec => []CredInv
<1>1. Init => CredInv
  BY DEF Init, CredInv, HelperConfined, StrictHelperIsAlone, Procs
<1>2. TypeOK /\ LifeInv /\ CredInv /\ [Next]_vars => CredInv'
  BY CredStep
<1> QED
  BY <1>1, <1>2, Typing, Life, PTL DEF Spec

(* Rounding and clamping the time left never adds a millisecond to it.     *)
LEMMA PollBound ==
    ASSUME NEW remaining \in Nat \ {0}, NEW idle \in BOOLEAN
    PROVE  /\ PollTicks(remaining, idle) \in Nat
           /\ PollTicks(remaining, idle) < remaining + Milli
           /\ idle => PollTicks(remaining, idle) <= IdleTicks
           /\ IdleTicks \in Nat
<1> DEFINE ms == remaining \div Milli
           cap == IF idle THEN IdlePoll ELSE MaxPoll
           x == Larger(1, Smaller(ms, cap))
<1>1. ms \in Nat /\ Milli * ms <= remaining
  OBVIOUS
<1>2. x \in Nat /\ (x = 1 \/ x <= ms)
  BY <1>1 DEF Larger, Smaller
<1> HIDE DEF ms
<1>3. x <= ms => Milli * x <= Milli * ms
  <2> SUFFICES ASSUME NEW a \in Nat, a <= ms PROVE Milli * a <= Milli * ms
    BY <1>2
  <2> QED
    BY <1>1
<1>4. Milli * x \in Nat
  BY <1>2
<1>5. PollTicks(remaining, idle) = Milli * x
  BY DEF PollTicks, ms
<1>6. idle => Milli * x <= IdleTicks
  <2>1. idle => x <= IdlePoll
    BY <1>1 DEF Larger, Smaller
  <2>2. ASSUME NEW a \in Nat, a <= IdlePoll PROVE Milli * a <= Milli * IdlePoll
    BY <2>2
  <2> QED
    BY <1>2, <2>1, <2>2 DEF IdleTicks
<1>7. IdleTicks \in Nat
  BY DEF IdleTicks
<1> HIDE DEF x
<1> QED
  BY <1>1, <1>2, <1>3, <1>4, <1>5, <1>6, <1>7

(* Under a prompt scheduler time only passes inside spawn() and inside
   poll(), which ends less than a millisecond after the deadline.          *)
LEMMA ClockStep ==
    ASSUME TypeOK, ClockInv, [Next]_vars
    PROVE  ClockInv'
<1> USE DEF ClockInv, DeadlineHolds, Larger, parent, helper,
            Return, Terminate, Goto
<1>1. CASE Prepare
  BY <1>1 DEF Prepare
<1>2. CASE Spawn
  BY <1>2 DEF Spawn
<1>3. CASE SetRlimit
  BY <1>3 DEF SetRlimit, PreExec
<1>4. CASE SetGroups
  BY <1>4 DEF SetGroups, PreExec
<1>5. CASE SetGid
  BY <1>5 DEF SetGid, PreExec
<1>6. CASE SetUid
  BY <1>6 DEF SetUid, PreExec
<1>7. CASE Exec
  BY <1>7 DEF Exec
<1>8. CASE SetNonblocking
  BY <1>8 DEF SetNonblocking
<1>9. ASSUME NEW s \in Streams, DrainOutput(s) PROVE ClockInv'
  BY <1>9 DEF DrainOutput, Streams, After
<1>10. CASE Break
  BY <1>10 DEF Break, Outcome
<1>11. CASE TryWait
  BY <1>11 DEF TryWait
<1>12. CASE CheckDeadline
  BY <1>12 DEF CheckDeadline
<1>13. CASE StartPoll
  <2>1. CASE clock >= Timeout
    BY <1>13, <2>1 DEF StartPoll
  <2>2. CASE clock < Timeout
    <3>1. Timeout - clock \in Nat \ {0} /\ NoOpenStreams \in BOOLEAN
      BY <2>2 DEF TypeOK, NoOpenStreams
    <3>2. PollTicks(Timeout - clock, NoOpenStreams) < Timeout - clock + Milli
      BY <3>1, PollBound
    <3>3. PollTicks(Timeout - clock, NoOpenStreams) \in Nat
      BY <3>1, PollBound
    <3>4. clock + PollTicks(Timeout - clock, NoOpenStreams) < Timeout + Milli
      BY <3>2, <3>3 DEF TypeOK
    <3>5. wake' < Timeout + Milli
      BY <1>13, <2>2, <3>4 DEF StartPoll, TypeOK
    <3> QED
      BY <1>13, <2>2, <3>5 DEF StartPoll
  <2> QED
    BY <2>1, <2>2 DEF TypeOK
<1>14. CASE EndPoll \/ PollDisturbed
  BY <1>14 DEF EndPoll, PollDisturbed
<1>15. CASE Kill
  BY <1>15 DEF Kill
<1>16. CASE Reap
  BY <1>16 DEF Reap
<1>17. ASSUME NEW p \in Procs, NEW s \in Streams, Write(p, s) \/ Close(p, s)
       PROVE  ClockInv'
  BY <1>17 DEF Write, Close
<1>18. ASSUME NEW p \in Procs, NEW d \in Descendants, Fork(p, d)
       PROVE  ClockInv'
  BY <1>18 DEF Fork
<1>19. ASSUME NEW p \in Procs, LeaveGroup(p) PROVE ClockInv'
  BY <1>19 DEF LeaveGroup
<1>20. ASSUME NEW p \in Procs, Exit(p) \/ Die(p) PROVE ClockInv'
  BY <1>20 DEF Exit, Die, End
<1>21. CASE RecyclePid
  BY <1>21 DEF RecyclePid
<1>22. CASE Tick
  <2>1. ~delayed' => ~delayed /\ Blocked
    BY <1>22 DEF Tick
  <2>2. clock' = clock + 1 /\ UNCHANGED <<pc, wake>>
    BY <1>22 DEF Tick
  <2>3. CASE Spawning
    BY <1>22, <2>2, <2>3 DEF Tick, Spawning, PreExecPcs, TypeOK
  <2>4. CASE ~Spawning
    <3>1. pc = "poll" /\ ~PollReturns => clock < wake /\ wake < Timeout + Milli
      BY DEF PollReturns, TypeOK
    <3>2. ~delayed' => clock' < Timeout + Milli
      BY <2>1, <2>2, <2>4, <3>1 DEF Blocked, TypeOK
    <3> QED
      BY <1>22, <2>2, <2>4, <3>2 DEF Tick, TypeOK
  <2> QED
    BY <2>3, <2>4
<1>23. CASE Returned \/ UNCHANGED vars
  BY <1>23 DEF Returned, vars
<1> QED
  BY <1>1, <1>2, <1>3, <1>4, <1>5, <1>6, <1>7, <1>8, <1>9, <1>10, <1>11,
     <1>12, <1>13, <1>14, <1>15, <1>16, <1>17, <1>18, <1>19, <1>20, <1>21,
     <1>22, <1>23 DEF Next, Parent, Environment

(* The clock against the deadline, in every execution.                     *)
LEMMA Clocks == Spec => []ClockInv
<1>1. Init => ClockInv
  BY DEF Init, ClockInv, DeadlineHolds, Larger
<1>2. TypeOK /\ ClockInv /\ [Next]_vars => ClockInv'
  BY ClockStep
<1> QED
  BY <1>1, <1>2, Typing, PTL DEF Spec

(* poll() returns at once to a reader of a pipe that nobody holds, so the
   time an ended helper waits passes in poll() of no streams, which has been
   told to sleep for IdlePoll at most.                                     *)
LEMMA NoticeStep ==
    ASSUME TypeOK, LifeInv, NoticeInv, [Next]_vars
    PROVE  NoticeInv'
<1> USE DEF NoticeInv, ExitNoticed, NoOpenStreams, IdleTicks, parent, helper,
            Return, Terminate, Goto
<1> Child \in Procs
  BY DEF Procs
<1>1. CASE Prepare
  BY <1>1 DEF Prepare
<1>2. CASE Spawn
  BY <1>2 DEF Spawn
<1>3. CASE SetRlimit \/ SetGroups \/ SetGid \/ SetUid
  <2>1. /\ UNCHANGED <<proc, unnoticed, delayed, status>>
        /\ pc' \in PreExecPcs \cup {"done"}
    BY <1>3, PreExecKeeps
  <2>2. pc' \notin {"deadline", "wait", "poll"}
    BY <2>1 DEF PreExecPcs
  <2> QED
    BY <2>1, <2>2
<1>7. CASE Exec
  BY <1>7 DEF Exec, LifeInv, PreExecPcs, TypeOK
<1>8. CASE SetNonblocking
  BY <1>8 DEF SetNonblocking
<1>9. ASSUME NEW s \in Streams, DrainOutput(s) PROVE NoticeInv'
  <2>1. /\ pc' \notin {"deadline", "wait", "poll"}
        /\ UNCHANGED <<proc, unnoticed, delayed>>
    BY <1>9 DEF DrainOutput, Streams, After
  <2> QED
    BY <2>1
<1>10. CASE Break
  BY <1>10 DEF Break
<1>11. CASE TryWait
  <2>1. CASE status = "none" /\ proc[Child] = "zombie" /\ status' = Collected
    BY <1>11, <2>1 DEF TryWait, Collected, LifeInv, TypeOK
  <2>2. CASE pc' = "deadline" /\ UNCHANGED <<proc, status>>
    <3>1. status' # "none" \/ unnoticed = 0
      BY <1>11, <2>2 DEF TryWait, Collected, LifeInv
    <3> QED
      BY <1>11, <2>2, <3>1 DEF TryWait
  <2>3. CASE pc' = "kill"
    BY <1>11, <2>3 DEF TryWait
  <2> QED
    BY <1>11, <2>1, <2>2, <2>3 DEF TryWait
<1>12. CASE CheckDeadline
  BY <1>12 DEF CheckDeadline
<1>13. CASE StartPoll
  <2> HIDE DEF IdleTicks, NoOpenStreams
  <2>1. CASE clock >= Timeout
    BY <1>13, <2>1 DEF StartPoll
  <2>2. CASE clock < Timeout
    <3> DEFINE ticks == PollTicks(Timeout - clock, NoOpenStreams)
    <3>1. Timeout - clock \in Nat \ {0} /\ NoOpenStreams \in BOOLEAN
      BY <2>2 DEF TypeOK, NoOpenStreams
    <3>2. /\ ticks \in Nat /\ IdleTicks \in Nat
          /\ NoOpenStreams => ticks <= IdleTicks
      BY <3>1, PollBound
    <3>3. /\ pc = "wait" /\ pc' = "poll" /\ wake' = clock + ticks
          /\ UNCHANGED <<eof, clock, delayed, status, proc, unnoticed>>
      BY <1>13, <2>2 DEF StartPoll, TypeOK
    <3>4. NoOpenStreams' = NoOpenStreams
      BY <3>3 DEF NoOpenStreams
    <3> HIDE DEF ticks
    <3> QED
      BY <3>2, <3>3, <3>4 DEF TypeOK
  <2> QED
    BY <2>1, <2>2 DEF TypeOK
<1>14. CASE EndPoll
  BY <1>14 DEF EndPoll
<1>15. CASE PollDisturbed
  <2>1. /\ unnoticed' = 0
        /\ pc' \in {"wait", "kill"}
    BY <1>15 DEF PollDisturbed
  <2> QED
    BY <2>1
<1>16. CASE Kill
  BY <1>16 DEF Kill
<1>17. CASE Reap
  BY <1>17 DEF Reap, TypeOK
<1>18. ASSUME NEW p \in Procs, NEW s \in Streams, Write(p, s) \/ Close(p, s)
       PROVE  NoticeInv'
  BY <1>18 DEF Write, Close
<1>19. ASSUME NEW p \in Procs, NEW d \in Descendants, Fork(p, d)
       PROVE  NoticeInv'
  BY <1>19 DEF Fork, TypeOK
<1>20. ASSUME NEW p \in Procs, LeaveGroup(p) PROVE NoticeInv'
  BY <1>20 DEF LeaveGroup
<1>21. ASSUME NEW p \in Procs, Exit(p) \/ Die(p) PROVE NoticeInv'
  BY <1>21 DEF Exit, Die, End, Alive, TypeOK
<1>22. CASE RecyclePid
  BY <1>22 DEF RecyclePid
<1>23. CASE Tick
  <2>1. /\ UNCHANGED <<pc, status, eof, wake, proc>>
        /\ clock' = clock + 1
        /\ ~delayed' => ~delayed /\ Blocked
        /\ unnoticed' = IF AllOver THEN unnoticed + 1 ELSE unnoticed
    BY <1>23 DEF Tick
  <2>2. IdleTicks \in Nat /\ {clock, wake, unnoticed} \subseteq Nat
    BY DEF TypeOK
  <2> HIDE DEF IdleTicks
  <2>3. CASE ~AllOver
    BY <2>1, <2>2, <2>3
  <2>4. CASE AllOver /\ delayed'
    BY <2>1, <2>4 DEF AllOver
  <2>5. CASE AllOver /\ ~delayed'
    <3>1. status = "none" /\ proc[Child] = "zombie"
      BY <2>5 DEF AllOver, LifeInv
    <3>2. pc = "poll" /\ ~Ready /\ clock < wake
      BY <2>1, <2>2, <2>5, <3>1 DEF Blocked, Spawning, PollReturns, LifeInv
    <3>3. NoOpenStreams
      BY <2>5, <3>2 DEF Ready, AllOver, TypeOK
    <3>4. unnoticed + wake <= IdleTicks + clock /\ ~delayed
      BY <2>1, <2>5, <3>1, <3>2, <3>3
    <3>5. /\ unnoticed' = unnoticed + 1
          /\ unnoticed' <= IdleTicks
          /\ unnoticed' + wake' <= IdleTicks + clock'
      BY <2>1, <2>2, <2>5, <3>2, <3>4
    <3> QED
      BY <2>1, <3>1, <3>2, <3>3, <3>5 DEF IdleTicks
  <2> QED
    BY <2>3, <2>4, <2>5
<1>24. CASE Returned \/ UNCHANGED vars
  BY <1>24 DEF Returned, vars
<1> QED
  BY <1>1, <1>2, <1>3, <1>7, <1>8, <1>9, <1>10, <1>11, <1>12, <1>13, <1>14,
     <1>15, <1>16, <1>17, <1>18, <1>19, <1>20, <1>21, <1>22, <1>23, <1>24
     DEF Next, Parent, Environment

(* How long an ended helper has waited, in every execution.                *)
LEMMA Notices == Spec => []NoticeInv
<1>1. Init => NoticeInv
  <2>1. IdleTicks \in Nat
    BY DEF IdleTicks
  <2> QED
    BY <2>1 DEF Init, NoticeInv, ExitNoticed, IdleTicks, Procs
<1>2. TypeOK /\ LifeInv /\ NoticeInv /\ [Next]_vars => NoticeInv'
  BY NoticeStep
<1> QED
  BY <1>1, <1>2, Typing, Life, PTL DEF Spec

----------------------------------------------------------------------------
(* No way out of run_inner() leaves the helper running or unreaped.        *)
THEOREM Reaped == Spec => []ReapedOnReturn
<1>1. LifeInv => ReapedOnReturn
  BY DEF LifeInv, ReapedOnReturn
<1> QED
  BY <1>1, Life, PTL

(* The text run_inner() returns is all the helper and its descendants wrote
   to the pipe, and they wrote it before a zero exit status was collected
   and every write end was closed.                                         *)
THEOREM Complete == Spec => []CompleteOutput
<1>1. TypeOK /\ LifeInv /\ PipeInv => CompleteOutput
  <2> SUFFICES ASSUME TypeOK, LifeInv, PipeInv, pc = "done", result = "ok"
               PROVE  /\ code = "ok"
                      /\ out = written
                      /\ \A s \in Streams : writers[s] = {}
    BY DEF CompleteOutput
  <2>1. \A s \in Streams : eof[s] /\ pipe[s] = 0 /\ writers[s] = {}
    BY DEF LifeInv, PipeInv
  <2>2. \A s \in Streams : out[s] = written[s]
    BY <2>1 DEF PipeInv, TypeOK
  <2> QED
    BY <2>1, <2>2 DEF LifeInv, TypeOK
<1> QED
  BY <1>1, Typing, Life, Pipes, PTL

(* A helper that stays within MAX_OUTPUT_BYTES is never refused for it, and
   no more than that is ever kept.                                         *)
THEOREM LimitExact == Spec => []LimitIsExact
<1>1. PipeInv => LimitIsExact
  BY DEF PipeInv
<1> QED
  BY <1>1, Pipes, PTL

(* terminate_and_reap() leaves no member of the group unsignalled, and the
   signal goes astray only when try_wait() had reaped the helper.          *)
THEOREM WholeGroup == Spec => [](GroupKilled /\ AstrayOnlyAfterTryWait)
<1>1. GroupInv => GroupKilled /\ AstrayOnlyAfterTryWait
  BY DEF GroupInv, GroupKilled, TerminatedByParent, Running
<1> QED
  BY <1>1, Groups, PTL

(* The helper runs with the credentials asked for.                         *)
THEOREM Confined == Spec => []HelperConfined
<1>1. CredInv => HelperConfined
  BY DEF CredInv
<1> QED
  BY <1>1, Creds, PTL

(* In strict mode it runs alone, unless its user is root by then.          *)
THEOREM Alone == Spec => []StrictHelperIsAlone
<1>1. CredInv => StrictHelperIsAlone
  BY DEF CredInv
<1> QED
  BY <1>1, Creds, PTL

(* The deadline is overrun by less than a millisecond.                     *)
THEOREM Deadline == Spec => []DeadlineHolds
<1>1. ClockInv => DeadlineHolds
  BY DEF ClockInv
<1> QED
  BY <1>1, Clocks, PTL

(* An ended helper whose pipes are closed is noticed within IdlePoll.      *)
THEOREM Noticed == Spec => []ExitNoticed
<1>1. NoticeInv => ExitNoticed
  BY DEF NoticeInv
<1> QED
  BY <1>1, Notices, PTL

----------------------------------------------------------------------------
(* Refinement of HelperContract.                                           *)

(* What a step of the contract is, in terms of the mapping.                *)
ContractStep == [Contract!Next]_(Contract!contract)

(* The caller's name for each stage of the helper's life is its own.       *)
LEMMA StageOf ==
    ASSUME TypeOK
    PROVE  /\ proc[Child] = "unborn" <=> HelperStage = "none"
           /\ proc[Child] = "running" <=> HelperStage = "running"
           /\ proc[Child] = "zombie" <=> HelperStage = "ended"
           /\ proc[Child] = "gone" <=> HelperStage = "reaped"
  BY DEF TypeOK, HelperStage, Stage, Procs

(* A step that changes nothing the caller can tell is none of the contract. *)
LEMMA Unseen ==
    ASSUME UNCHANGED <<proc, code, out, written, writers>>,
           pc # "done", pc' # "done"
    PROVE  ContractStep
<1>1. UNCHANGED HelperStage
  BY DEF HelperStage
<1>2. UNCHANGED AllCollected
  BY DEF AllCollected
<1>3. UNCHANGED Verdict
  BY DEF Verdict
<1> QED
  BY <1>1, <1>2, <1>3 DEF ContractStep, Contract!contract

(* Returning an error before the helper was spawned.                       *)
LEMMA RefusedEarly ==
    ASSUME TypeOK, LifeInv, pc \in PreExecPcs, UNCHANGED helper,
           NEW r \in Results \ {"ok"}, Return(r)
    PROVE  ContractStep
<1>1. HelperStage = "none" /\ UNCHANGED HelperStage
  BY StageOf DEF LifeInv, HelperStage, helper, Procs
<1>2. UNCHANGED <<code, AllCollected>>
  BY DEF AllCollected, helper, Return
<1>3. Verdict = "pending" /\ Verdict' = "bad"
  BY DEF Verdict, Return, PreExecPcs
<1>4. Contract!Refuse
  BY <1>1, <1>2, <1>3 DEF Contract!Refuse
<1> QED
  BY <1>4 DEF ContractStep, Contract!Next

(* Whatever has been collected completely stays so.                        *)
LEMMA CollectedOrNot ==
    ASSUME TypeOK, LifeInv, UNCHANGED <<proc, code>>, AllCollected => AllCollected',
           proc[Child] # "unborn", pc # "done", pc' # "done"
    PROVE  ContractStep
<1>1. HelperStage # "none" /\ UNCHANGED <<HelperStage, code>>
  BY StageOf DEF HelperStage
<1>2. Verdict = "pending" /\ UNCHANGED Verdict
  BY DEF Verdict
<1>3. CASE AllCollected' <=> AllCollected
  <2>1. UNCHANGED AllCollected
    BY <1>3 DEF AllCollected
  <2> QED
    BY <1>1, <1>2, <2>1 DEF ContractStep, Contract!contract
<1>4. CASE AllCollected' /\ ~AllCollected
  <2>1. AllCollected' = TRUE
    BY <1>4 DEF AllCollected
  <2>2. Contract!Complete
    BY <1>1, <1>2, <2>1 DEF Contract!Complete
  <2> QED
    BY <2>2 DEF ContractStep, Contract!Next
<1> QED
  BY <1>3, <1>4

(* The helper or a descendant ends, and with it what it could still write. *)
LEMMA EndStep ==
    ASSUME TypeOK, LifeInv, NEW p \in Procs, NEW c \in {"ok", "fail"}, End(p, c),
           proc[p] = "running", pc # "done"
    PROVE  ContractStep
<1> Child \in Procs
  BY DEF Procs
<1>1. proc[Child] # "unborn"
  BY DEF LifeInv
<1>2. AllCollected => AllCollected'
  BY DEF AllCollected, End, TypeOK, parent
<1>3. pc' # "done" /\ Verdict = "pending" /\ UNCHANGED Verdict
  BY DEF End, parent, Verdict
<1>4. CASE p = Child
  <2>1. proc'[Child] = "zombie" /\ code' = c
    BY <1>4 DEF End, TypeOK
  <2>2. HelperStage = "running" /\ HelperStage' = "ended"
    BY <1>4, <2>1, StageOf DEF HelperStage, Stage
  <2>3. AllCollected' \in {AllCollected, TRUE}
    <3>1. CASE AllCollected'
      <4>1. AllCollected' = TRUE
        BY <3>1 DEF AllCollected
      <4> QED
        BY <4>1
    <3>2. CASE ~AllCollected'
      <4>1. ~AllCollected
        BY <1>2, <3>2
      <4>2. AllCollected' = AllCollected
        BY <3>2, <4>1 DEF AllCollected
      <4> QED
        BY <4>2
    <3> QED
      BY <3>1, <3>2
  <2>4. Contract!End
    BY <1>3, <2>1, <2>2, <2>3 DEF Contract!End
  <2> QED
    BY <2>4 DEF ContractStep, Contract!Next
<1>5. CASE p # Child
  <2>1. proc'[Child] = proc[Child] /\ code' = code
    BY <1>5 DEF End, TypeOK
  <2>2. UNCHANGED HelperStage
    BY <2>1 DEF HelperStage, Stage
  <2>3. HelperStage # "none"
    BY <1>1, StageOf
  <2>4. CASE AllCollected' <=> AllCollected
    <3>1. UNCHANGED AllCollected
      BY <2>4 DEF AllCollected
    <3> QED
      BY <1>3, <2>1, <2>2, <3>1 DEF ContractStep, Contract!contract
  <2>5. CASE AllCollected' /\ ~AllCollected
    <3>1. AllCollected' = TRUE
      BY <2>5 DEF AllCollected
    <3>2. Contract!Complete
      BY <1>3, <2>1, <2>2, <2>3, <3>1 DEF Contract!Complete
    <3> QED
      BY <3>2 DEF ContractStep, Contract!Next
  <2> QED
    BY <1>2, <2>4, <2>5
<1> QED
  BY <1>4, <1>5

(* The loop ends with the whole output, a reaped helper and a verdict.     *)
LEMMA BreakStep ==
    ASSUME TypeOK, LifeInv, PipeInv, Break
    PROVE  ContractStep
<1>1. CASE ~Finished
  BY <1>1, Unseen DEF Break, Goto, helper
<1>2. CASE Finished
  <2>1. PICK r \in Outcome : Return(r)
    BY <1>2 DEF Break
  <2>2. UNCHANGED <<proc, code, out, written, writers>> /\ pc # "done"
    BY <2>1 DEF Break, helper, Return
  <2>3. HelperStage = "reaped" /\ code = status
    BY <1>2, StageOf DEF LifeInv, Finished
  <2>4. UNCHANGED HelperStage /\ UNCHANGED AllCollected /\ Verdict = "pending"
    BY <2>2 DEF HelperStage, AllCollected, Verdict
  <2>5. CASE r = "ok"
    <3>1. Verdict' = "good"
      BY <2>1, <2>5 DEF Verdict, Return
    <3>2. status = "ok"
      BY <2>5 DEF Outcome
    <3>3. \A s \in Streams : pipe[s] = 0 /\ writers[s] = {}
      BY <1>2 DEF Finished, PipeInv
    <3>4. result # "limit"
      BY <1>2 DEF Break, LifeInv, LoopPcs
    <3>5. AllCollected
      BY <3>3, <3>4 DEF AllCollected, PipeInv, TypeOK
    <3>6. Contract!Succeed
      BY <2>2, <2>3, <2>4, <3>1, <3>2, <3>5 DEF Contract!Succeed
    <3> QED
      BY <3>6 DEF ContractStep, Contract!Next
  <2>6. CASE r # "ok"
    <3>1. Verdict' = "bad"
      BY <2>1, <2>6 DEF Verdict, Return
    <3>2. Contract!Refuse
      BY <2>2, <2>3, <2>4, <3>1 DEF Contract!Refuse
    <3> QED
      BY <3>2 DEF ContractStep, Contract!Next
  <2> QED
    BY <2>5, <2>6
<1> QED
  BY <1>1, <1>2

(* Every step of run_inner(), of the helper and of the kernel is a step of
   the contract, or nothing to the caller.                                 *)
LEMMA StepImplemented ==
    ASSUME TypeOK, LifeInv, PipeInv, [Next]_vars
    PROVE  ContractStep
<1> USE DEF parent, helper
<1> Child \in Procs
  BY DEF Procs
<1>1. ASSUME UNCHANGED <<proc, code, out, written, writers, pc, result>>
      PROVE  ContractStep
  <2>1. UNCHANGED <<HelperStage, AllCollected, Verdict>>
    BY <1>1 DEF HelperStage, AllCollected, Verdict
  <2> QED
    BY <1>1, <2>1 DEF ContractStep, Contract!contract
<1>2. CASE Prepare \/ Spawn \/ SetRlimit \/ SetGroups \/ SetGid \/ SetUid
  <2>1. /\ pc \in PreExecPcs /\ UNCHANGED <<helper, written>>
        /\ \/ \E label \in PreExecPcs : Goto(label)
           \/ \E r \in Results \ {"ok"} : Return(r)
    BY <1>2 DEF Prepare, Spawn, SetRlimit, SetGroups, SetGid, SetUid, PreExec,
                PreExecPcs, Results
  <2>2. CASE \E label \in PreExecPcs : Goto(label)
    BY <2>1, <2>2, Unseen DEF Goto, PreExecPcs
  <2> QED
    BY <2>1, <2>2, RefusedEarly
<1>3. CASE Exec
  <2>1. CASE Return("spawn") /\ UNCHANGED helper
    BY <1>3, <2>1, RefusedEarly DEF Exec, PreExecPcs, Results
  <2>2. CASE Goto("setup")
    <3>1. proc'[Child] = "running" /\ writers'["stdout"] = {Child} /\ UNCHANGED code
      BY <1>3, <2>2 DEF Exec, TypeOK, Streams, Return, Goto
    <3>2. HelperStage = "none"
      BY <1>3, StageOf DEF Exec, LifeInv, PreExecPcs
    <3>3. HelperStage' = "running"
      BY <3>1 DEF HelperStage, Stage
    <3>4. AllCollected' = FALSE
      BY <3>1 DEF AllCollected, Streams
    <3>5. Verdict = "pending" /\ UNCHANGED Verdict
      BY <1>3, <2>2 DEF Verdict, Exec, Goto
    <3>6. Contract!Start
      BY <3>1, <3>2, <3>3, <3>4, <3>5 DEF Contract!Start
    <3> QED
      BY <3>6 DEF ContractStep, Contract!Next
  <2> QED
    BY <1>3, <2>1, <2>2 DEF Exec
<1>4. CASE SetNonblocking \/ CheckDeadline \/ StartPoll \/ EndPoll \/ PollDisturbed \/ Kill
  BY <1>4, Unseen DEF SetNonblocking, CheckDeadline, StartPoll, EndPoll,
                      PollDisturbed, Kill, Goto, Terminate
<1>5. ASSUME NEW s \in Streams, DrainOutput(s) PROVE ContractStep
  <2>1. pc # "done" /\ pc' # "done" /\ proc[Child] # "unborn" /\ result # "limit"
    BY <1>5 DEF DrainOutput, After, Goto, Terminate, LifeInv, AfterExecPcs,
                LoopPcs, Streams
  <2>2. UNCHANGED <<proc, code, written, writers>>
    BY <1>5 DEF DrainOutput
  <2>3. AllCollected => pipe[s] = 0
    BY <2>1 DEF AllCollected, PipeInv, TypeOK
  <2>4. pipe[s] = 0 => UNCHANGED out
    BY <1>5 DEF DrainOutput, Goto, Terminate
  <2>5. AllCollected => AllCollected'
    BY <2>2, <2>3, <2>4 DEF AllCollected
  <2> QED
    BY <2>1, <2>2, <2>5, CollectedOrNot
<1>6. CASE Break
  BY <1>6, BreakStep
<1>7. CASE TryWait
  <2>1. CASE UNCHANGED proc
    BY <1>7, <2>1, Unseen DEF TryWait, Goto, Terminate
  <2>2. CASE proc[Child] = "zombie" /\ proc' = [proc EXCEPT ![Child] = "gone"]
    <3>1. HelperStage = "ended" /\ HelperStage' = "reaped"
      BY <2>2, StageOf DEF TypeOK, HelperStage, Stage
    <3>2. Verdict = "pending" /\ UNCHANGED Verdict /\ UNCHANGED code
      BY <1>7, <2>2 DEF TryWait, Goto, Terminate, Verdict
    <3>3. UNCHANGED AllCollected
      BY <1>7, <2>2 DEF TryWait, Goto, Terminate, AllCollected
    <3>4. Contract!Reap
      BY <3>1, <3>2, <3>3 DEF Contract!Reap
    <3> QED
      BY <3>4 DEF ContractStep, Contract!Next
  <2> QED
    BY <1>7, <2>1, <2>2 DEF TryWait
<1>8. CASE Reap
  <2>1. proc[Child] \in {"zombie", "gone"} /\ result \in Errors /\ pc = "reap"
    BY <1>8 DEF Reap, LifeInv
  <2>2. HelperStage \in {"ended", "reaped"} /\ HelperStage' = "reaped"
    BY <1>8, <2>1, StageOf DEF Reap, TypeOK, HelperStage, Stage
  <2>3. Verdict = "pending" /\ Verdict' = "bad"
    BY <1>8, <2>1 DEF Verdict, Reap, Return, Errors
  <2>4. UNCHANGED code /\ UNCHANGED AllCollected
    BY <1>8 DEF Reap, Return, AllCollected
  <2>5. Contract!Refuse
    BY <2>2, <2>3, <2>4 DEF Contract!Refuse
  <2> QED
    BY <2>5 DEF ContractStep, Contract!Next
<1>9. ASSUME NEW p \in Procs, NEW s \in Streams, Write(p, s) PROVE ContractStep
  <2>1. AllCollected' <=> AllCollected
    BY <1>9 DEF Write, AllCollected
  <2>2. UNCHANGED AllCollected
    BY <2>1 DEF AllCollected
  <2>3. UNCHANGED <<HelperStage, code, Verdict>>
    BY <1>9 DEF Write, HelperStage, Verdict
  <2> QED
    BY <2>2, <2>3 DEF ContractStep, Contract!contract
<1>10. ASSUME NEW p \in Procs, NEW s \in Streams, Close(p, s) PROVE ContractStep
  <2>1. AllCollected => AllCollected'
    BY <1>10 DEF Close, AllCollected
  <2>2. proc[Child] # "unborn" /\ pc # "done" /\ pc' # "done" /\ UNCHANGED <<proc, code>>
    BY <1>10 DEF Close, Alive, LifeInv
  <2> QED
    BY <2>1, <2>2, CollectedOrNot
<1>11. ASSUME NEW p \in Procs, NEW d \in Descendants, Fork(p, d) PROVE ContractStep
  <2>1. AllCollected' <=> AllCollected
    BY <1>11 DEF Fork, AllCollected
  <2>2. UNCHANGED AllCollected
    BY <2>1 DEF AllCollected
  <2>3. proc'[Child] = proc[Child]
    BY <1>11 DEF Fork, TypeOK, Procs
  <2>4. UNCHANGED <<HelperStage, code, Verdict>>
    BY <1>11, <2>3 DEF Fork, HelperStage, Verdict
  <2> QED
    BY <2>2, <2>4 DEF ContractStep, Contract!contract
<1>12. ASSUME NEW p \in Procs, Exit(p) \/ Die(p) PROVE ContractStep
  BY <1>12, EndStep DEF Exit, Die, Alive
<1>13. CASE (\E p \in Procs : LeaveGroup(p)) \/ RecyclePid \/ Tick \/ Returned
              \/ UNCHANGED vars
  BY <1>1, <1>13 DEF LeaveGroup, RecyclePid, Tick, Returned, vars
<1> QED
  BY <1>2, <1>3, <1>4, <1>5, <1>6, <1>7, <1>8, <1>9, <1>10, <1>11, <1>12, <1>13
     DEF Next, Parent, Environment

(* run_inner() implements what HelperContract promises its caller, for any
   number of descendants, any limits and any timeout.                      *)
THEOREM ContractImplemented == Spec => ImplementsContract
<1>1. Init => Contract!Init
  <2> SUFFICES ASSUME Init PROVE Contract!Init
    OBVIOUS
  <2>1. HelperStage = "none"
    BY DEF Init, HelperStage, Stage, Procs
  <2>2. AllCollected = TRUE
    BY DEF Init, AllCollected
  <2>3. Verdict = "pending" /\ code = "none"
    BY DEF Init, Verdict
  <2> QED
    BY <2>1, <2>2, <2>3 DEF Contract!Init
<1>2. TypeOK /\ LifeInv /\ PipeInv /\ [Next]_vars =>
        [Contract!Next]_(Contract!contract)
  BY StepImplemented DEF ContractStep
<1> QED
  BY <1>1, <1>2, Typing, Life, Pipes, PTL DEF Spec, ImplementsContract, Contract!Spec
----------------------------------------------------------------------------
(* After the deadline.                                                     *)

(* How far from its end run_inner() stands, reads apart.                   *)
StepsTo ==
    CASE pc = "prepare" -> 15 [] pc = "spawn" -> 14 [] pc = "setrlimit" -> 13
      [] pc = "setgroups" -> 12 [] pc = "setgid" -> 11 [] pc = "setuid" -> 10
      [] pc \in {"exec", "poll"} -> 9 [] pc \in {"setup", "wait"} -> 8
      [] pc = "stdout" -> 7 [] pc = "stderr" -> 6 [] pc = "break" -> 5
      [] pc = "trywait" -> 4 [] pc = "deadline" -> 3 [] pc = "kill" -> 2
      [] pc = "reap" -> 1 [] OTHER -> 0

(* The bytes that the buffers still take in.                               *)
Room == (MaxOutput - out["stdout"]) + (MaxOutput - out["stderr"])

(* The most steps run_inner() has ahead of it once the deadline has passed:
   every read that keeps it where it is takes at least a byte.             *)
Left == StepsTo + Room

(* It is a number, before and after a step.                                *)
LEMMA LeftType ==
    ASSUME TypeOK, TypeOK'
    PROVE  /\ StepsTo \in Nat /\ Room \in Nat /\ Left \in Nat
           /\ StepsTo' \in Nat /\ Room' \in Nat /\ Left' \in Nat
<1>1. StepsTo \in Nat /\ StepsTo' \in Nat
  BY DEF StepsTo
<1>2. Room \in Nat /\ Room' \in Nat
  BY DEF Room, TypeOK, Streams
<1>3. \A m, n \in Nat : m + n \in Nat
  OBVIOUS
<1>4. Left \in Nat
  BY <1>1, <1>2, <1>3 DEF Left
<1>5. Left' \in Nat
  BY <1>1, <1>2, <1>3 DEF Left
<1> QED
  BY <1>1, <1>2, <1>4, <1>5

(* After the deadline a step of run_inner() is a step ahead, or a read that
   leaves it where it is and fills a buffer.                               *)
LEMMA Ahead ==
    ASSUME TypeOK, TypeOK', clock >= Timeout, Parent \/ PollDisturbed
    PROVE  \/ StepsTo' < StepsTo /\ out' = out
           \/ StepsTo' = StepsTo /\ Room' < Room
<1> USE DEF StepsTo, Goto, Return, Terminate
<1>1. CASE Prepare \/ Spawn \/ SetNonblocking
  BY <1>1 DEF Prepare, Spawn, SetNonblocking
<1>2. CASE SetRlimit \/ SetGroups \/ SetGid \/ SetUid
  <2>1. /\ \/ pc = "setrlimit" /\ pc' \in {"setgroups", "done"}
           \/ pc = "setgroups" /\ pc' \in {"setgid", "done"}
           \/ pc = "setgid" /\ pc' \in {"setuid", "done"}
           \/ pc = "setuid" /\ pc' \in {"exec", "done"}
        /\ out' = out
    BY <1>2 DEF SetRlimit, SetGroups, SetGid, SetUid, PreExec
  <2> QED
    BY <2>1
<1>3. CASE Exec \/ TryWait \/ Kill \/ Reap
  <2>1. /\ \/ pc = "exec" /\ pc' \in {"setup", "done"}
           \/ pc = "trywait" /\ pc' \in {"deadline", "kill"}
           \/ pc = "kill" /\ pc' = "reap"
           \/ pc = "reap" /\ pc' = "done"
        /\ out' = out
    BY <1>3 DEF Exec, TryWait, Kill, Reap
  <2> QED
    BY <2>1
<1>4. CASE Break
  <2>1. pc = "break" /\ pc' \in {"done", "trywait"} /\ out' = out
    BY <1>4 DEF Break
  <2> QED
    BY <2>1
<1>5. CASE CheckDeadline
  <2>1. pc = "deadline" /\ pc' = "kill" /\ out' = out
    BY <1>5, TypeOK DEF CheckDeadline, TypeOK
  <2> QED
    BY <2>1
<1>6. CASE StartPoll
  BY <1>6 DEF StartPoll
<1>7. CASE EndPoll \/ PollDisturbed
  BY <1>7 DEF EndPoll, PollDisturbed
<1>8. ASSUME NEW s \in Streams, DrainOutput(s)
      PROVE  \/ StepsTo' < StepsTo /\ out' = out
             \/ StepsTo' = StepsTo /\ Room' < Room
  <2> DEFINE count == Smaller(Chunk, pipe[s])
  <2>1. /\ pc = s
        /\ \/ out' = out /\ pc' \in {After(s), "kill"}
           \/ /\ pipe[s] > 0
              /\ pc' = pc
              /\ out' = [out EXCEPT ![s] = @ + count]
    BY <1>8 DEF DrainOutput
  <2>2. pipe[s] > 0 => count \in Nat \ {0}
    BY DEF Smaller, TypeOK
  <2> HIDE DEF count
  <2>3. CASE out' = out /\ pc' \in {After(s), "kill"}
    BY <2>1, <2>3 DEF After, Streams
  <2>4. CASE pipe[s] > 0 /\ pc' = pc /\ out' = [out EXCEPT ![s] = @ + count]
    <3>1. Room' < Room
      BY <2>2, <2>4 DEF Room, TypeOK, Streams
    <3> QED
      BY <2>4, <3>1
  <2> QED
    BY <2>1, <2>3, <2>4
<1> QED
  BY <1>1, <1>2, <1>3, <1>4, <1>5, <1>6, <1>7, <1>8 DEF Parent

(* Either way it comes closer to its end.                                  *)
LEMMA Nearer ==
    ASSUME TypeOK, TypeOK', clock >= Timeout, Parent \/ PollDisturbed
    PROVE  Left' < Left
<1>1. out' = out => Room' = Room
  BY DEF Room
<1> QED
  BY <1>1, Ahead, LeftType DEF Left

(* Once the deadline has passed no helper, however fast it writes, and no
   signals keep run_inner() in its loop: from poll() on it takes at most 9
   steps and as many reads as there is room for bytes in its buffers.      *)
THEOREM FewStepsLeft ==
    Spec => [][clock >= Timeout /\ (Parent \/ PollDisturbed) =>
                 Left' \in Nat /\ Left' < Left]_vars
<1>1. TypeOK /\ TypeOK' /\ [Next]_vars =>
        [clock >= Timeout /\ (Parent \/ PollDisturbed) =>
           Left' \in Nat /\ Left' < Left]_vars
  BY Nearer, LeftType
<1> QED
  BY <1>1, Typing, PTL DEF Spec

(* Where run_inner() cannot go on by itself: it has returned, it is in
   poll(), or it waits in Child::wait() for a helper that has not ended.   *)
Waiting == \/ pc = "done"
           \/ pc = "poll" /\ ~PollReturns
           \/ pc = "reap" /\ status = "none" /\ proc[Child] # "zombie"

(* The thread is scheduled, which is what WF_vars(Parent) comes to without
   ENABLED, ...                                                            *)
Scheduled == []<>Waiting \/ []<><<Parent>>_vars

(* A killed helper that has not died yet.                                  *)
Doomed == pc # "done" /\ Child \in killed /\ proc[Child] = "running"

(* ... and a killed helper dies, which is WF_vars(Die(Child)).             *)
Dies == []<>~Doomed \/ []<><<Die(Child)>>_vars

(* The three stages of the way out after a limit has been passed.          *)
Late(label) == clock >= Timeout /\ pc = label
Dying == pc = "reap" /\ status = "none" /\ Doomed
Reapable == pc = "reap" /\ (status # "none" \/ proc[Child] = "zombie")

(* Only its own steps move run_inner(), and only the deadline's coming
   changes what the others leave of the time.                              *)
LEMMA OthersWait ==
    ASSUME [Next]_vars
    PROVE  \/ Parent \/ PollDisturbed
           \/ UNCHANGED <<pc, status>> /\ clock' \in {clock, clock + 1}
BY DEF Next, Environment, Write, Close, Fork, LeaveGroup, Exit, Die, End,
       RecyclePid, Tick, Returned, vars, parent, time

(* Past the deadline the loop leads from its break to the kill, whatever
   becomes of the helper.                                                  *)
LEMMA Descends ==
    ASSUME TypeOK, TypeOK', [Next]_vars
    PROVE  /\ Late("break") => Late("break")' \/ Late("trywait")' \/ pc' = "done"
           /\ Late("trywait") => \/ Late("trywait")' \/ Late("deadline")'
                                 \/ pc' = "kill"
           /\ Late("deadline") => Late("deadline")' \/ pc' = "kill"
           /\ Late("break") /\ Parent => Late("trywait")' \/ pc' = "done"
           /\ Late("trywait") /\ Parent => Late("deadline")' \/ pc' = "kill"
           /\ Late("deadline") /\ Parent => pc' = "kill"
<1> USE DEF Late, Goto, Return, Terminate
<1>1. clock \in Nat /\ Timeout \in Nat
  BY DEF TypeOK
<1>2. CASE ~(Parent \/ PollDisturbed)
  BY <1>1, <1>2, OthersWait
<1>3. CASE Parent \/ PollDisturbed
  <2>1. clock' = clock
    BY <1>3 DEF Parent, Prepare, Spawn, SetRlimit, SetGroups, SetGid, SetUid, PreExec,
          Exec, SetNonblocking, DrainOutput, Break, TryWait, CheckDeadline, StartPoll,
          EndPoll, Kill, Reap, PollDisturbed
  <2>2. pc = "break" => pc' \in {"trywait", "done"}
    BY <1>3 DEF Parent, Prepare, Spawn, SetRlimit, SetGroups, SetGid, SetUid, PreExec,
          Exec, SetNonblocking, DrainOutput, Streams, Break, TryWait, CheckDeadline,
          StartPoll, EndPoll, Kill, Reap, PollDisturbed
  <2>3. pc = "trywait" => pc' \in {"deadline", "kill"}
    BY <1>3 DEF Parent, Prepare, Spawn, SetRlimit, SetGroups, SetGid, SetUid, PreExec,
          Exec, SetNonblocking, DrainOutput, Streams, Break, TryWait, CheckDeadline,
          StartPoll, EndPoll, Kill, Reap, PollDisturbed
  <2>4. pc = "deadline" /\ clock >= Timeout => pc' = "kill"
    BY <1>3 DEF Parent, Prepare, Spawn, SetRlimit, SetGroups, SetGid, SetUid, PreExec,
          Exec, SetNonblocking, DrainOutput, Streams, Break, TryWait, CheckDeadline,
          StartPoll, EndPoll, Kill, Reap, PollDisturbed
  <2> QED
    BY <2>1, <2>2, <2>3, <2>4
<1> QED
  BY <1>2, <1>3

(* The others leave run_inner() and its signals alone; the helper may only
   end of it, and does when it dies.                                       *)
LEMMA OthersEnd ==
    ASSUME TypeOK, [Next]_vars, ~Parent, ~PollDisturbed
    PROVE  /\ UNCHANGED <<pc, status, killed>>
           /\ proc[Child] = "running" => proc'[Child] \in {"running", "zombie"}
           /\ proc[Child] = "zombie" => proc'[Child] = "zombie"
<1>1. Child \in Procs
  BY DEF Procs
<1>2. ASSUME NEW p \in Procs, Exit(p) \/ Die(p)
      PROVE  /\ UNCHANGED <<pc, status, killed>>
             /\ proc'[Child] = IF p = Child THEN "zombie" ELSE proc[Child]
  BY <1>1, <1>2 DEF Exit, Die, End, TypeOK, parent
<1>3. ASSUME NEW p \in Procs, NEW d \in Descendants, Fork(p, d)
      PROVE  UNCHANGED <<pc, status, killed>> /\ proc'[Child] = proc[Child]
  BY <1>1, <1>3 DEF Fork, TypeOK, parent
<1>4. CASE \/ \E p \in Procs : \/ LeaveGroup(p)
                                \/ \E s \in Streams : Write(p, s) \/ Close(p, s)
           \/ RecyclePid \/ Tick \/ Returned \/ UNCHANGED vars
  BY <1>4 DEF LeaveGroup, Write, Close, RecyclePid, Tick, Returned, vars, parent, helper
<1> QED
  BY <1>2, <1>3, <1>4 DEF Next, Environment

(* The signal reaches a helper that runs, and one that has ended or been
   collected can be reaped; neither is undone before the reaping.          *)
LEMMA Dooms ==
    ASSUME TypeOK, LifeInv, [Next]_vars
    PROVE  /\ pc = "kill" => pc' = "kill" \/ Dying' \/ Reapable'
           /\ pc = "kill" /\ Parent => Dying' \/ Reapable'
           /\ Dying => Dying' \/ Reapable'
           /\ Dying /\ Die(Child) => Reapable'
           /\ Reapable => Reapable' \/ pc' = "done"
           /\ Reapable /\ Parent => pc' = "done"
<1> USE DEF Dying, Doomed, Reapable
<1>1. Child \in Procs
  BY DEF Procs
<1>2. pc = "kill" /\ Parent => Dying' \/ Reapable'
  <2> SUFFICES ASSUME pc = "kill", Parent PROVE Dying' \/ Reapable'
    OBVIOUS
  <2>1. Kill
    BY DEF Parent, Prepare, Spawn, SetRlimit, SetGroups, SetGid, SetUid, PreExec,
           Exec, SetNonblocking, DrainOutput, Streams, Break, TryWait, CheckDeadline,
           StartPoll, EndPoll, Reap
  <2>2. /\ pc' = "reap" /\ UNCHANGED <<status, proc>>
        /\ status = "none" /\ proc[Child] = "running" => Child \in killed'
    BY <2>1 DEF Kill, KillTargets, Running, Goto
  <2>3. status = "none" => proc[Child] \in {"running", "zombie"}
    BY <1>1 DEF LifeInv, AfterExecPcs, TypeOK
  <2> QED
    BY <2>2, <2>3
<1>3. pc = "reap" /\ Parent => Reapable /\ pc' = "done"
  BY DEF Parent, Prepare, Spawn, SetRlimit, SetGroups, SetGid, SetUid, PreExec,
         Exec, SetNonblocking, DrainOutput, Streams, Break, TryWait, CheckDeadline,
         StartPoll, EndPoll, Kill, Reap, Return
<1>4. Die(Child) => UNCHANGED <<pc, status>> /\ proc'[Child] = "zombie"
  BY <1>1 DEF Die, End, TypeOK, parent
<1>5. pc \in {"kill", "reap"} => ~PollDisturbed
  BY DEF PollDisturbed
<1>6. Dying => Dying' \/ Reapable'
  BY <1>3, <1>5, OthersEnd
<1>7. Reapable => Reapable' \/ pc' = "done"
  BY <1>3, <1>5, OthersEnd
<1> QED
  BY <1>2, <1>3, <1>4, <1>5, <1>6, <1>7, OthersEnd

(* Once a limit is exceeded or the deadline noticed, run_inner() returns if
   its thread is scheduled and SIGKILL ends the helper: it waits neither for
   the descendants nor for the pipes they may hold open.  From the end of a
   turn of the loop past the deadline that is so too.                      *)
THEOREM CutShort ==
    Spec /\ Scheduled /\ Dies =>
        /\ pc = "kill" ~> pc = "done"
        /\ clock >= Timeout /\ pc = "break" ~> pc = "done"
<1>1. Spec => [](TypeOK /\ LifeInv)
  BY Typing, Life, PTL
<1>2. Parent => Next
  BY DEF Next
<1>3. Die(Child) => Next
  BY DEF Next, Environment, Procs
<1>4. Spec /\ Scheduled => (Late("break") ~> Late("trywait") \/ pc = "done")
  <2>1. /\ /\ TypeOK /\ TypeOK' /\ Late("break") /\ [Next]_vars
           => Late("break")' \/ Late("trywait")' \/ (pc = "done")'
        /\ /\ TypeOK /\ TypeOK' /\ Late("break") /\ <<Next /\ Parent>>_vars
           => Late("trywait")' \/ (pc = "done")'
    BY Descends
  <2>2. Late("break") => ~Waiting
    BY DEF Late, Waiting
  <2> QED
    BY <1>1, <1>2, <2>1, <2>2, PTL DEF Spec, Scheduled
<1>5. Spec /\ Scheduled => (Late("trywait") ~> Late("deadline") \/ pc = "kill")
  <2>1. /\ /\ TypeOK /\ TypeOK' /\ Late("trywait") /\ [Next]_vars
           => Late("trywait")' \/ Late("deadline")' \/ (pc = "kill")'
        /\ /\ TypeOK /\ TypeOK' /\ Late("trywait") /\ <<Next /\ Parent>>_vars
           => Late("deadline")' \/ (pc = "kill")'
    BY Descends
  <2>2. Late("trywait") => ~Waiting
    BY DEF Late, Waiting
  <2> QED
    BY <1>1, <1>2, <2>1, <2>2, PTL DEF Spec, Scheduled
<1>6. Spec /\ Scheduled => (Late("deadline") ~> pc = "kill")
  <2>1. /\ /\ TypeOK /\ TypeOK' /\ Late("deadline") /\ [Next]_vars
           => Late("deadline")' \/ (pc = "kill")'
        /\ /\ TypeOK /\ TypeOK' /\ Late("deadline") /\ <<Next /\ Parent>>_vars
           => (pc = "kill")'
    BY Descends
  <2>2. Late("deadline") => ~Waiting
    BY DEF Late, Waiting
  <2> QED
    BY <1>1, <1>2, <2>1, <2>2, PTL DEF Spec, Scheduled
<1>7. Spec /\ Scheduled => (pc = "kill" ~> Dying \/ Reapable)
  <2>1. /\ /\ TypeOK /\ LifeInv /\ pc = "kill" /\ [Next]_vars
           => (pc = "kill")' \/ Dying' \/ Reapable'
        /\ /\ TypeOK /\ LifeInv /\ pc = "kill" /\ <<Next /\ Parent>>_vars
           => Dying' \/ Reapable'
    BY Dooms
  <2>2. pc = "kill" => ~Waiting
    BY DEF Waiting
  <2> QED
    BY <1>1, <1>2, <2>1, <2>2, PTL DEF Spec, Scheduled
<1>8. Spec /\ Dies => (Dying ~> Reapable)
  <2>1. /\ /\ TypeOK /\ LifeInv /\ Dying /\ [Next]_vars
           => Dying' \/ Reapable'
        /\ /\ TypeOK /\ LifeInv /\ Dying /\ <<Next /\ Die(Child)>>_vars
           => Reapable'
    BY Dooms
  <2>2. Dying => ~~Doomed
    BY DEF Dying
  <2> QED
    BY <1>1, <1>3, <2>1, <2>2, PTL DEF Spec, Dies
<1>9. Spec /\ Scheduled => (Reapable ~> pc = "done")
  <2>1. /\ /\ TypeOK /\ LifeInv /\ Reapable /\ [Next]_vars
           => Reapable' \/ (pc = "done")'
        /\ /\ TypeOK /\ LifeInv /\ Reapable /\ <<Next /\ Parent>>_vars
           => (pc = "done")'
    BY Dooms
  <2>2. Reapable => ~Waiting
    BY DEF Reapable, Waiting
  <2> QED
    BY <1>1, <1>2, <2>1, <2>2, PTL DEF Spec, Scheduled
<1>10. clock >= Timeout /\ pc = "break" => Late("break")
  BY DEF Late
<1> QED
  BY <1>4, <1>5, <1>6, <1>7, <1>8, <1>9, <1>10, PTL
============================================================================
