----------------------- MODULE AgentConnectionProofs -----------------------
(***************************************************************************)
(* The deadline of AgentConnection, for every timeout, granularity, buffer  *)
(* and message size.  The inductive invariant WakeInv says when the system  *)
(* call in progress times out: within a millisecond of the deadline, on     *)
(* either side, if it is poll(), and at the deadline if it is an operation  *)
(* on the stream.  The last theorem is one of liveness: past the deadline   *)
(* the client takes at most 4 more steps, none of which can block it.       *)
(***************************************************************************)
EXTENDS AgentConnection, TLAPS

USE AgentConnectionAssumption DEF AgentConnectionAssumption, time

WakeInv ==
    /\ timed /\ pc = "poll" => Timeout - Milli < wake /\ wake < Timeout + Milli
    /\ timed /\ pc \in {"writing", "reading"} => wake = Timeout
    /\ ~timed => pc \notin {"wait", "poll", "restore"}
    /\ ~timed /\ pc \in {"writing", "reading"} => wake = MaxClock + 1
    /\ pc \in StreamPcs => ~nonblock
    /\ clock <= MaxClock
    /\ NoEarlyTimeout
    /\ WithinDeadline

ConnInv ==
    /\ pc = "connect" => sock = "none"
    /\ pc = "restore" => sock = "connected"
    /\ OnlyOnConnection

----------------------------------------------------------------------------
(* The types of AgentConnection's variables, whatever the agent does.      *)
THEOREM Typing == Spec => []TypeOK
<1>1. Init => TypeOK
  <2>1. Init => todo \in 0 .. MaxSize /\ inbound \in 0 .. BufCap /\ outbound \in 0 .. BufCap
    BY DEF Init
  <2>2. Init => /\ timed \in BOOLEAN /\ nonblock \in BOOLEAN
                 /\ hungUp \in BOOLEAN /\ delayed \in BOOLEAN
    BY DEF Init
  <2> QED
    BY <2>1, <2>2 DEF Init, TypeOK
<1>2. TypeOK /\ [Next]_vars => TypeOK'
  <2> SUFFICES ASSUME TypeOK, [Next]_vars PROVE TypeOK'
    OBVIOUS
  <2> USE DEF TypeOK, StreamPcs, agent, client, Goto, Finish
  <2>1. CASE Connect \/ ConnectFails
    BY <2>1 DEF Connect, ConnectFails
  <2>2. CASE WaitForConnect
    <3>1. CASE DeadlinePassed
      BY <2>2, <3>1 DEF WaitForConnect
    <3>2. CASE ~DeadlinePassed
      <4>1. timed => (Timeout - clock) \div Milli \in Nat
        BY <3>2 DEF DeadlinePassed
      <4>2. PollTicks \in Nat
        BY <2>2 DEF PollTicks, Larger
      <4> QED
        BY <2>2, <3>2, <4>2 DEF WaitForConnect
    <3> QED
      BY <3>1, <3>2
  <2>3. CASE PollConnect \/ PollDisturbed
    BY <2>3 DEF PollConnect, PollDisturbed
  <2>4. CASE Restore
    BY <2>4 DEF Restore
  <2>5. CASE StartCall \/ Leave
    BY <2>5 DEF StartCall, Leave
  <2>6. CASE Write \/ Read
    BY <2>6 DEF Write, Read, Arm, Until, Remaining, DeadlinePassed
  <2>7. CASE Flush
    BY <2>7 DEF Flush
  <2>8. CASE Written
    <3>1. PICK n \in 1 .. todo :
             /\ outbound + n <= BufCap
             /\ outbound' = outbound + n
             /\ \/ n < todo /\ pc' = "write" /\ todo' = todo - n
                \/ n = todo /\ pc' \in {"flush", "read"} /\ todo' \in 1 .. MaxSize
      BY <2>8 DEF Written
    <3>2. outbound' \in 0 .. BufCap /\ todo' \in 0 .. MaxSize
      BY <3>1
    <3>3. pc' \in StreamPcs
      BY <3>1
    <3> QED
      BY <2>8, <3>2, <3>3 DEF Written
  <2>9. CASE ReadSome
    BY <2>9 DEF ReadSome, Wanted
  <2>10. CASE Interrupted("writing", "write") \/ Interrupted("reading", "read")
    BY <2>10 DEF Interrupted
  <2>11. CASE StreamTimeout \/ PeerGone \/ StreamFails
    BY <2>11 DEF StreamTimeout, PeerGone, StreamFails
  <2>12. CASE Answer \/ Send \/ Take \/ HangUp
    <3>1. inbound' \in 0 .. BufCap /\ outbound' \in 0 .. BufCap
      BY <2>12 DEF Answer, Send, Take, HangUp
    <3>2. hungUp' \in BOOLEAN
      BY <2>12 DEF Answer, Send, Take, HangUp
    <3> QED
      BY <2>12, <3>1, <3>2 DEF Answer, Send, Take, HangUp
  <2>13. CASE Tick
    BY <2>13 DEF Tick
  <2>14. CASE Over \/ UNCHANGED vars
    BY <2>14 DEF Over, vars
  <2> QED
    BY <2>1, <2>2, <2>3, <2>4, <2>5, <2>6, <2>7, <2>8, <2>9, <2>10, <2>11,
       <2>12, <2>13, <2>14 DEF Next, Client, Disturbances
<1> QED
  BY <1>1, <1>2, PTL DEF Spec

(* Rounding the time left to whole milliseconds, and up to one, misses the
   deadline by less than a millisecond.                                    *)
LEMMA PollBound ==
    ASSUME TypeOK, clock < Timeout
    PROVE  /\ Timeout - Milli < clock + PollTicks
           /\ clock + PollTicks < Timeout + Milli
<1> DEFINE left == Timeout - clock
           ms == left \div Milli
<1>1. left \in Nat \ {0}
  BY DEF TypeOK
<1> HIDE DEF left
<1>2. ms \in Nat /\ Milli * ms <= left /\ left < Milli * ms + Milli
  BY <1>1
<1> HIDE DEF ms
<1>3. CASE ms = 0
  <2>1. PollTicks = Milli
    BY <1>3 DEF PollTicks, Larger, ms, left
  <2> QED
    BY <1>1, <1>2, <1>3, <2>1 DEF left, TypeOK
<1>4. CASE ms # 0
  <2>1. PollTicks = Milli * ms
    BY <1>2, <1>4 DEF PollTicks, Larger, ms, left
  <2>2. Milli * ms \in Nat
    BY <1>2
  <2> QED
    BY <1>1, <1>2, <2>1, <2>2 DEF left, TypeOK
<1> QED
  BY <1>3, <1>4

(* A stream exists only over an established connection.                    *)
LEMMA ConnStep ==
    ASSUME ConnInv, [Next]_vars
    PROVE  ConnInv'
<1> USE DEF ConnInv, OnlyOnConnection, StreamPcs, agent, client, Goto, Finish
<1>1. CASE Connect \/ ConnectFails \/ WaitForConnect \/ PollConnect \/ PollDisturbed
           \/ Restore
  BY <1>1 DEF Connect, ConnectFails, WaitForConnect, PollConnect, PollDisturbed,
              Established, Restore
<1>2. CASE StartCall \/ Leave \/ Write \/ Read \/ Flush
  BY <1>2 DEF StartCall, Leave, Write, Read, Arm, Flush
<1>3. CASE Written
  BY <1>3 DEF Written
<1>4. CASE ReadSome
  BY <1>4 DEF ReadSome
<1>5. CASE \/ Interrupted("writing", "write") \/ Interrupted("reading", "read")
           \/ StreamTimeout \/ PeerGone \/ StreamFails
  BY <1>5 DEF Interrupted, StreamTimeout, PeerGone, StreamFails
<1>6. CASE Answer \/ Send \/ Take \/ HangUp \/ Tick \/ Over \/ UNCHANGED vars
  BY <1>6 DEF Answer, Send, Take, HangUp, Tick, Over, vars
<1> QED
  BY <1>1, <1>2, <1>3, <1>4, <1>5, <1>6 DEF Next, Client, Disturbances

(* Every step leaves the call in progress with the right time to wake up.  *)
LEMMA WakeStep ==
    ASSUME TypeOK, WakeInv, [Next]_vars
    PROVE  WakeInv'
<1> USE DEF WakeInv, NoEarlyTimeout, WithinDeadline, StreamPcs, agent, client,
            Goto, Finish
<1>1. CASE Connect \/ ConnectFails
  BY <1>1 DEF Connect, ConnectFails, TypeOK
<1>2. CASE WaitForConnect
  <2>1. CASE DeadlinePassed
    BY <1>2, <2>1 DEF WaitForConnect, DeadlinePassed, TypeOK
  <2>2. CASE ~DeadlinePassed
    <3>1. timed /\ clock < Timeout
      BY <1>2, <2>2 DEF WaitForConnect, DeadlinePassed, TypeOK
    <3>2. wake' = clock + PollTicks /\ pc' = "poll"
      BY <1>2, <2>2 DEF WaitForConnect
    <3>3. Timeout - Milli < wake' /\ wake' < Timeout + Milli
      BY <3>1, <3>2, PollBound
    <3> QED
      BY <1>2, <2>2, <3>1, <3>2, <3>3 DEF WaitForConnect
  <2> QED
    BY <2>1, <2>2
<1>3. CASE PollConnect \/ PollDisturbed
  BY <1>3 DEF PollConnect, PollDisturbed, TypeOK
<1>4. CASE Restore
  BY <1>4 DEF Restore
<1>5. CASE StartCall \/ Leave
  BY <1>5 DEF StartCall, Leave
<1>6. CASE Write \/ Read
  <2>1. CASE DeadlinePassed
    <3>1. timed /\ clock > Timeout - Milli
      BY <2>1 DEF DeadlinePassed, TypeOK
    <3>2. pc' = "done" /\ UNCHANGED <<timed, clock, delayed>>
      BY <1>6, <2>1 DEF Write, Read, Arm
    <3> QED
      BY <3>1, <3>2
  <2>2. CASE ~DeadlinePassed
    <3>1. timed => clock + Remaining = Timeout
      BY DEF Remaining, TypeOK
    <3>2. /\ pc' \in {"writing", "reading"}
          /\ UNCHANGED <<timed, nonblock, result, clock, delayed>>
      BY <1>6, <2>2 DEF Write, Read, Arm
    <3>3. wake' = IF timed THEN clock + Remaining ELSE MaxClock + 1
      BY <1>6, <2>2 DEF Write, Read, Arm, Until
    <3>4. ~nonblock
      BY <1>6 DEF Write, Read, Arm
    <3> QED
      BY <3>1, <3>2, <3>3, <3>4
  <2> QED
    BY <2>1, <2>2
<1>7. CASE Flush
  BY <1>7 DEF Flush, DeadlinePassed, TypeOK
<1>8. CASE Written
  BY <1>8 DEF Written
<1>9. CASE ReadSome
  BY <1>9 DEF ReadSome
<1>10. CASE Interrupted("writing", "write") \/ Interrupted("reading", "read")
  BY <1>10 DEF Interrupted
<1>11. CASE StreamTimeout
  BY <1>11 DEF StreamTimeout, NothingToDo, TimedOut, TypeOK
<1>12. CASE PeerGone \/ StreamFails
  BY <1>12 DEF PeerGone, StreamFails
<1>13. CASE Answer \/ Send \/ Take \/ HangUp
  BY <1>13 DEF Answer, Send, Take, HangUp
<1>14. CASE Tick
  <2>1. clock' \in Nat /\ clock' <= MaxClock /\ clock' = clock + 1
    BY <1>14 DEF Tick, TypeOK
  <2>2. ~delayed' => ~delayed /\ Blocked
    BY <1>14 DEF Tick
  <2>3. ~delayed' /\ timed => clock' < Timeout + Milli
    BY <1>14, <2>1, <2>2 DEF Tick, Blocked, NothingToDo, TimedOut, TypeOK
  <2>4. /\ UNCHANGED <<timed, pc, nonblock, wake, result>>
        /\ result = "timeout" => clock' > Timeout - Milli
    BY <1>14, <2>1 DEF Tick, TypeOK
  <2> QED
    BY <2>1, <2>3, <2>4
<1>15. CASE Over \/ UNCHANGED vars
  BY <1>15 DEF Over, vars
<1> QED
  BY <1>1, <1>2, <1>3, <1>4, <1>5, <1>6, <1>7, <1>8, <1>9, <1>10, <1>11, <1>12,
     <1>13, <1>14, <1>15 DEF Next, Client, Disturbances

(* When calls wake up, in every execution.                                 *)
LEMMA Wakes == Spec => []WakeInv
<1>1. Init => WakeInv
  BY DEF Init, WakeInv, NoEarlyTimeout, WithinDeadline, StreamPcs
<1>2. TypeOK /\ WakeInv /\ [Next]_vars => WakeInv'
  BY WakeStep
<1> QED
  BY <1>1, <1>2, Typing, PTL DEF Spec

(* The agent holds a prompt client for less than a millisecond more than
   agent_timeout.                                                          *)
THEOREM Bounded == Spec => []WithinDeadline
<1>1. WakeInv => WithinDeadline
  BY DEF WakeInv
<1> QED
  BY <1>1, Wakes, PTL

(* No timeout is reported a millisecond or more before the deadline.       *)
THEOREM NotEarly == Spec => []NoEarlyTimeout
<1>1. WakeInv => NoEarlyTimeout
  BY DEF WakeInv
<1> QED
  BY <1>1, Wakes, PTL

(* Nothing is sent over a socket that is not connected.                    *)
THEOREM Connected == Spec => []OnlyOnConnection
<1>1. Init => ConnInv
  BY DEF Init, ConnInv, OnlyOnConnection, StreamPcs
<1>2. ConnInv /\ [Next]_vars => ConnInv'
  BY ConnStep
<1>3. ConnInv => OnlyOnConnection
  BY DEF ConnInv
<1> QED
  BY <1>1, <1>2, <1>3, PTL DEF Spec
----------------------------------------------------------------------------
(* After the deadline.                                                     *)

(* The most steps a client has ahead of it once the deadline has passed.   *)
Left ==
    CASE pc \in {"connect", "poll"} -> 4 [] pc \in {"restore", "reading"} -> 3
      [] pc \in {"idle", "writing"} -> 2 [] pc \in {"wait", "write", "read", "flush"} -> 1
      [] OTHER -> 0

(* The deadline has passed by what poll() may have been rounded up.        *)
Overdue == timed /\ clock >= Timeout + Milli

(* After the deadline each step of the client brings it closer to its end,
   those that a signal or an error makes it take included.                 *)
LEMMA Nearer ==
    ASSUME DeadlinePassed, Client \/ Disturbances
    PROVE  Left' < Left
<1> USE DEF Left, Goto, Finish
<1>1. CASE Connect \/ ConnectFails \/ WaitForConnect
  BY <1>1 DEF Connect, ConnectFails, WaitForConnect
<1>2. CASE PollConnect \/ PollDisturbed \/ Restore
  BY <1>2 DEF PollConnect, PollDisturbed, Restore
<1>3. CASE StartCall \/ Leave \/ Write \/ Read \/ Flush
  BY <1>3 DEF StartCall, Leave, Write, Read, Arm, Flush
<1>4. CASE Written
  BY <1>4 DEF Written
<1>5. CASE ReadSome
  BY <1>5 DEF ReadSome
<1>6. CASE StreamTimeout \/ PeerGone \/ StreamFails
  BY <1>6 DEF StreamTimeout, NothingToDo, PeerGone, StreamFails
<1>7. CASE Interrupted("writing", "write") \/ Interrupted("reading", "read")
  BY <1>7 DEF Interrupted
<1> QED
  BY <1>1, <1>2, <1>3, <1>4, <1>5, <1>6, <1>7 DEF Client, Disturbances

(* Once the deadline has passed no agent, however it drips its bytes, and no
   signals keep the client in a loop: a connection that has only begun takes
   at most 4 more steps, and an operation on the stream at most 3.         *)
THEOREM FewStepsLeft ==
    Spec => [][DeadlinePassed /\ (Client \/ Disturbances) => Left' < Left]_vars
<1>1. [Next]_vars => [DeadlinePassed /\ (Client \/ Disturbances) => Left' < Left]_vars
  BY Nearer
<1> QED
  BY <1>1, PTL DEF Spec

(* A client that is neither blocked nor done is scheduled, which is what
   WF_vars(Client) comes to without ENABLED.                               *)
Scheduled == []<>(pc = "done" \/ Blocked) \/ []<><<Client>>_vars

(* An overdue client that is no more than n steps from its end.            *)
Within(n) == Overdue /\ Left <= n

(* It is not overdue any less for a step of its own or of others.          *)
LEMMA StaysOverdue ==
    ASSUME TypeOK, [Next]_vars, Overdue
    PROVE  Overdue'
<1> USE DEF Overdue, TypeOK, Goto, Finish
<1>1. CASE Connect \/ ConnectFails \/ WaitForConnect \/ PollConnect \/ PollDisturbed
           \/ Restore
  BY <1>1 DEF Connect, ConnectFails, WaitForConnect, PollConnect, PollDisturbed, Restore
<1>2. CASE StartCall \/ Leave \/ Write \/ Read \/ Flush
  BY <1>2 DEF StartCall, Leave, Write, Read, Arm, Flush
<1>3. CASE Written
  BY <1>3 DEF Written
<1>4. CASE ReadSome
  BY <1>4 DEF ReadSome
<1>5. CASE \/ Interrupted("writing", "write") \/ Interrupted("reading", "read")
           \/ StreamTimeout \/ PeerGone \/ StreamFails
  BY <1>5 DEF Interrupted, StreamTimeout, PeerGone, StreamFails
<1>6. CASE Answer \/ Send \/ Take \/ HangUp \/ Over \/ UNCHANGED vars
  BY <1>6 DEF Answer, Send, Take, HangUp, Over, vars
<1>7. CASE Tick
  <2>1. clock' = clock + 1 /\ timed' = timed
    BY <1>7 DEF Tick
  <2> QED
    BY <2>1
<1> QED
  BY <1>1, <1>2, <1>3, <1>4, <1>5, <1>6, <1>7 DEF Next, Client, Disturbances

(* The agent and the clock leave the client where it is.                   *)
LEMMA OthersWait ==
    ASSUME [Next]_vars
    PROVE  Client \/ Disturbances \/ pc' = pc
BY DEF Next, Answer, Send, Take, HangUp, Tick, Over, vars, client

(* An overdue client stays within n steps of its end, and a step of its own
   brings it within one less.                                              *)
LEMMA Descends ==
    ASSUME NEW n \in 1 .. 4, NEW m, m = n - 1, TypeOK, Within(n), [Next]_vars
    PROVE  /\ Within(n)'
           /\ <<Client>>_vars => Within(m)'
<1>1. Left \in 0 .. 4 /\ Left' \in 0 .. 4
  BY DEF Left
<1>2. DeadlinePassed
  BY DEF Within, Overdue, DeadlinePassed, TypeOK
<1>3. Overdue'
  BY StaysOverdue DEF Within
<1>4. pc' = pc => Left' = Left
  BY DEF Left
<1>5. Left' < Left \/ Left' = Left
  BY <1>2, <1>4, Nearer, OthersWait
<1>6. Client => Left' < Left
  BY <1>2, Nearer
<1> QED
  BY <1>1, <1>3, <1>5, <1>6 DEF Within

(* No call that has begun blocks an overdue client any more.               *)
LEMMA NeverBlocked ==
    ASSUME TypeOK, WakeInv, Overdue
    PROVE  ~Blocked
BY DEF TypeOK, WakeInv, Overdue, Blocked, NothingToDo, TimedOut

(* With an agent_timeout, the end of the request only takes the client's own
   thread to run once the deadline and a millisecond have passed: nothing it
   may be waiting for by then can fail to come.                            *)
THEOREM OverdueEnds == Spec /\ Scheduled => (Overdue ~> pc = "done")
<1> DEFINE Safe == TypeOK /\ WakeInv
<1>1. Spec => []Safe
  BY Typing, Wakes, PTL
<1>2. Spec /\ Scheduled => (Within(4) ~> Within(3) \/ pc = "done")
  <2>1. /\ Safe /\ Within(4) /\ [Next]_vars => Within(4)'
        /\ Safe /\ Within(4) /\ <<Next /\ Client>>_vars => Within(3)'
    BY Descends
  <2>2. Safe /\ Within(4) => pc = "done" \/ ~(pc = "done" \/ Blocked)
    BY NeverBlocked DEF Within
  <2>3. Client => Next
    BY DEF Next
  <2> QED
    BY <1>1, <2>1, <2>2, <2>3, PTL DEF Spec, Scheduled
<1>3. Spec /\ Scheduled => (Within(3) ~> Within(2) \/ pc = "done")
  <2>1. /\ Safe /\ Within(3) /\ [Next]_vars => Within(3)'
        /\ Safe /\ Within(3) /\ <<Next /\ Client>>_vars => Within(2)'
    BY Descends
  <2>2. Safe /\ Within(3) => pc = "done" \/ ~(pc = "done" \/ Blocked)
    BY NeverBlocked DEF Within
  <2>3. Client => Next
    BY DEF Next
  <2> QED
    BY <1>1, <2>1, <2>2, <2>3, PTL DEF Spec, Scheduled
<1>4. Spec /\ Scheduled => (Within(2) ~> Within(1) \/ pc = "done")
  <2>1. /\ Safe /\ Within(2) /\ [Next]_vars => Within(2)'
        /\ Safe /\ Within(2) /\ <<Next /\ Client>>_vars => Within(1)'
    BY Descends
  <2>2. Safe /\ Within(2) => pc = "done" \/ ~(pc = "done" \/ Blocked)
    BY NeverBlocked DEF Within
  <2>3. Client => Next
    BY DEF Next
  <2> QED
    BY <1>1, <2>1, <2>2, <2>3, PTL DEF Spec, Scheduled
<1>5. Spec /\ Scheduled => (Within(1) ~> Within(0) \/ pc = "done")
  <2>1. /\ Safe /\ Within(1) /\ [Next]_vars => Within(1)'
        /\ Safe /\ Within(1) /\ <<Next /\ Client>>_vars => Within(0)'
    BY Descends
  <2>2. Safe /\ Within(1) => pc = "done" \/ ~(pc = "done" \/ Blocked)
    BY NeverBlocked DEF Within
  <2>3. Client => Next
    BY DEF Next
  <2> QED
    BY <1>1, <2>1, <2>2, <2>3, PTL DEF Spec, Scheduled
<1>6. Overdue => Within(4)
  BY DEF Within, Left
<1>7. Safe /\ Within(0) => pc = "done"
  BY DEF Within, Left, TypeOK, StreamPcs
<1> QED
  BY <1>1, <1>2, <1>3, <1>4, <1>5, <1>6, <1>7, PTL
============================================================================
