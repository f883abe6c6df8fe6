-------------------------- MODULE AgentConnection --------------------------
(***************************************************************************)
(* src/agent_connection.rs: one absolute deadline bounds the connection to  *)
(* the ssh-agent and every read and write the client library then makes     *)
(* through DeadlineStream.  The agent is the environment: it may refuse,    *)
(* stall, drip single bytes, or hang up at any point.                       *)
(*                                                                         *)
(* Messages are lengths; time is counted in ticks from the moment the       *)
(* deadline is fixed, Milli of which make poll()'s millisecond.             *)
(***************************************************************************)
EXTENDS Integers

CONSTANTS
    Timeout,   \* agent_timeout, in ticks
    Milli,     \* clock ticks in a millisecond
    MaxSize,   \* bound on the length of a request and of a response
    BufCap,    \* capacity of each direction of the socket
    MaxCalls,  \* bound on the requests made on a connection
    MaxClock   \* bound on the clock

ASSUME AgentConnectionAssumption ==
    /\ Timeout \in Nat /\ Milli \in Nat \ {0}
    /\ MaxSize \in Nat /\ BufCap \in Nat /\ MaxCalls \in Nat
    /\ MaxClock \in Nat

VARIABLES
    timed,     \* is there an agent_timeout?
    pc,        \* where the client stands
    nonblock,  \* O_NONBLOCK is set on the socket
    wake,      \* when the system call in progress times out
    calls,     \* requests begun
    todo,      \* bytes of the request or response still to transfer
    result,    \* "none", "ok", "timeout" or "io"
    sock,      \* "none", "pending", "connected" or "refused"
    inbound,   \* bytes the agent has sent that were not read yet
    outbound,  \* bytes written that the agent has not read yet
    hungUp,    \* the agent has closed its end
    clock,
    delayed    \* history: time passed while the client was not blocked

time == <<clock, delayed>>
client == <<pc, nonblock, wake, calls, todo, result>>
agent == <<sock, inbound, outbound, hungUp>>
vars == <<timed, client, agent, time>>

StreamPcs == {"idle", "write", "writing", "flush", "read", "reading"}

TypeOK ==
    /\ timed \in BOOLEAN
    /\ pc \in {"connect", "wait", "poll", "restore", "done"} \cup StreamPcs
    /\ nonblock \in BOOLEAN
    /\ wake \in Nat
    /\ calls \in Nat
    /\ todo \in 0 .. MaxSize
    /\ result \in {"none", "ok", "timeout", "io"}
    /\ sock \in {"none", "pending", "connected", "refused"}
    /\ inbound \in 0 .. BufCap
    /\ outbound \in 0 .. BufCap
    /\ hungUp \in BOOLEAN
    /\ clock \in Nat
    /\ delayed \in BOOLEAN

Init ==
    /\ timed \in BOOLEAN
    /\ pc = "connect"
    /\ nonblock = FALSE
    /\ wake = 0
    /\ calls = 0
    /\ todo = 0
    /\ result = "none"
    /\ sock = "none"
    /\ inbound = 0
    /\ outbound = 0
    /\ hungUp = FALSE
    /\ clock = 0
    /\ delayed = FALSE

Goto(label) == pc' = label /\ UNCHANGED <<nonblock, wake, calls, todo, result>>

Finish(r) ==
    /\ pc' = "done"
    /\ result' = r
    /\ UNCHANGED <<nonblock, wake, calls, todo>>

Larger(a, b) == IF a <= b THEN b ELSE a

DeadlinePassed == timed /\ clock >= Timeout

----------------------------------------------------------------------------
(* connect_unix()                                                          *)

(* The socket is made non-blocking and connect() called on it; without a
   timeout Client::connect() does it all, blocking.  A bad path, a failing
   system call and any errno but EINPROGRESS end the attempt.              *)
Connect ==
    /\ pc = "connect"
    /\ \/ timed /\ nonblock' = TRUE /\ pc' = "restore" /\ sock' = "connected"
       \/ timed /\ nonblock' = TRUE /\ pc' = "wait" /\ sock' = "pending"
       \/ ~timed /\ nonblock' = FALSE /\ pc' = "idle" /\ sock' = "connected"
    /\ UNCHANGED <<timed, wake, calls, todo, result, inbound, outbound, hungUp,
                   time>>

ConnectFails ==
    /\ pc = "connect"
    /\ Finish("io")
    /\ UNCHANGED <<timed, agent, time>>

(* The time left in whole milliseconds, at least one.                      *)
PollTicks == Milli * Larger(1, (Timeout - clock) \div Milli)

(* wait_for_connect()                                                      *)
WaitForConnect ==
    /\ pc = "wait"
    /\ IF DeadlinePassed
         THEN Finish("timeout")
         ELSE /\ pc' = "poll"
              /\ wake' = clock + PollTicks
              /\ UNCHANGED <<nonblock, calls, todo, result>>
    /\ UNCHANGED <<timed, agent, time>>

(* Mutant: SO_ERROR is not looked at.                                      *)
AnyAnswer == sock # "pending"

Established == sock = "connected"

PollConnect ==
    /\ pc = "poll"
    /\ \/ sock # "pending" /\ (IF Established THEN Goto("restore") ELSE Finish("io"))
       \/ sock = "pending" /\ clock >= wake /\ Finish("timeout")
    /\ UNCHANGED <<timed, agent, time>>

(* poll() is interrupted, and repeated, or fails.                          *)
PollDisturbed ==
    /\ pc = "poll"
    /\ Goto("wait") \/ Finish("io")
    /\ UNCHANGED <<timed, agent, time>>

(* Mutant: the socket stays non-blocking.                                  *)
StayNonblocking ==
    /\ pc = "restore"
    /\ Goto("idle")
    /\ UNCHANGED <<timed, agent, time>>

(* The original status flags are put back.                                 *)
Restore ==
    /\ pc = "restore"
    /\ \/ pc' = "idle" /\ nonblock' = FALSE /\ UNCHANGED <<wake, calls, todo, result>>
       \/ Finish("io")
    /\ UNCHANGED <<timed, agent, time>>

----------------------------------------------------------------------------
(* The client library's requests: write everything, perhaps flush, read a
   response of the length the agent announces.                             *)

StartCall ==
    /\ pc = "idle"
    /\ calls < MaxCalls
    /\ calls' = calls + 1
    /\ todo' \in 1 .. MaxSize
    /\ pc' = "write"
    /\ UNCHANGED <<timed, nonblock, wake, result, agent, time>>

Leave ==
    /\ pc = "idle"
    /\ Finish("ok")
    /\ UNCHANGED <<timed, agent, time>>

(* Mutant: every operation gets the whole timeout.                         *)
PerOperation == Timeout

Remaining == Timeout - clock

(* Mutant: the socket timeout is never set.                                *)
Never == MaxClock + 1

(* When an operation started now gives up.                                 *)
Until == IF timed THEN clock + Remaining ELSE MaxClock + 1

(* DeadlineStream sets the socket timeout to what is left until the
   deadline, or fails when nothing is; a plain UnixStream has no timeout.  *)
Arm(from, to) ==
    /\ pc = from
    /\ IF DeadlinePassed
         THEN Finish("timeout")
         ELSE /\ pc' = to
              /\ wake' = Until
              /\ UNCHANGED <<nonblock, calls, todo, result>>
    /\ UNCHANGED <<timed, agent, time>>

Write == Arm("write", "writing")
Read == Arm("read", "reading")

TimedOut == clock >= wake \/ nonblock

(* The other ways a blocked call ends: EINTR, which write_all() and
   read_exact() repeat, WouldBlock, which map_timeout() turns into a
   timeout, and any other error.                                           *)
Interrupted(from, to) ==
    pc = from /\ Goto(to) /\ UNCHANGED <<timed, agent, time>>

NothingToDo ==
    \/ pc = "writing" /\ outbound = BufCap /\ ~hungUp
    \/ pc = "reading" /\ inbound = 0 /\ ~hungUp

StreamTimeout ==
    /\ NothingToDo
    /\ TimedOut
    /\ Finish("timeout")
    /\ UNCHANGED <<timed, agent, time>>

(* The agent has hung up: writing fails, and reading once all is read.     *)
PeerGone ==
    /\ hungUp
    /\ pc = "writing" \/ (pc = "reading" /\ inbound = 0)
    /\ Finish("io")
    /\ UNCHANGED <<timed, agent, time>>

StreamFails ==
    /\ pc \in {"writing", "reading"}
    /\ Finish("io")
    /\ UNCHANGED <<timed, agent, time>>

Written ==
    /\ pc = "writing"
    /\ ~hungUp
    /\ \E n \in 1 .. todo :
          /\ outbound + n <= BufCap
          /\ outbound' = outbound + n
          /\ \/ n < todo /\ pc' = "write" /\ todo' = todo - n
             \/ n = todo /\ pc' \in {"flush", "read"} /\ todo' \in 1 .. MaxSize
    /\ UNCHANGED <<timed, nonblock, wake, calls, result, sock, inbound, hungUp,
                   time>>

(* Flushing a socket does nothing, but not after the deadline.             *)
Flush ==
    /\ pc = "flush"
    /\ IF DeadlinePassed THEN Finish("timeout") ELSE Goto("read")
    /\ UNCHANGED <<timed, agent, time>>

(* No more is read than the rest of this response.                         *)
Wanted == todo

ReadSome ==
    /\ pc = "reading"
    /\ \E n \in 1 .. Wanted :
          /\ n <= inbound
          /\ inbound' = inbound - n
          /\ todo' = todo - n
          /\ pc' = IF n = todo THEN "idle" ELSE "read"
    /\ UNCHANGED <<timed, nonblock, wake, calls, result, sock, outbound, hungUp,
                   time>>

Client ==
    \/ Connect \/ ConnectFails \/ WaitForConnect \/ PollConnect \/ Restore
    \/ StartCall \/ Leave \/ Write \/ Read \/ Flush \/ Written \/ ReadSome
    \/ StreamTimeout \/ PeerGone

Disturbances ==
    \/ PollDisturbed \/ StreamFails
    \/ Interrupted("writing", "write") \/ Interrupted("reading", "read")

----------------------------------------------------------------------------
(* The agent and the clock.                                                *)

Answer ==
    /\ pc # "done"
    /\ sock = "pending"
    /\ sock' \in {"connected", "refused"}
    /\ UNCHANGED <<timed, client, inbound, outbound, hungUp, time>>

Talks == pc # "done" /\ sock = "connected" /\ ~hungUp

Send ==
    /\ Talks
    /\ inbound < BufCap
    /\ inbound' = inbound + 1
    /\ UNCHANGED <<timed, client, sock, outbound, hungUp, time>>

Take ==
    /\ Talks
    /\ outbound > 0
    /\ outbound' = outbound - 1
    /\ UNCHANGED <<timed, client, sock, inbound, hungUp, time>>

HangUp ==
    /\ Talks
    /\ hungUp' = TRUE
    /\ UNCHANGED <<timed, client, sock, inbound, outbound, time>>

Blocked ==
    \/ pc = "poll" /\ sock = "pending" /\ clock < wake
    \/ NothingToDo /\ ~TimedOut

Tick ==
    /\ pc # "done"
    /\ clock < MaxClock
    /\ clock' = clock + 1
    /\ delayed' = (delayed \/ ~Blocked)
    /\ UNCHANGED <<timed, client, agent>>

Over == pc = "done" /\ UNCHANGED vars

Next == Client \/ Disturbances \/ Answer \/ Send \/ Take \/ HangUp \/ Tick \/ Over

Spec == Init /\ [][Next]_vars

(* The client's thread is scheduled and time passes.  The agent owes nothing,
   and no signal or error has to end a call.                               *)
FairSpec == Spec /\ WF_vars(Client) /\ WF_vars(Tick)

----------------------------------------------------------------------------
(* Properties.                                                             *)

(* "bound the complete SSH-agent connection and request" (README.md): with a
   prompt scheduler no agent, however it drips its bytes and whatever signals
   arrive, holds the client a millisecond past the one deadline.           *)
WithinDeadline == ~delayed /\ timed => clock < Timeout + Milli

(* A timeout is reported only of a deadline, and no more than the rounding
   of poll() before it: WouldBlock, which map_timeout() reports as one,
   cannot come from a socket left non-blocking.                            *)
NoEarlyTimeout == result = "timeout" => timed /\ clock > Timeout - Milli

(* Requests go only over a connection that was really established.         *)
OnlyOnConnection == pc \in StreamPcs => sock = "connected"

(* With an agent_timeout the request is over some time, whatever the agent
   does or fails to do.                                                    *)
Terminates == timed => <>(pc = "done")
============================================================================
