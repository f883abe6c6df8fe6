# A TLA+ verification of pam-ssh-agent

`pam-ssh-agent` is a PAM module in Rust.  It authenticates a user by asking an
ssh-agent to sign a random challenge with a key that the system trusts.  The
trusted keys come from files and, optionally, from an external helper command.
The module runs inside a privileged host (`sudo`, `su`, a login service) and
talks to three parties it does not control: the agent, the helper with whatever
processes that creates, and the clock.

This directory holds models of its parts, the TLC runs that check them on small
instances, and TLAPS proofs of the main properties for every value of the
constants.  All paths `x.rs:n` below are relative to `src/src/`.

## 1. Inventory

| component | state | operations | where |
|---|---|---|---|
| helper command runner | the child and its process group, the two output buffers and end-of-file flags, the collected exit status, one deadline | spawn with privilege drop, drain, `try_wait`, poll, kill and reap | `cmd.rs` |
| identity filter (policy) | the set of trusted keys, the set of trusted CA keys, the policy mode | read three sources in order, parse them line by line, look an identity up | `filter.rs` |
| trusted paths (also `filter.rs`) | a path on its way from configuration to an open file or an executed helper | validate prefix by prefix, canonicalise, inspect, open, compare, read within a limit | `filter.rs:265-338` |
| authentication protocol | the identity list, the position in it, the challenge, the answer | list, select, validate a certificate, sign, verify | `auth.rs`, `agent.rs`, `verify.rs` |
| agent connection | the socket, its non-blocking flag, the absolute deadline | non-blocking connect, poll, restore flags, timed reads and writes | `agent_connection.rs` |
| PAM entry points and request flow | the arguments, the PAM handle, the chosen user | option parsing, strict checks of users, sshd shortcut, composition of the above, error to PAM code | `lib.rs`, `pamext.rs` |
| option parsing and expansion | the option record | parse, expand `%h`, `%U`, ..., mode-dependent defaults | `args.rs`, `expansions.rs` |
| logging | a process-wide logger behind a lock, a thread-local debug flag | initialise, set and restore the flag, emit | `logging.rs` |
| user and host lookups | none | wrappers around `getpwnam`, `gethostname`, ... | `environment.rs` |
| native crypto | none | in builds with the feature `native-crypto`: hand an encoded key and signature of a few key types to OpenSSL | `nativecrypto.rs` |
| PAM bindings | none of their own | FFI glue, conversation, panic guard | `vendor/pam-bindings` |

### How they interact

`lib.rs` parses the options, checks users in strict mode, and asks
`IdentityFilter::new_with_mode` for a policy.  That reads the trusted file, the CA
file, and calls `cmd::run` or `cmd::run_without_descendants` for the helper
command.  It then opens a connection with `connect_unix`, wraps it in the client
of the `ssh-agent-client-rs` crate, and calls `authenticate`, which uses the
filter and the client.  All calls are synchronous and on the host's thread.
Concurrency comes from outside: the helper's processes run beside the loop in
`cmd.rs`, the agent runs beside the connection, users and the administrator change
the directory tree and the account database, and several requests may be in flight
on different threads of one host, sharing the logger.

### Hard behaviours and what makes each part correct

* **Helper.**  The exit of the child, the end of its output and the end of its
  descendants are three events in any order.  Correct means: no result leaves a
  process unreaped, `Ok` carries the whole output, the limit is exact, an error
  kills the whole group, the deadline is one deadline, privileges are dropped
  before `exec` in an order that works.
* **Policy.**  Two modes read the same text differently.  Correct means: strict
  mode never makes a line mean more than legacy mode does, roles are not mixed,
  only the failures meant to be tolerated are tolerated.
* **Trusted paths.**  A path is looked at many times, one system call each, while
  others change the tree.  Correct means: what is read or executed is root's, all
  of it, and is the file the configured path led to when the request began.
* **Protocol.**  The agent may answer anything, old signatures included.
  Correct means: success implies a fresh signature by a trusted key, strict mode
  also needs user presence and verification, no usable key is passed over.
* **Connection.**  The agent may stall at every byte.  Correct means: one
  deadline for everything, never reported early, and requests only over a
  connection that was really established.
* **Request flow.**  The account database is asked several times, success has two
  roads, and anything may panic.  Correct means: success rests on an identity
  that this request's policy trusts, a strict helper is not root, and the host
  always gets one answer.
* **Options.**  A strict-mode check of one option depends on options before and
  after it, and on a text before it is expanded.  Correct means: what strict mode
  accepts is one file per user outside home directories, one helper for all, and
  a bounded agent, wherever `strict` stands.
* **Logging.**  Threads share one logger and have a flag each.  Correct means: no
  request fails, silences or blocks another, and a flag follows its own request.

The full list of hazards, each with its line and the properties covering it, is
in `PROJECT.json`.

## 2. Plan

Written, in order of importance:

1. `CommandRunner` with `CommandRunnerProofs`: most of the concurrency.
   `HelperContract` is what a caller of `cmd::run` is promised; `CommandRunner`
   implements it, by TLC and by proof.
2. `Policy` and `IdentityFilter` with `IdentityFilterProofs`: what is trusted.
3. `Authenticate` (uses `Policy`, implements `ChallengeResponse`) with
   `AuthenticateProofs`: who gets in.
4. `AgentConnection` with `AgentConnectionProofs`: how long it may take.
5. `Args` and `ArgsParse` with `ArgsParseProofs`: what the options mean.
6. `PamModule` (uses `Policy` and `Args`, implements `AuthGate`) with
   `PamModuleProofs`: the request as a whole.
7. `Logging` with `LoggingProofs`: requests beside each other.
8. `TrustPath` with `TrustPathProofs`: validation against a changing tree.

What could follow: a contract like these for `AgentConnection`, with the steps `RunHelper`,
`Authenticate` and `Connect` of `PamModule` as instances of the three; today `PamModule`
states what it takes from them.

## 3. The modules

### CommandRunner (`cmd.rs`)

`pc` names the place in `run_inner` where the parent stands; each action is one
system call of it with the code up to the next.

| action | code |
|---|---|
| `Prepare`, `Spawn` | the path check and the deadline; `fork` |
| `SetRlimit`, `SetGroups`, `SetGid`, `SetUid`, `Exec` | the `pre_exec` closure, one system call each, any of which may fail |
| `SetNonblocking` | making both pipes non-blocking |
| `DrainOutput(s)` | one `read` of `drain_output`, its end of file, `WouldBlock`, overflow and error |
| `Break`, `TryWait`, `CheckDeadline` | the tests of the main loop |
| `StartPoll`, `EndPoll`, `PollDisturbed` | `wait_for_output` |
| `Kill`, `Reap` | `terminate_and_reap`: `kill(-pid)` and `Child::kill`, then `Child::wait` |

The environment is: processes that write, close a pipe, fork, leave the group,
exit or die of a signal; a kernel that may hand out a reaped pid again
(`RecyclePid`); and the clock.  Output is counted, not spelled out.
`written`, `foreign` and `unnoticed`, the time an ended helper has waited for
`try_wait`, are history variables.

A request is any combination of wrapper, caller, uid and path (`Requests`), a strict one
for root included: `cmd.rs` does not refuse it, and `lib.rs` has checked an earlier
lookup of the user than the one whose uid is passed on (`filter.rs:109`).

A pid is reused only after the zombie has been reaped and no running process is
left in the group named after it, as POSIX requires.

The deadline is fixed before `spawn`, which then waits for the `exec` of the child
without looking at it (`cmd.rs:101`).  Time may pass there as well; `spawned` is a
history variable, the time at which `spawn` was last at work.

### HelperContract (`cmd.rs`, as its callers see it)

Four variables: the helper's life, how it ended, whether the answer holds
everything that was or can be written, and the verdict.  `Start`, `Complete`, `End`, `Reap`,
`Succeed` and `Refuse` are all that may happen.  `CommandRunner` implements it with the
mapping at its end: `helper` is a stage of `proc[Child]`, `whole` compares what was
collected with what was written and asks for the writers that are left, `verdict` is
`result` once the function has returned.

### Policy and IdentityFilter (`filter.rs`)

`Policy` holds what one line means (`IsCa`, `OptionsSupported`, `Entry`) and how
an identity is looked up (`Filter`).  `IdentityFilter` walks through the three
sources: `SkipSource` (absent, or a missing authorized_keys file in legacy mode),
`ReadFails`, `LegacyLine` (unparsable lines are dropped), `StrictLine` (the first
unsupported one fails everything), `EndOfSource`, `From`.  A source is text with
a reading outcome; that text parses or does not is part of the line.

### TrustPath (`filter.rs:265-338`)

`pc` goes through `validate_trust_path` and `read_strict_file`; each action is one
system call and the tests of its result.

| action | code |
|---|---|
| `CheckNormal` | the path is absolute and without `.` and `..` |
| `ValidateLexical`, `ValidateResolved` | one turn of `validate_components` each, over the configured path and over the canonical one |
| `Canonicalize` | one `readlink` of `fs::canonicalize`, which starts again with what a link holds |
| `CheckRegular`, `Expect`, `Open`, `Read` | the file type, after which the caller reads the file or keeps the helper's path; `fs::metadata`, the open with the comparison of device and inode, `read_bounded` |
| `Execute` | the helper, executed by its canonical path in the child |

The tree is a function from the used (directory, name) pairs to inodes; `Walk` gives
the inodes a path leads through and `Followed` the path after some of its links, from
which `Stat` and `Lstat` are made: how the kernel walks along a path, atomic per system
call.  `perm` says who may change an inode, the sticky mode included, which `validate_mode`
admits for the store path only.  `UserEdit` makes, removes or replaces an entry where
the permissions let a user do that, `UserWrite` writes to a file, and `RootEdit` is the
administrator who changes an entry during the request, to anything.  `tampered`, `first`,
`edits` and `careless` are history variables; the last one says that root has put in
something in which users may have a say (`Careful` is what has not).

### Authenticate (`auth.rs`, `agent.rs`, `verify.rs`)

`Begin` to `Verify` are the steps of `authenticate` and `sign_and_verify`. `Listed`,
`Signed`, `RemoteFailure`, `ListFails`, `SignFails` are the agent's answers.  `Mint(k)` is
anyone who holds key `k` signing a challenge that has been issued, at any time, before or
after it was asked for by the agent; signatures stay around across calls and requests.
Signature schemes are modelled by what they promise: `Verifies` accepts exactly what was
minted for this key and this data.  Each challenge is a value no call has used before
(`getrandom`).  The clock may move or be set back at any moment (`Tick`), while the agent
is awaited too; `now` is what the code has read of it, and `began`, a history variable,
what it showed when the call began.  `native` says which build it is: with the feature
`native-crypto` the keys of some types only are handed to OpenSSL and all others fail to
verify (`Supported`), security keys among them.

### ChallengeResponse (`auth.rs`, as a protocol)

Four variables: how many challenges there have been, whether the last one is open, who
has signed it since, and who has been let in.  `Issue`, `Sign`, `Reject`, `Grant` and
`Forget` are all that may happen.  `Authenticate` implements it with the mapping at its
end: a round is a call of `sign_and_verify`, open while the agent or the verification is at
work, and `answers` are the keys under which the data of this very call has been signed.

### AgentConnection (`agent_connection.rs`)

`Connect`, `WaitForConnect`, `PollConnect`, `Restore` are `connect_unix` and
`wait_for_connect`; `Write`, `Read` and `Flush` are the methods of
`DeadlineStream`, which arm the socket timeout with the time that is left.
The client library is not part of the repository: `StartCall`, `Written`,
`ReadSome` and `Leave` model it as it drives the stream (write everything, read
one response, possibly repeat).  The agent connects or refuses, sends and takes
single bytes, and hangs up, each at any time.

### Args and ArgsParse (`args.rs`, `expansions.rs`)

`Args` is operators only: `ExpandVars` with the six expansions in the order of
`expand_vars`, `ParseOption` for one turn of the loop of `Args::parse`, `Conclude` for the
checks after it, `Progress` for the loop and `Parse` for the whole.  A text is a sequence
of tokens (the variables, `~`, `/`, and any other run of characters), which is what the
code tells apart; only the first occurrence of a variable is replaced, and what one
expansion puts in is subject to the next.  What an expansion puts in is marked
(`Markers`), so that it cannot be taken for what somebody has written (`IsText`,
`IsOption`): a home directory, a number, nothing.  Keys of options hold no variable, and
of the ways an option can be malformed (no `=`, not UTF-8, an unknown key, a flag with a
value) there is one, `garbage`.  `ArgsParse` runs the parser on the same options for every
user at a time, so that properties can compare users.

### PamModule and AuthGate (`lib.rs`, `pamext.rs`)

`pc` goes through `sm_authenticate`, `run` and `do_authenticate`: `InvokeHook` (the
checks of the bindings), `Context`, `InitLogging`, `ParseArgs`, `StrictUser`,
`StrictHelper`, `ReadFiles`, `LookupHelper`, `RunHelper`, `Shortcut`, `GetPath`, `Connect`,
`Authenticate`, `SmAuthenticate`.  Each can leave early, and `Panic` may strike at any
of them.  The other components enter by what they promise: files and helper give
some set of keys or fail, and `Authenticate` succeeds with an identity that `Filter`
accepts (`AuthenticationSound`).  `ChangeAccount` is the administrator or directory
service that edits an account while a request runs.  `proof` is a history variable.
`AuthGate` says what a host is promised: one verdict, and none in favour of the user
before a trusted identity was shown.

### Logging (`logging.rs`, and `lib.rs` as its caller)

Every thread runs requests: `Acquire` to `Level` are `init_logging` and `init_impl`,
`WithDebug`, `Body` and `Reset` are `with_debug` around `do_authenticate`.  Opening syslog
may fail or panic, and a panic there poisons the lock (`poisoned`), which is as good as
any for this code (`into_inner`).  A thread has any number of requests; `Own` is what it
does on its own, which leaves out `Begin`, the host's next request, and `Body`, the return
of `do_authenticate`, which may depend on an agent.  `logger = "host"` is a process in which
other code has installed a logger before.  `Enabled` is what the logger answers when
asked, `Written` what really happens to a record.

## 4. The runs

| run | configuration | question |
|---|---|---|
| `helper_safety` | `MCCommandRunner.cfg` | Do the results of the runner mean what they say, is nothing left behind in any interleaving, does the runner implement `HelperContract`, and does it always return? |
| `helper_time` | `MCCommandRunnerTime.cfg` | Is the deadline kept, and how long does an ended helper wait to be noticed? |
| `helper_recycled_pid` | `MCCommandRunnerPid.cfg` | Does the signal reach only the helper's own group?  **It does not** (section 7). |
| `policy` | `MCIdentityFilter.cfg` | Do both modes build the policy they should? |
| `trust_path` | `MCTrustPath.cfg` | Is what strict mode reads or executes root's, and where the configuration says, if the tree changes between any two system calls? |
| `authenticate` | `MCAuthenticate.cfg` | Does success imply a fresh signature by a trusted identity, is it a challenge-response protocol, and does a strict call end? |
| `authenticate_false` | `MCAuthenticateFalse.cfg` | Does `Ok(false)` mean that no key was found?  **It does not** (section 7). |
| `connection` | `MCAgentConnection.cfg` | Are timeouts real, requests on a connection, everything within one deadline, and does every request end? |
| `options` | `MCArgsParse.cfg` | What do accepted options mean, for different users and in any order? |
| `pam` | `MCPamModule.cfg` | What does PAM_SUCCESS rest on, whom does the helper run as, does the module implement `AuthGate` and answer strict requests? |
| `logging` | `MCLogging.cfg` | Can requests disturb each other through the logger? |
| `logging_debug` | `MCLoggingDebug.cfg` | Are debug messages only written on request?  **They always are** (section 7). |

### What the properties say

*Runner.*  `ReapedOnReturn`: no zombie and no running helper after any return.
`CompleteOutput`: `Ok` means exit status zero, every byte written was collected, and
nobody can write any more.  `LimitIsExact`: the limit is reported only of a helper that
passed it, and no more than it is ever kept.  `GroupKilled`: after `terminate_and_reap`
every running member of the group has a SIGKILL pending, also those forked in between.
`HelperConfined`: the running helper has the uid asked for, the low-privilege group, no
groups of a root caller, and in strict mode a process limit of zero.
`StrictHelperIsAlone`: a strict helper that is not root has no descendants, whoever calls.
That it is not root is `StrictHelperNotRoot` below, and holds unless an account changes
between the two lookups; where one does, a strict helper may be root and may fork.
`ImplementsContract`: all of that as one promise, step by step. `DeadlineHolds`: less than
a millisecond is added to the deadline, or to the time `spawn` took where that alone is
longer.  `ExitNoticed`: a helper that has ended with nobody left at its pipes waits at
most `IdlePoll` milliseconds for `try_wait`, counted from the last signal that interrupted
`poll`: `wait_for_output` then polls anew with a fresh timeout, before the loop looks at
the helper.  `Terminates`: every call returns. `AstrayOnlyAfterTryWait`, which is proved
and needs no run: what the code does ensure where `OnlyOwnGroupKilled` fails.

*Policy.*  `StrictNeverBroadens`: a policy accepted in strict mode is the one legacy
mode would read from the same sources, and hides no unparsed line.
`FailuresTolerated`: strict mode is all or nothing, legacy mode fails exactly where a
source cannot be read that must be.
`RolesKeptApart`: a key gets a role only from a line that gives it that role.
`EntryLimitExact`: the limit bites at exactly one more than it says.

*Trusted paths.*  `RootsText`: what is accepted is root's text and all of it, whatever
users do meanwhile and whatever root removes or replaces; only a directory or a link
that root puts in unchecked may lead elsewhere (`careless`).  `NotLedAstray`: while root
leaves the tree alone, it is also the file the configured path led to when the request
began, so no user leads the request to another of root's files.  Two
exceptions belong to that.  The sticky store is the one the code makes: a user may fill a
name there that nobody has taken, so that the names have to be root's already
(`Settled`).  And a link of root's must not hold a path through a directory where users
may put links of their own (`Straight`): the code checks where such a path ends and not
what it went through.

*Protocol.*  `AuthenticationSound`: success needs a signature made during this very
`sign_and_verify`, with the key of a trusted and usable identity.
`ImplementsExchange`: as a promise on every step, a challenge is new, serves for one
decision, and is decided for nobody but a key that signed it while it was open.
`StrictUserVerified`: in strict mode the token attests presence and verification.
`CertificateInPeriod`: the certificate was valid when this very call began, so no time
read by an earlier call decides; it may expire while the agent is awaited, which the code
accepts.  `NothingSkipped`: no usable identity is passed over.  `Terminates`: a strict
call ends.

*Connection.*  `WithinDeadline`, `NoEarlyTimeout`, `OnlyOnConnection`, `Terminates`.

*Options.*  `OneFilePerUser`, `HelperPathFixed`, `TrustOutsideHome`: the three promises of
the README on strict mode, stated of the expanded result and not of the text that is
checked; the first for paths that do not hold `%U` (section 6).  `StrictOnlyRefuses`: an
accepted strict configuration means the same without `strict`.  `StrictAnywhere`: the
order of the options.

*Request.*  `ImplementsGate`: PAM_SUCCESS rests on an identity the policy of
this request trusts.  `ShortcutMeant`: where the sshd shortcut may count as one.
`StrictHelperNotRoot`, `HelperRunsAs`: whom the helper runs as.
`StrictAnswered`: a strict request is answered whatever the agent does.

*Logging.*  `DebugFollowsRequest`: the flag of a thread follows its own requests, through
errors and panics.  `NothingSilenced`: a failed set-up is not taken for done.
`NoSelfConflict`: two first requests do not fail each other.  `NoneShutOut`: every request
gets the lock, and reaches `do_authenticate` or its end, also after a panic that has
poisoned the lock, except where the other threads hand the lock on among themselves for
ever, since a `Mutex` promises no fairness.

### Bounds, and why they are enough

* `helper_safety`: `MaxOutput` 1, `Chunk` 1, `PipeCap` 1 give output below, at and above
  the limit, on each stream, with a full pipe at any time.  One descendant is enough to
  hold a pipe open, to fork during the kill, and to leave the group; the theorems hold for
  any number.  `Timeout` and `MaxClock` 1: before the deadline and at it.
* `helper_time`: no output is needed, because it only ends a poll earlier and an end of
  file does that too.  `Milli` 2 and `Timeout` 4 are two milliseconds, of which a poll
  that starts in the middle of one has a remainder that is none; `IdlePoll` 1 makes that
  clamp bite, while `MaxPoll` 2 is just long enough, as `i32::MAX` is for ten seconds; the
  theorem holds for any values. `MaxClock` 6 is `Timeout + Milli`, so that an overrun
  would be seen.
* `policy`: two lines over three sources with `MaxEntries` 1 give a source of two
  lines above the limit, one source below and one at it, and every pair of lines
  in the same or in different sources.  Option lists have up to two options: the
  code only asks whether the list is empty, contains `cert-authority`, or is
  exactly that.
* `trust_path`: two directories below `/` with a file each, either of which may be
  reached by a link; a file of a user's and a user's link to another file of root's, so
  that there is somewhere to be led astray to.  `MaxUnsafe` 1 other inode is not root's
  alone, which may be any of them; `MaxLinks` 2 lets both links be followed, and more are
  an error; `MaxEdits` 1 entry changed by root, carefully or not.  Users edit without bound.
* `authenticate`: both builds, strict and legacy, two requests with lists of up
  to two identities and one minted signature: stale from an earlier request,
  from an earlier identity of this one, or fresh. The identities are a plain
  key, a security-key key, one that nobody trusts and certificates that each
  fail for one reason; `Times` is inside and at the exclusive end of the validity
  period, between which the clock moves.  A clock before the epoch is left to the theorem
  `InValidity`.
* `connection`: messages of up to 3 bytes through buffers of 2, so that both
  directions fill up, two requests, and a `Timeout` that is not a multiple of
  `Milli`.  `MaxClock` lies above `Timeout + Milli` so that an overrun would be
  seen.

* `options`: three options, which is what it takes to have one before and one after
  `strict`, or two `file=` with `strict`; two plain users and two whose names are
  variables, one of them `%h`; each kind of value on both sides of each check, among them
  a path that holds a variable twice, the limits of `agent_timeout`, and a number of
  seconds that would have to come out of a variable.
* `pam`: one key, which may be trusted as a key, as a certificate authority, as both or
  not at all; two users, one of whom may be the helper's, each with any uid of three or
  none; eight configurations that differ in what `lib.rs` looks at, one of them with an
  `agent_timeout` of 0.
* `logging`: three threads with any number of requests, so that two may hand the lock to
  each other beside a third, and each may fail or panic with others before, beside and
  after it.

Deadlock is checked in every run: each module that comes to an end has one explicit action
for that (`Returned`, `Finished`, `Over`, `Done`; a host of `Logging` never comes to its
end), and no other state may be stuck.

### Time

In the runner and the connection the clock is a counter and may tick at any moment: the
PAM process may be delayed between any two statements.  No deadline can hold under every
scheduler, so the history variable `delayed` records whether time has passed while the
process had something to do, and the deadline properties speak of executions in which it
has not: time passed only while the process was blocked in a system call with nothing to
report, or in `spawn` waiting for the child.  That measures what the code adds to the
deadline by itself: less than one millisecond, from rounding up in `poll`.

### Fairness

* The thread that runs the code is scheduled (`WF` of the parent, client or
  module actions) and time passes (`WF` of `Tick`).
* A process with a pending SIGKILL dies (`WF` of `Die`).
* In `authenticate` the agent of a strict call answers or its connection fails (`WF` of
  `strict /\ Replies`).  This is what `AgentConnection` establishes when there is an
  `agent_timeout`, which strict mode always has.  Legacy mode has none by default, so
  nothing is assumed there and a legacy call may wait for ever.
* In `pam` the thread of the request goes on, and what involves the agent ends
  if there is a timeout (`Terminates` of `AgentConnection`).  `Fairness` spells weak
  fairness out: each action of `Local` can be taken wherever `pc` is in `LocalPcs`,
  and TLC would need very long to find that out through ENABLED.
* In `logging` every thread is scheduled (`WF` of `Own`).  Neither that another request
  comes nor that `do_authenticate` returns is assumed.  That the lock is free time and
  again is not assumed but follows: whoever holds it goes on.
* Nothing is assumed of the helper, its descendants or the agent.  Signals,
  failing system calls and broken streams (`PollDisturbed`, `Disturbances`) are
  kept out of the fair actions: they may happen, but no run ends because of them.

## 5. What is proved

All theorems hold for every value of the constants under the modules' named
assumptions (sizes are natural numbers, granularities and capacities positive,
`Child` is not a descendant; every identity has a key; a validity period has natural
bounds; an inode is one of directory, file and link, names are strings and a link holds
one path; user names and option values are texts, which hold no marker, and a flag has no
value).  There is a theorem for every safety invariant, action property and refinement
that a run checks, and there are some about the liveness of every component that has any.

Some of these properties depend on what a loop over data computes: `Parse` over a list of
options, `Walk` and `Followed` over a path and its links.  The induction theorems of the
library take an operator as a parameter and no installed prover can instantiate that, but
an induction over a set of numbers can be stated without one.  `Least` says that a
nonempty set of naturals has a least element, `Induct` that a set that holds 0 and with
every natural number the next one as well holds all of them.  The loops are recursive
functions; each has a lemma that it exists and unfolds (`ProgressIs`, `OthersIs`,
`WalkIs`, `FollowedIs`), and what is claimed of every turn is the set of turns it holds
for, handed to `Induct`.  These few lemmas are stated in each module that needs them.

Liveness is proved where the number of steps to go does not depend on the data.  There
`Left` counts them by `pc`, a lemma says that each step of the thread in question lowers
it and that nobody else's raises it, and a chain of leads-to formulas, one for each value,
ends in the goal.  The provers know no ENABLED, so except in `PamModule`, where fairness is
written without it, these theorems assume `Scheduled`: time and again the thread is blocked
or done, or it takes a step.  It is what weak fairness says of actions that are enabled
just where the thread is neither.  Where the steps do depend on data (bytes of output, a
list of identities), the action property `FewStepsLeft` says that each lowers a natural
number, for any data.

**`CommandRunnerProofs`**

* `Typing`: among it that no buffer exceeds `MAX_OUTPUT_BYTES`.
* `Reaped` from `LifeInv`: it ties `pc` to the life of the child.  `ReapedOnReturn`
  alone is not inductive: one must know that past `exec` the child exists, that an
  empty `status` means it has not been reaped, and that a status was collected if
  the loop ended normally.
* `Complete` and `LimitExact` from `LifeInv` and `PipeInv`: until the limit is
  passed, buffered plus collected bytes are the bytes written, and a stream seen
  at its end is empty and has no writers.
* `WholeGroup` from `LifeInv` and `GroupInv`: once the signal is out, every running member
  of the group has it pending, so none is left to fork; a reused pid implies that the
  child is gone and that its group has nobody running.
* `Confined` from `CredInv`: what each `pre_exec` step has established when it is
  over, the process limit among it; a helper that is not root is bound by that, which
  gives `Alone`.
* `Deadline` from `ClockInv` and `PollBound`: a poll never ends a millisecond past
  the deadline, because the rounding never adds more than that.
* `Noticed` from `NoticeInv`: a `poll` that has no stream to report times out before
  `unnoticed` can pass the idle limit, with what it was before counted in, and one that
  has a stream finds it ready as soon as nobody holds the pipes.
* `ContractImplemented`: every action is a step of `HelperContract` or changes nothing of
  it.  `LifeInv` says that a verdict finds the child reaped or never born, `PipeInv` that
  output which is complete stays so, because nobody is left to write.
* `FewStepsLeft`: past the deadline each step of `run_inner`, disturbed or not, lowers
  the steps to its end plus the bytes its buffers still take in; this is why a helper that
  writes as fast as it is read cannot keep it.
* `CutShort`: what is to be killed is killed and reaped and the call returns, and so it does
  from the end of any turn of the loop past the deadline.  By `LifeInv` the child that was
  not collected runs or is a zombie, so `Child::wait` has something to wait for.  That a
  process with a SIGKILL dies (`Dies`) is all that is assumed of the others.

**`IdentityFilterProofs`**, for sources of any length and any `MaxEntries`: `LoadInv` says of
the source being read that what is parsed are the entries of the lines before `line`,
of the sources read that the mode accepts them and that `identities` are their entries,
and of an end in error what was wrong.  `NeverBroadens`, `Tolerated`, `RolesApart` and
`LimitExact` state the same without loops; they follow once the last source is read.

**`ArgsParseProofs`**, for any users, any menu of options and lists of any length:

* `Typing`, by which `agent_timeout` stays within its bounds.
* `HelperFixed`, because a text without variables is expanded to itself
  (`NothingToExpand`) and each option only replaces the helper by one that stands in it
  (`OneOption`).
* `NoHomeTrusted` from `HomeInv`: what is trusted is made of tokens other than `home`.  An
  expansion puts in a home only for `~` and `%h`, which the checks refuse, and a user's
  name, which may hold a variable itself, is put in after these two were looked for.
* `FileOfOneUser` from `FileInv`: while two users are both accepted, their files were made
  of one and the same option, so it is enough that the expansion of one text tells users
  apart. That is `NamesTellApart`, by the first `%u` in it: what stands before that is the
  same for both, so are the tokens after it, and a plain name holds nothing that would be
  expanded again.
* `StrictGovernsAll` from `StrictInv`, and `StrictAddsNothing` from `LenientInv`: what has
  been parsed so far is what the same options make with `strict` first, and agrees, until
  one is refused, with what they make without it (`AsLenient`).

**`TrustPathProofs`**, for any tree, links, paths, permissions and interference:

* `Typing`.
* `RootsTextOnly` from `SealedInv`: the prefix of the canonical path that has been
  validated is `Sealed`, that is, every directory on it is root's, or the sticky store
  with an entry of root's in it, so that no user's edit changes what it leads to, and a
  careful edit of root's only makes it end earlier or in another file of root's.
  `RootsText` says nothing before the end, so it needs this from the first component on.
* `NoneLedAstray` from `Tracked`: while root changes nothing, what was validated of the
  configured path is `Kept` as it was, `canonical` is the configured path with `follows`
  of its links followed in the first tree, and each such path leads only through what is
  root's.  `Agree` carries that over to the present tree: along such a way both trees give
  the same inodes, so what is opened at last is what `Stat` finds in the first one.

**`AuthenticateProofs`**: `Typing`; `AuthInv` says that challenges issued so far are below
the next one and every signature on the current challenge was made during the
current call.  From it follow `Sound`, `UserVerified`, `NoneSkipped`, `InValidity`, and
`FalseMeansRefused`, the part of the comment on `Ok(false)` that is true (section 7).
`ExchangeImplemented`: by `AuthInv` an answer under a new challenge is a new signature
(`MintSigns`), and `Verify` lets in who is among the answers (`VerifyDecides`).
`FewStepsLeft`: with each step over a list the identities ahead become fewer, or the
current one nearer to its end, so no answer of the agent makes it start again.

**`AgentConnectionProofs`**: `Typing`; `WakeInv` and `ConnInv` bound every
pending timeout and tie the non-blocking flag to the place in the code.  From it
follow `Bounded`, `NotEarly`, `Connected`.  `FewStepsLeft`: after the deadline the client
has at most four steps to take, those included to which signals and errors force it.
`OverdueEnds`: from a millisecond after it, when by `WakeInv` no call can block any more,
the request ends, and all it takes is that its own thread is scheduled.

**`LoggingProofs`**, for any set of threads: `Typing`, by which only the holder of
`LOG_LOCK` is between `check` and `level`; `FlagInv` ties the flag of a thread to its
place in the code (the previous value it restores is always false), and gives
`FlagFollowsRequest`; `LockInv` says how far the installation has got and who is at it,
and gives `Heard` and `NoConflict`: an installed logger is either recorded under the lock,
or the lock's holder is about to record it, or it is the host's.  `LockedRequestEnds`: a
request that has got the lock gives it up and reaches `do_authenticate` or its end, and one
that `do_authenticate` has let go comes to its end, whatever happens to the others.  Of
`do_authenticate` itself it promises nothing.

**`PamModuleProofs`**, for any keys, users, configurations and account databases:
`Typing`; `ShownInv` (a request that has succeeded has shown an identity the filter
trusts, and PAM_SUCCESS means it has succeeded) gives, step by step, `GateImplemented`;
`HelperInv` carries what the strict checks found from one lookup to the next and gives
`HelperNotRoot`.  It is stated of requests during which no account has changed
(`changed`): the code looks the helper's account up a second time, at `filter.rs:109`, and
does not check it again. `ArgsInv` says that from its parsing on the record is as the
options are: `strict` if one of them is, the shortcut only if one asks for it or none is
`strict`, and a helper's user if and only if an option names one (`Parsed`, by induction
over the list; `NeverNone`: no text is expanded to nothing).  With `VouchedInv` (what sshd
vouches for was vouched for in a request of sshd's) it gives `ShortcutOnlyAsMeant`, with
`UidInv` (the uid that was looked up) `HelperRunsAsNamed`.  `StrictIsAnswered` is the
liveness property of the run: `ArgsInv` says that `strict` implies a timeout, with which
`Fairness` obliges the agent's steps as well as the module's own; the fourteen places of
`pc` are the chain.

The type invariants are proved and not run: the other
properties of their runs evaluate the same states.

Only model-checked are `Terminates` of three modules and `NoneShutOut`, the liveness from
the very beginning.  They are stated with weak fairness, which rests on ENABLED, and their
chains are as long as the data: the clock that has to reach the deadline, the reads, the
identities, the threads that go before at the lock.  An induction over leads-to formulas
would be needed for them, and the induction used above is about sets of numbers.  The
theorems above are their core: what every step lowers, and the end once it is near.

## 6. What is not modelled

* The components as parts of one state space: `IdentityFilter` takes the outcome of
  reading a source as given (`TrustPath` is what stands behind it in strict mode),
  `PamModule` that of every component but options and policy lookup; `CommandRunner`
  starts from any request, also from one that `lib.rs` would not make.
* In `Args` and `PamModule` one answer of the account database and of `gethostname` serves
  all lookups of one parse.  A number of seconds is the same for every user: an
  `agent_timeout` with a variable in it (`args.rs:73` expands every value) is refused where
  the expansion fails or leaves no number, and one made of a uid is not followed further.
* In `TrustPath`: root changes no owner and no permission during a request; the kernel
  walks along a path in one step; paths with `.` and `..` or relative ones are only
  refused; `UserWrite` is not a race with the read itself, whose bytes are one text.
* Where `Straight` does not hold, a user may choose which of root's files is read; that
  it is root's is checked and proved without it.
* Texts of characters.  Two users' files may be the same where digits of a uid follow a
  name: `%u%U` for `u` with uid 11 and for `u1` with uid 1.  The tokens of `Args` would
  tell these apart, so `OneFilePerUser` is stated of paths by name (`PathByName`).  For
  the same reason a lone `%` or other characters that make a variable together with what
  is put in next to them are not modelled.
* Formatting and escaping of log messages, their prefixes, `sm_setcred` (a constant).
* `environment.rs`: single system calls whose results are inputs of other modules.
* Most of `nativecrypto.rs`: which key types it supports is part of `Authenticate`, the
  encodings of keys and signatures and the choice of the hash for RSA are not.
  Cryptography is modelled by what it promises, in both builds.
* The vendored PAM bindings but for `invoke_hook` and its panic guard: FFI glue
  without state of its own.
* Why `exec` fails: a limit of no processes set before `setuid` (`cmd.rs:82`) makes it
  fail where the new user has processes already, which is kernel accounting; the model
  lets it fail at any time, and the request then ends without authentication.
* A directory service that knows an account by several names: `PamModule` refuses the
  name as `lib.rs:172` does, and a property would only repeat that test.
* The macOS and Linux difference in the group lookup is only a way for `Prepare`
  to fail.

## 7. Findings

* **A signal to a recycled pid** (`helper_recycled_pid`).  `terminate_and_reap`
  signals `-pid` also when `try_wait` has reaped the child before.  If a descendant
  outside the group keeps a pipe open until the deadline, the pid may by then
  belong to another process group, which is killed.  The README of the program
  says that it is the helper's group.  The theorem `WholeGroup`
  shows that this is the only way it happens (`AstrayOnlyAfterTryWait`).
* **`Ok(false)` is not "no key was found"** (`authenticate_false`).  The comment
  of `authenticate` (`auth.rs:17-18`) says so, and that a failing agent gives
  `Err`; a trusted key that the agent refuses to use also ends in `Ok(false)`.  The
  theorem `FalseMeansRefused` shows that there is no third case.
* **The option `debug` has no effect** (`logging_debug`).  `PrefixWrappingLogger::enabled`
  (`logging.rs:119-121`) refuses debug records unless the request asked for them, but
  nobody calls it: the macros of the `log` crate compare the level with
  `max_level()`, which `logging.rs:36` sets to Debug for all, and call `log()`, which writes
  every record (`logging.rs:123-136`).  The flag itself is kept correctly
  (`DebugFollowsRequest`); `log()` would have to ask `enabled()`.

## 8. Running it

    tlc -workers 2 -config MCCommandRunner.cfg MCCommandRunner.tla
    tlapm CommandRunnerProofs.tla

Each run takes between a few seconds and two and a half minutes with two workers; the
largest is `helper_time` with some sixteen million states, and `helper_safety`,
`trust_path`, `authenticate` and `options` have one to a few million each.  The proofs take
some ten minutes together, `TrustPathProofs` about two and `ArgsParseProofs` about one of
them.
