----------------------------- MODULE PamModule -----------------------------
(***************************************************************************)
(* src/lib.rs: a request from pam_sm_authenticate() to its return code.    *)
(* It composes option parsing (Args) and the trust decision (Policy) with  *)
(* what the other components promise: the policy is some set of keys or an *)
(* error, the helper returns, authenticate() succeeds only with an         *)
(* identity the filter trusts.  The account database is the host's, and    *)
(* may be asked twice and answer differently.                              *)
(***************************************************************************)
EXTENDS Policy, Args

CONSTANTS
    Users,          \* names PAM_USER or an option may hold, as texts
    Configurations  \* the lists of options in the PAM configuration

ASSUME PamModuleAssumption ==
    /\ \A u \in Users : IsText(u)
    /\ \A list \in Configurations :
          list \in Seq(OptionType) /\ \A i \in DOMAIN list : IsOption(list[i])

(* What get_user_by_name() finds: nothing, or a uid and a name that may be
   another spelling of the one that was asked for.                         *)
Accounts == [uid : {"root", "one", "two"}, exact : BOOLEAN]
              \cup {[uid |-> "absent", exact |-> FALSE]}

Identities == [kind : {"PublicKey"}, key : Keys] \cup [kind : {"Certificate"}, ca : Keys]

VARIABLES
    user, service,  \* PAM_USER and whether PAM_SERVICE is sshd
    options,        \* the arguments of the module
    accounts,       \* the account database
    changed,        \* history: it has changed since the request began
    pc,             \* where the request stands
    args,           \* the parsed options
    calling_uid,    \* what validate_strict_user() found for the user
    helper_uid,     \* the uid get_uid() found for the helper
    ran,            \* the uid the helper was run with, or "none"
    keys, ca_keys,  \* the IdentityFilter
    proof,          \* history: who showed which identity
    result,         \* of run(): "none", "ok" or "error"
    code            \* what the host is returned

state == <<args, calling_uid, helper_uid, ran, keys, ca_keys, proof, result, code>>
vars == <<user, service, options, accounts, changed, pc, state>>

NoProof == [by |-> "nobody"]
Proofs == {NoProof} \cup [by : {"agent", "sshd"}, identity : Identities]

Pcs == {"hook", "context", "logging", "parse", "strict_user", "strict_helper",
        "files", "lookup", "helper", "shortcut", "path", "connect", "agent",
        "return", "done"}
UidValues == {"none", "root", "one", "two"}

TypeOK ==
    /\ user \in Users /\ service \in {"sshd", "other"}
    /\ options \in Configurations
    /\ accounts \in [Users -> Accounts] /\ changed \in BOOLEAN
    /\ pc \in Pcs
    /\ {calling_uid, helper_uid, ran} \subseteq UidValues
    /\ keys \subseteq Keys /\ ca_keys \subseteq Keys
    /\ proof \in Proofs
    /\ result \in {"none", "ok", "error"}
    /\ code \in {"none", "PAM_SUCCESS", "PAM_AUTH_ERR", "PAM_ABORT"}
    /\ pc \notin {"return", "done"} => result = "none"
    /\ pc = "done" <=> code # "none"

Init ==
    /\ user \in Users
    /\ service \in {"sshd", "other"}
    /\ options \in Configurations
    /\ accounts \in [Users -> Accounts]
    /\ changed = FALSE
    /\ pc = "hook"
    /\ args = Defaults(FALSE)
    /\ calling_uid = "none" /\ helper_uid = "none" /\ ran = "none"
    /\ keys = {} /\ ca_keys = {}
    /\ proof = NoProof
    /\ result = "none"
    /\ code = "none"

request == <<user, service, options, accounts, changed>>

Goto(label) ==
    /\ pc' = label
    /\ UNCHANGED <<request, state>>

(* run() returns; sm_authenticate() turns that into a code.                *)
Leaves(r) ==
    /\ pc' = "return"
    /\ result' = r
    /\ UNCHANGED <<request, args, calling_uid, helper_uid, ran, keys, ca_keys, code>>

Fails == Leaves("error") /\ UNCHANGED proof

Answer(c) ==
    /\ pc' = "done"
    /\ code' = c
    /\ UNCHANGED <<request, args, calling_uid, helper_uid, ran, keys, ca_keys,
                   proof, result>>

----------------------------------------------------------------------------
(* run()                                                                   *)

(* invoke_hook(): a null handle or a bad argv never gets to the module.    *)
InvokeHook == pc = "hook" /\ (Goto("context") \/ Answer("PAM_ABORT"))

(* PamContext::new() and init_logging()                                    *)
Context == pc = "context" /\ (Goto("logging") \/ Fails)
InitLogging == pc = "logging" /\ (Goto("parse") \/ Fails)

Known(name) == name \in Users /\ accounts[name].uid # "absent"

AfterParse(a) == IF a.strict THEN "strict_user" ELSE "files"

(* Args::parse().  gethostname() may fail, whatever the account database
   knows.                                                                  *)
ParseArgs ==
    /\ pc = "parse"
    /\ \E hostname \in BOOLEAN :
          LET env == [accounts |-> {u \in Users : Known(u)}, hostname |-> hostname]
              parsed == Parse(options, user, env)
          IN  IF parsed.ok
                THEN /\ pc' = AfterParse(parsed)
                     /\ args' = parsed
                     /\ UNCHANGED <<request, calling_uid, helper_uid, ran, keys,
                                    ca_keys, proof, result, code>>
                ELSE Fails

(* validate_strict_user()                                                  *)
ValidStrictUser(name) == Plain(name) /\ Known(name) /\ accounts[name].exact

HasHelper == args.authorized_keys_command # None

StrictUser ==
    /\ pc = "strict_user"
    /\ IF ValidStrictUser(user)
         THEN /\ pc' = IF HasHelper THEN "strict_helper" ELSE "files"
              /\ calling_uid' = accounts[user].uid
              /\ UNCHANGED <<request, args, helper_uid, ran, keys, ca_keys,
                             proof, result, code>>
         ELSE Fails

(* Mutant: the helper is always run as the calling user.                   *)
CallingUser == user

(* The helper's user if one is given, and the calling user otherwise.      *)
HelperUser == IF args.authorized_keys_command_user = None
                THEN user ELSE args.authorized_keys_command_user

(* Mutant: only the calling user is checked.                               *)
CallerIsNotRoot == calling_uid # "root"

HelperIsNotRoot ==
    IF args.authorized_keys_command_user = None
      THEN calling_uid # "root"
      ELSE /\ ValidStrictUser(args.authorized_keys_command_user)
           /\ accounts[args.authorized_keys_command_user].uid # "root"

StrictHelper ==
    /\ pc = "strict_helper"
    /\ IF HelperIsNotRoot THEN Goto("files") ELSE Fails

----------------------------------------------------------------------------
(* do_authenticate(): IdentityFilter::new() or new_strict(), ...           *)

(* The trusted file and the CA file give some keys, or fail.               *)
ReadFiles ==
    /\ pc = "files"
    /\ \/ /\ pc' = IF HasHelper THEN "lookup" ELSE "shortcut"
          /\ keys' \in SUBSET Keys
          /\ ca_keys' \in SUBSET Keys
          /\ UNCHANGED <<request, args, calling_uid, helper_uid, ran, proof,
                         result, code>>
       \/ Fails

(* get_uid() asks the account database once more.                          *)
LookupHelper ==
    /\ pc = "lookup"
    /\ IF Known(HelperUser)
         THEN /\ pc' = "helper"
              /\ helper_uid' = accounts[HelperUser].uid
              /\ UNCHANGED <<request, args, calling_uid, ran, keys, ca_keys,
                             proof, result, code>>
         ELSE Fails

(* The helper is run, and adds to the policy or fails; or its path is not
   trusted and it never runs.                                              *)
RunHelper ==
    /\ pc = "helper"
    /\ \/ Fails
       \/ /\ ran' = helper_uid
          /\ UNCHANGED <<request, args, calling_uid, helper_uid, proof, code>>
          /\ \/ /\ pc' = "shortcut"
                /\ \E more \in SUBSET Keys : keys' = keys \cup more
                /\ \E more \in SUBSET Keys : ca_keys' = ca_keys \cup more
                /\ UNCHANGED result
             \/ /\ pc' = "return"
                /\ result' = "error"
                /\ UNCHANGED <<keys, ca_keys>>

(* Mutant: the special case is not an option.                              *)
SshdService == service = "sshd"

ShortcutApplies == args.shortcut /\ service = "sshd"

(* ... check_sshd_special_case(): SSH_AUTH_INFO_0 is unset, holds no key
   that parses, or a public key that is trusted or not, ...                *)
Shortcut ==
    /\ pc = "shortcut"
    /\ \/ Goto("path")
       \/ ShortcutApplies /\ Fails
       \/ /\ ShortcutApplies
          /\ \E k \in Keys :
                LET identity == [kind |-> "PublicKey", key |-> k] IN
                /\ Filter(keys, ca_keys, identity)
                /\ proof' = [by |-> "sshd", identity |-> identity]
          /\ Leaves("ok")

(* ... get_path(): SSH_AUTH_SOCK, the default, or an error, ...            *)
GetPath == pc = "path" /\ (Goto("connect") \/ Fails)

(* ... connect() and authenticate().                                       *)
Connect == pc = "connect" /\ (Goto("agent") \/ Fails)

(* Mutant: Ok(false) counts as a success.                                  *)
FalseCounts ==
    /\ pc = "agent"
    /\ Leaves("ok")
    /\ UNCHANGED proof

Authenticate ==
    /\ pc = "agent"
    /\ \/ Fails
       \/ /\ \E identity \in Identities :
                /\ Filter(keys, ca_keys, identity)
                /\ proof' = [by |-> "agent", identity |-> identity]
          /\ Leaves("ok")

SmAuthenticate ==
    /\ pc = "return"
    /\ Answer(IF result = "ok" THEN "PAM_SUCCESS" ELSE "PAM_AUTH_ERR")

(* Mutant: a panic unwinds into the host, which gets no answer.            *)
Unwinds ==
    /\ pc \notin {"hook", "done"}
    /\ pc' = "done"
    /\ UNCHANGED <<request, state>>

(* panic_guard(): whatever panics, the host gets an answer.                *)
Panic ==
    /\ pc \notin {"hook", "done"}
    /\ Answer("PAM_ABORT")

(* An administrator or a directory service changes an account.             *)
ChangeAccount ==
    /\ pc # "done"
    /\ changed' = TRUE
    /\ \E u \in Users, a \in Accounts : accounts' = [accounts EXCEPT ![u] = a]
    /\ UNCHANGED <<user, service, options, pc, state>>

Local ==
    \/ InvokeHook \/ Context \/ InitLogging \/ ParseArgs \/ StrictUser
    \/ StrictHelper \/ ReadFiles \/ LookupHelper \/ RunHelper \/ Shortcut
    \/ GetPath \/ SmAuthenticate

AgentSteps == Connect \/ Authenticate

Over == pc = "done" /\ UNCHANGED vars

Next == Local \/ AgentSteps \/ Panic \/ ChangeAccount \/ Over

Spec == Init /\ [][Next]_vars

(* The request's thread runs, and the helper returns (CommandRunner).  What
   involves the agent only ends for certain if it has a timeout
   (AgentConnection).  This is weak fairness with ENABLED spelled out, as an
   action of Local can be taken wherever pc is one of LocalPcs.            *)
LocalPcs == Pcs \ {"connect", "agent", "done"}
Bounded == pc \in {"connect", "agent"} /\ args.agent_timeout > 0

Fairness ==
    /\ []<>(pc \notin LocalPcs) \/ []<><<Local>>_vars
    /\ []<>(~Bounded) \/ []<><<AgentSteps>>_vars

FairSpec == Spec /\ Fairness

----------------------------------------------------------------------------
(* Properties.                                                             *)

HasFlag(flag) == Flag(flag) \in {options[i] : i \in DOMAIN options}

(* What sshd has verified only counts where the shortcut is meant to apply,
   and in strict mode only if it was asked for, not by default.            *)
ShortcutMeant ==
    code = "PAM_SUCCESS" /\ proof.by = "sshd" =>
        service = "sshd" /\ (HasFlag("strict") => HasFlag("sshd_shortcut"))

(* "Strict mode requires a non-root helper account" (README.md): what it
   takes for the process limit of CommandRunner to bind.  The uid that is
   checked comes from one lookup and the one that is used from another, so
   this only holds of an account database that has not changed in between. *)
StrictHelperNotRoot == args.strict /\ ~changed => ran # "root"

(* "By default, the external command is invoked with the privileges of the
   calling user", else of authorized_keys_command_user (README.md).        *)
HelperRunsAs ==
    ran # "none" /\ ~changed =>
        IF \E i \in DOMAIN options : options[i].key = "authorized_keys_command_user"
          THEN ran = accounts[args.authorized_keys_command_user].uid
          ELSE ran = accounts[user].uid

(* Whatever the agent does, a strict request is answered.                  *)
StrictAnswered == HasFlag("strict") ~> code # "none"

(* The module does what a gate promises: PAM_SUCCESS means that an identity
   was shown which the policy of this very request trusts.                 *)
Verdict == CASE code = "none" -> "open"
             [] code = "PAM_SUCCESS" -> "granted"
             [] OTHER -> "denied"

Shown == proof # NoProof /\ Filter(keys, ca_keys, proof.identity)

Gate == INSTANCE AuthGate WITH verdict <- Verdict, shown <- Shown

ImplementsGate == Gate!Spec
============================================================================
