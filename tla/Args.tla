-------------------------------- MODULE Args --------------------------------
(***************************************************************************)
(* src/args.rs and src/expansions.rs: how the module's options are turned  *)
(* into an Args record.                                                    *)
(*                                                                         *)
(* A text is a sequence of tokens: the variables, "~", "/", and any other  *)
(* run of characters as a single token.  A user name is a text as well, so *)
(* that an expanded name may hold a variable that is expanded after it.    *)
(***************************************************************************)
EXTENDS Integers, SequencesExt

(* None of an Option<String>, and a lookup that fails.                     *)
None == <<"None">>
Failed == <<"Failed">>

(* The users the account database knows and whether the host has a name.   *)
Environments(names) == [accounts : SUBSET names, hostname : BOOLEAN]

----------------------------------------------------------------------------
(* expansions.rs                                                           *)

Position(text, token) == SelectInSeq(text, LAMBDA t : t = token)

(* text without the count tokens from i on, and value in their place.      *)
Splice(text, i, count, value) ==
    IF value = Failed THEN Failed
    ELSE SubSeq(text, 1, i - 1) \o value \o SubSeq(text, i + count, Len(text))

(* expand_var() replaces the first occurrence only.                        *)
ExpandVar(text, var, value) ==
    IF Position(text, var) = 0 THEN text
    ELSE Splice(text, Position(text, var), 1, value)

Home(env, name) ==
    IF name \in env.accounts THEN <<"/", "home">> \o name ELSE Failed
Uid(env, name) ==
    IF name \in env.accounts THEN <<"uid">> \o name ELSE Failed
Hostname(env, value) == IF env.hostname THEN <<value>> ELSE Failed

(* expand_homedir() takes what follows ~ up to a slash for a user name, and
   the calling user if that is nothing.                                    *)
ExpandHomedir(text, user, env) ==
    LET i == Position(text, "~")
        rest == SubSeq(text, i + 1, Len(text))
        slash == Position(rest, "/")
        name == IF slash = 0 THEN rest ELSE SubSeq(rest, 1, slash - 1)
    IN  IF i = 0 THEN text
        ELSE Splice(text, i, 1 + Len(name),
                    Home(env, IF name = <<>> THEN user ELSE name))

(* expand_vars(): each variable in turn, in what the last one has left.    *)
ExpandVars(text, user, env) ==
    LET home == ExpandHomedir(text, user, env)
        h == ExpandVar(home, "%h", Home(env, user))
        hostname == ExpandVar(h, "%H", Hostname(env, "host"))
        name == ExpandVar(hostname, "%u", user)
        fqdn == ExpandVar(name, "%f", Hostname(env, "host.domain"))
    IN  ExpandVar(fqdn, "%U", Uid(env, user))

----------------------------------------------------------------------------
(* args.rs.  An option is a key, a value and, for agent_timeout, the number
   the value denotes once it is expanded, or 0 if that is none; a flag is a
   key alone.  "garbage" has no =.                                         *)

Flag(key) == [key |-> key, value |-> <<>>, seconds |-> 0]
Text(key, value) == [key |-> key, value |-> value, seconds |-> 0]
Seconds(n) == [key |-> "agent_timeout", value |-> <<>>, seconds |-> n]

TextKeys == {"file", "default_ssh_auth_sock", "ca_keys_file",
             "authorized_keys_command", "authorized_keys_command_user"}

Holds(text, tokens) == \E t \in tokens : Position(text, t) # 0

(* What stands for a directory, a number or nothing is written by no one.  *)
Markers == {"None", "Failed", "home", "uid"}

IsText(text) == text \in Seq(STRING) /\ ~Holds(text, Markers)

OptionType == [key : STRING, value : Seq(STRING), seconds : Nat]

(* With a value after it a flag would be another key.                      *)
IsOption(o) ==
    /\ o \in OptionType
    /\ o.key \in {"debug", "strict", "sshd_shortcut"} => o = Flag(o.key)
    /\ IsText(o.value)

(* Mutant: only the file is protected from the home directory.             *)
CheckFileOnly(o) == ~(o.key = "file" /\ Holds(o.value, {"~", "%h"}))

(* validate_trust_source_argument()                                        *)
ValidTrustSource(o) ==
    /\ o.key \in {"file", "ca_keys_file", "authorized_keys_command"} =>
          ~Holds(o.value, {"~", "%h"})
    /\ o.key = "authorized_keys_command" =>
          ~Holds(o.value, {"%u", "%U", "%H", "%f"})

(* lib.rs validate_strict_user() wants letters, digits, _ and -: no slash
   and no variable.                                                        *)
Plain(user) ==
    user # <<>> /\ ~Holds(user, {"~", "/", "%h", "%H", "%u", "%f", "%U"})

DefaultFile == <<"/", "etc", "/", "security", "/", "authorized_keys">>

(* Those of Args, with what of the locals is not returned.                 *)
ArgsFields == TextKeys \cup {"ok", "debug", "strict", "shortcut",
                             "per_user", "agent_timeout"}

(* Mutant: strict has to be the first option.                              *)
StrictFirst(options) == options # <<>> /\ options[1] = Flag("strict")

Strict(options) == Contains(options, Flag("strict"))

(* Mutant: strict mode has no timeout of its own.                          *)
NoDefaultTimeout(strict) == 0

(* In seconds; 0 stands for None.                                          *)
DefaultTimeout(strict) == IF strict THEN 30 ELSE 0

DefaultShortcut(strict) == ~strict

(* The locals of Args::parse().                                            *)
Defaults(strict) ==
    [ok |-> TRUE, debug |-> FALSE, strict |-> strict,
     shortcut |-> DefaultShortcut(strict),
     agent_timeout |-> DefaultTimeout(strict),
     per_user |-> FALSE,
     file |-> DefaultFile, default_ssh_auth_sock |-> None,
     ca_keys_file |-> None, authorized_keys_command |-> None,
     authorized_keys_command_user |-> None]

(* Mutant: once a file was per user, the file is.                          *)
PerUserOnce(args, o) == args.per_user \/ Holds(o.value, {"%u"})

(* Decided on every file= anew, before it is expanded.                     *)
PerUser(args, o) == Holds(o.value, {"%u"})

TimeoutInRange(seconds) == seconds \in 1 .. 300

(* One turn of the loop; once an option was refused nothing matters.       *)
ParseOption(args, o, user, env) ==
    LET value == ExpandVars(o.value, user, env)
        refused == [args EXCEPT !.ok = FALSE]
    IN  IF ~args.ok THEN args ELSE
        CASE o.key = "debug" -> [args EXCEPT !.debug = TRUE]
          [] o.key = "strict" -> args
          [] o.key = "sshd_shortcut" -> [args EXCEPT !.shortcut = TRUE]
          [] o.key = "agent_timeout" ->
                IF value # Failed /\ TimeoutInRange(o.seconds)
                  THEN [args EXCEPT !.agent_timeout = o.seconds] ELSE refused
          [] o.key \in TextKeys ->
                IF value = Failed \/ (args.strict /\ ~ValidTrustSource(o))
                  THEN refused
                  ELSE [args EXCEPT ![o.key] = value,
                                    !.per_user = IF o.key = "file"
                                                   THEN PerUser(args, o) ELSE @]
          [] OTHER -> refused

IsAbsolute(path) == path # <<>> /\ path[1] = "/"

(* Mutant: strict mode falls back to a per-user file of its own.           *)
PerUserFallback(args) ==
    IF args.strict /\ ~args.per_user
      THEN [args EXCEPT !.file = <<"/", "%u">>] ELSE args

(* The checks after the loop.                                              *)
Conclude(args) ==
    [args EXCEPT !.ok =
        /\ @
        /\ args.strict => args.per_user
        /\ args.strict /\ args.authorized_keys_command # None =>
              IsAbsolute(args.authorized_keys_command)]

(* The locals after any number of the options.                             *)
Progress(options, user, env) ==
    LET progress[n \in 0 .. Len(options)] ==
            IF n = 0 THEN Defaults(Strict(options))
            ELSE ParseOption(progress[n - 1], options[n], user, env)
    IN  progress

(* Args::parse()                                                           *)
Parse(options, user, env) ==
    Conclude(Progress(options, user, env)[Len(options)])
=============================================================================
