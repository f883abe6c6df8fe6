----------------------------- MODULE ArgsParse -----------------------------
(***************************************************************************)
(* Args::parse() of src/args.rs run on one list of options for every user, *)
(* option by option, so that what different users are given can be         *)
(* compared.                                                               *)
(***************************************************************************)
EXTENDS Args

CONSTANTS
    Users,      \* names PAM_USER may have, as texts
    Menu,       \* the options an administrator may write
    MaxOptions  \* bound on the number of options

ASSUME ArgsParseAssumption ==
    /\ MaxOptions \in Nat
    /\ \A u \in Users : IsText(u)
    /\ \A o \in Menu : IsOption(o)

VARIABLES
    options,  \* the list in the PAM configuration
    env,      \* what the host knows
    next,     \* the option looked at next
    args,     \* the record built so far, for each user
    parsed    \* the checks after the loop have been made

vars == <<options, env, next, args, parsed>>

(* What the texts hold is left open.                                       *)
TypeOK ==
    /\ options \in Seq(Menu)
    /\ env \in Environments(Users)
    /\ next \in 1 .. Len(options) + 1
    /\ \A u \in Users :
          /\ DOMAIN args[u] = ArgsFields
          /\ args[u].ok \in BOOLEAN
          /\ args[u].strict = Strict(options)
          /\ args[u].agent_timeout \in 0 .. 300
    /\ parsed \in BOOLEAN

Init ==
    /\ options \in UNION {[1 .. n -> Menu] : n \in 0 .. MaxOptions}
    /\ env \in Environments(Users)
    /\ next = 1
    /\ args = [u \in Users |-> Defaults(Strict(options))]
    /\ parsed = FALSE

ParseNext ==
    /\ next <= Len(options)
    /\ next' = next + 1
    /\ args' = [u \in Users |-> ParseOption(args[u], options[next], u, env)]
    /\ UNCHANGED <<options, env, parsed>>

Return ==
    /\ next > Len(options)
    /\ ~parsed
    /\ args' = [u \in Users |-> Conclude(args[u])]
    /\ parsed' = TRUE
    /\ UNCHANGED <<options, env, next>>

Done == parsed /\ UNCHANGED vars

Next == ParseNext \/ Return \/ Done

Spec == Init /\ [][Next]_vars

----------------------------------------------------------------------------
(* Properties.                                                             *)

(* Parsing has succeeded for this user, in strict mode.                    *)
StrictOk(user) == parsed /\ args[user].ok /\ args[user].strict

(* Digits may follow a name: with uids 1 and 11 "u1" and "u" make the same
   of %u%U.                                                                *)
PathByName ==
    \A i \in DOMAIN options :
        options[i].key = "file" => ~Holds(options[i].value, {"%U"})

(* "It requires a per-user file path containing %u" (README.md): strict mode
   never reads the same file for two users, whichever file= comes last.    *)
OneFilePerUser ==
    PathByName =>
    \A u \in Users, w \in Users :
        StrictOk(u) /\ StrictOk(w) /\ Plain(u) /\ Plain(w) /\ u # w =>
            args[u].file # args[w].file

(* "rejects ... dynamic helper paths" (README.md): strict mode runs the same
   helper for everybody, the one that stands in the configuration.         *)
HelperPathFixed ==
    \A u \in Users :
        StrictOk(u) /\ args[u].authorized_keys_command # None =>
            \E i \in DOMAIN options :
                /\ options[i].key = "authorized_keys_command"
                /\ options[i].value = args[u].authorized_keys_command

(* "rejects home-expanded trust paths" (README.md): no directory a user owns
   gets into a source of trust by expansion.                               *)
TrustOutsideHome ==
    \A u \in Users :
        StrictOk(u) =>
            \A key \in {"file", "ca_keys_file", "authorized_keys_command"} :
                ~Holds(args[u][key], {"home"})

(* start, and after it the first n of a list but for those that are strict. *)
Others(start, list) ==
    LET others[n \in 0 .. Len(list)] ==
            IF n = 0 THEN start
            ELSE IF list[n].key = "strict" THEN others[n - 1]
            ELSE Append(others[n - 1], list[n])
    IN  others

(* Strict mode only refuses: what it accepts means the same without it, the
   defaults of the agent options apart.                                    *)
Lenient(u) == Parse(Others(<<>>, options)[Len(options)], u, env)

StrictOnlyRefuses ==
    \A u \in Users :
        StrictOk(u) =>
            /\ Lenient(u).ok
            /\ \A key \in TextKeys : Lenient(u)[key] = args[u][key]

(* strict may stand anywhere: it governs the options before it as well.    *)
StrictFromStart(u) ==
    Parse(Others(<<Flag("strict")>>, options)[Len(options)], u, env)

StrictAnywhere ==
    \A u \in Users :
        parsed /\ Flag("strict") \in {options[i] : i \in DOMAIN options} =>
            args[u] = StrictFromStart(u)
============================================================================
