--------------------------- MODULE IdentityFilter ---------------------------
(***************************************************************************)
(* src/filter.rs: IdentityFilter::new_with_mode() builds the policy from    *)
(* the authorized_keys file, the CA keys file and the helper command, in    *)
(* that order, and parses each one line by line.                            *)
(***************************************************************************)
EXTENDS Policy, FiniteSets

CONSTANTS
    MaxEntries,  \* MAX_POLICY_ENTRIES, for each source on its own
    MaxLines     \* bound on the lines of all sources together

ASSUME IdentityFilterAssumption == MaxEntries \in Nat /\ MaxLines \in Nat

(* What reading a source comes to.  "absent": the option is not given;
   "missing": NotFound; "unreadable": any other error of the read or of the
   helper; "untrusted": readable, but not to strict mode (its path, owner,
   mode or size); "good": read in both modes.                              *)
SourceStates == {"absent", "missing", "unreadable", "untrusted", "good"}
Stages == <<"file", "ca_keys_file", "command">>
Names == {"file", "ca_keys_file", "command"}

Texts == UNION {[1 .. n -> Lines] : n \in 0 .. MaxLines}

VARIABLES
    mode,        \* PolicyMode
    source,      \* what each source holds
    stage,       \* index in Stages of the source being parsed
    line,        \* index of the line parsed next
    parsed,      \* the Authorized values collected from this source
    identities,  \* those of the sources before it
    result,      \* "none", "ok" or "error"
    keys, ca_keys

vars == <<mode, source, stage, line, parsed, identities, result, keys, ca_keys>>

TypeOK ==
    /\ mode \in Modes
    /\ source \in [Names -> [state : SourceStates, text : Seq(Lines)]]
    /\ stage \in 1 .. Len(Stages) + 1
    /\ line \in Nat \ {0}
    /\ parsed \in Seq(Authorized)
    /\ mode = "Strict" => Len(parsed) <= MaxEntries
    /\ identities \subseteq Authorized
    /\ result \in {"none", "ok", "error"}
    /\ keys \subseteq Keys
    /\ ca_keys \subseteq Keys

(* Text is only there to be read; file= has a default and is never absent. *)
Sources == {[state |-> "good", text |-> t] : t \in Texts}
             \cup {[state |-> "untrusted", text |-> t] : t \in Texts}
             \cup [state : {"absent", "missing", "unreadable"}, text : {<<>>}]

Init ==
    /\ mode \in Modes
    /\ \E f \in {s \in Sources : s.state # "absent"}, c \in Sources :
          /\ Len(f.text) + Len(c.text) <= MaxLines
          /\ \E h \in {s \in Sources : s.state # "missing"} :
                /\ Len(f.text) + Len(c.text) + Len(h.text) <= MaxLines
                /\ source = [file |-> f, ca_keys_file |-> c, command |-> h]
    /\ stage = 1
    /\ line = 1
    /\ parsed = <<>>
    /\ identities = {}
    /\ result = "none"
    /\ keys = {}
    /\ ca_keys = {}

Loading == result = "none" /\ stage <= Len(Stages)
Current == source[Stages[stage]]
CaKeys == Stages[stage] = "ca_keys_file"

Readable ==
    Current.state = "good" \/ (Current.state = "untrusted" /\ mode = "Legacy")

(* Mutant: a missing file is an error in both modes.                       *)
NoneTolerated == FALSE

(* Mutant: the CA keys file may be missing as well.                        *)
AnyMissingTolerated == Current.state = "missing" /\ mode = "Legacy"

(* Only the authorized_keys file may be missing, and only in legacy mode.  *)
MissingTolerated ==
    Stages[stage] = "file" /\ Current.state = "missing" /\ mode = "Legacy"

NextSource(items) ==
    /\ stage' = stage + 1
    /\ line' = 1
    /\ parsed' = <<>>
    /\ identities' = identities \cup items
    /\ UNCHANGED <<mode, source, result, keys, ca_keys>>

Fail ==
    /\ result' = "error"
    /\ UNCHANGED <<mode, source, stage, line, parsed, identities, keys, ca_keys>>

SkipSource ==
    /\ Loading
    /\ Current.state = "absent" \/ MissingTolerated
    /\ NextSource({})

ReadFails ==
    /\ Loading
    /\ ~Readable
    /\ Current.state # "absent" /\ ~MissingTolerated
    /\ Fail

Keep(entry) ==
    /\ parsed' = Append(parsed, entry)
    /\ line' = line + 1
    /\ UNCHANGED <<mode, source, stage, identities, result, keys, ca_keys>>

Unread == Loading /\ Readable /\ line <= Len(Current.text)

(* parse_policy() in legacy mode: a line that does not parse is skipped.   *)
LegacyLine ==
    LET l == Current.text[line] IN
    /\ mode = "Legacy"
    /\ Unread
    /\ IF l.parses
         THEN Keep(Entry(l, CaKeys, "Legacy"))
         ELSE /\ line' = line + 1
              /\ UNCHANGED <<mode, source, stage, parsed, identities, result,
                             keys, ca_keys>>

(* Mutant: one entry too many.                                             *)
RoomForOneMore == Len(parsed) <= MaxEntries

Room == Len(parsed) < MaxEntries

(* from_str_strict(): the first line that is not understood, or does not
   fit, fails the whole policy.                                            *)
StrictLine ==
    LET l == Current.text[line] IN
    /\ mode = "Strict"
    /\ Unread
    /\ IF l.parses /\ OptionsSupported(l, CaKeys) /\ Room
         THEN Keep(Entry(l, CaKeys, "Strict"))
         ELSE Fail

EndOfSource ==
    /\ Loading
    /\ Readable
    /\ line > Len(Current.text)
    /\ NextSource({parsed[i] : i \in DOMAIN parsed})

(* Mutant: every trusted key also serves as a certificate authority.       *)
OneSet(role) == {a.key : a \in identities}

OfRole(role) == {a.key : a \in {b \in identities : b.role = role}}

(* IdentityFilter::from()                                                  *)
From ==
    /\ result = "none"
    /\ stage = Len(Stages) + 1
    /\ result' = "ok"
    /\ keys' = OfRole("Key")
    /\ ca_keys' = OfRole("CAKey")
    /\ UNCHANGED <<mode, source, stage, line, parsed, identities>>

Finished == result # "none" /\ UNCHANGED vars

Next == SkipSource \/ ReadFails \/ LegacyLine \/ StrictLine \/ EndOfSource
          \/ From \/ Finished

Spec == Init /\ [][Next]_vars

----------------------------------------------------------------------------
(* Properties.                                                             *)

(* The lines of every source that is given.                                *)
Given == UNION {{[line |-> source[n].text[i], ca |-> n = "ca_keys_file"] :
                   i \in DOMAIN source[n].text} : n \in Names}

(* What legacy mode makes of the same sources, stated without a loop.      *)
LegacyPolicy(role) ==
    {g.line.key : g \in {h \in Given : /\ h.line.parses
                                       /\ Entry(h.line, h.ca, "Legacy").role = role}}

(* "policy options are rejected so their meaning cannot be silently
   broadened" (README.md): a policy strict mode accepts is exactly the one
   legacy mode reads from the same sources, and hides no unparsed line.    *)
StrictNeverBroadens ==
    mode = "Strict" /\ result = "ok" =>
        /\ keys = LegacyPolicy("Key")
        /\ ca_keys = LegacyPolicy("CAKey")
        /\ \A g \in Given : g.line.parses

(* Which failures end the policy depends on the mode.  Strict mode accepts
   only sources it may read in full, and no option it does not understand
   anywhere in them; legacy mode fails if and only if a source cannot be read,
   save an authorized_keys file that is not there, and a malformed line never
   takes the other keys down with it.                                      *)
FailuresTolerated ==
    /\ mode = "Strict" /\ result = "ok" =>
          /\ source["file"].state = "good"
          /\ \A n \in Names : source[n].state \in {"good", "absent"}
          /\ \A g \in Given : ~HasOption(g.line, "other")
    /\ mode = "Legacy" /\ result # "none" =>
          (result = "error" <=>
              \/ source["file"].state = "unreadable"
              \/ source["ca_keys_file"].state \in {"missing", "unreadable"}
              \/ source["command"].state = "unreadable")

(* A key is trusted in a role only because some line gives it that role:
   no bare key outside the CA file turns into an authority, no authority
   into a key that may log in.                                             *)
RolesKeptApart ==
    /\ \A k \in keys : \E g \in Given :
          g.line.key = k /\ ~g.ca /\ ~HasOption(g.line, "cert-authority")
    /\ \A k \in ca_keys : \E g \in Given :
          g.line.key = k /\ (g.ca \/ HasOption(g.line, "cert-authority"))

(* MAX_POLICY_ENTRIES is exact: a strict source of well-formed bare keys is
   accepted if and only if it has no more lines than that.                 *)
EntryLimitExact ==
    LET plain == \A g \in Given : g.line.parses /\ g.line.options = <<>>
        readable == /\ source["file"].state = "good"
                    /\ \A n \in Names : source[n].state \in {"good", "absent"}
        small == \A n \in Names : Len(source[n].text) <= MaxEntries
    IN  mode = "Strict" /\ result # "none" /\ plain /\ readable =>
            (result = "ok") <=> small
============================================================================
