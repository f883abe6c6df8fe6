------------------------------- MODULE Policy -------------------------------
(***************************************************************************)
(* The trusted-key policy of src/filter.rs: what one line of an            *)
(* authorized_keys source means in each PolicyMode, and which identities   *)
(* the resulting filter trusts.                                            *)
(***************************************************************************)
EXTENDS Integers, Sequences

CONSTANT Keys  \* the public keys that exist (KeyData)

Modes == {"Legacy", "Strict"}

(* The options in front of a key.  "other" is any option but
   cert-authority; the code tells no more of them apart.                   *)
Options == {"cert-authority", "other"}
OptionLists == {<<>>} \cup {<<o>> : o \in Options}
                 \cup {<<o, p>> : o \in Options, p \in Options}

(* A line that is neither blank nor a comment, as AuthorizedKeys parses it. *)
Lines == {l \in [parses : BOOLEAN, options : OptionLists, key : Keys] :
            ~l.parses => l.options = <<>>}

(* enum Authorized                                                         *)
Authorized == [role : {"Key", "CAKey"}, key : Keys]

HasOption(line, option) ==
    \E i \in DOMAIN line.options : line.options[i] = option

(* Does the line name a certificate authority?  Legacy mode looks for the
   option anywhere in the list, strict mode wants it to be the whole list. *)
IsCa(line, ca_keys, mode) ==
    \/ ca_keys
    \/ IF mode = "Legacy" THEN HasOption(line, "cert-authority")
                          ELSE line.options = <<"cert-authority">>

(* Mutant: strict mode does not look at the options.                       *)
AnyOptions(line, ca_keys) == TRUE

(* Strict mode accepts bare keys and a lone cert-authority option.         *)
OptionsSupported(line, ca_keys) ==
    \/ line.options = <<>>
    \/ IsCa(line, ca_keys, "Strict") /\ line.options = <<"cert-authority">>

(* What an accepted line adds to the policy.                               *)
Entry(line, ca_keys, mode) ==
    [role |-> IF IsCa(line, ca_keys, mode) THEN "CAKey" ELSE "Key",
     key |-> line.key]

(* IdentityFilter::filter(): a plain key is looked up among the keys, a
   certificate by the key that signed it.                                  *)
Filter(keys, ca_keys, identity) ==
    IF identity.kind = "PublicKey" THEN identity.key \in keys
                                   ELSE identity.ca \in ca_keys
============================================================================
