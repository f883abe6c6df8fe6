---------------------------- MODULE Authenticate ----------------------------
(***************************************************************************)
(* src/auth.rs: authenticate() asks an ssh-agent for its identities, picks  *)
(* those the filter trusts, has the agent sign a random challenge with one  *)
(* and verifies the signature.  The agent (src/agent.rs) is the             *)
(* environment: it lists what it likes and answers a request with any       *)
(* signature that was ever made, with a made-up one, or with an error.      *)
(* Several requests follow each other, so that the signatures of earlier    *)
(* ones are around.                                                         *)
(***************************************************************************)
EXTENDS Policy, FiniteSets

CONSTANTS
    TrustedKeys,   \* IdentityFilter.keys
    TrustedCas,    \* IdentityFilter.ca_keys
    SkKeys,        \* the keys that live on a security key
    NativeKeys,    \* the keys of a type that nativecrypto.rs hands to OpenSSL
    Identities,    \* the identities an agent may list
    Principal,     \* PAM_USER
    Times,         \* what SystemTime::now() may read, in seconds; may be < 0
    MaxIdentities, \* bound on the length of a list
    MaxRequests,   \* bound on the calls of authenticate()
    MaxMinted      \* bound on the signatures made

ASSUME AuthenticateAssumption ==
    /\ SkKeys \subseteq Keys
    /\ NativeKeys \subseteq Keys \ SkKeys
    /\ Times \subseteq Int /\ Times # {}
    /\ {MaxIdentities, MaxRequests, MaxMinted} \subseteq Nat
    /\ \A i \in Identities :
          /\ i.kind \in {"PublicKey", "Certificate"}
          /\ i.key \in Keys
          /\ i.kind = "Certificate" =>
                i.valid_after \in Nat /\ i.valid_before \in Nat

(* A signature: the key it claims, the data it covers, the user presence
   and verification flags, and whether algorithm and length are those of
   the key.                                                                *)
Flags == SUBSET {"UP", "UV"}

Signatures(nonces) ==
    [key : Keys, data : nonces, flags : Flags, fits : BOOLEAN]

VARIABLES
    native,   \* the feature native-crypto of the build
    strict,   \* filter.strict()
    pc,       \* where authenticate() stands
    request,  \* how many calls of authenticate() have begun
    clock,    \* the system's clock, which may be set back
    now,      \* the time read at the start of this call
    began,    \* history: what the clock showed when this call began
    list,     \* the identities the agent returned
    idx,      \* the one being looked at
    calls,    \* how many calls of sign_and_verify() have begun
    data,     \* the challenge of the latest one
    sig,      \* the signature the agent answered with
    result,   \* of this call: "none", "true", "false" or "error"
    minted,   \* history: every signature made, and during which call
    refused   \* history: the indexes answered with RemoteFailure

module == <<pc, request, now, began, list, idx, calls, data, sig, result, refused>>
vars == <<native, strict, clock, module, minted>>

NoSig == [key |-> "none", data |-> 0, flags |-> {}, fits |-> FALSE]

TypeOK ==
    /\ native \in BOOLEAN
    /\ strict \in BOOLEAN
    /\ pc \in {"idle", "list", "loop", "sign", "verify", "done"}
    /\ request \in Nat
    /\ {clock, now, began} \subseteq Times
    /\ list \in Seq(Identities)
    /\ idx \in 1 .. Len(list) + 1
    /\ pc \in {"sign", "verify"} => idx <= Len(list)
    /\ calls \in Nat
    /\ data \in 0 .. calls
    /\ sig \in Signatures(0 .. calls) \cup {NoSig}
    /\ result \in {"none", "true", "false", "error"}
    /\ \A m \in minted : m.sig \in Signatures(1 .. calls) /\ m.call \in 1 .. calls
    /\ refused \subseteq 1 .. Len(list)

Init ==
    /\ native \in BOOLEAN
    /\ strict \in BOOLEAN
    /\ pc = "idle"
    /\ request = 0
    /\ clock \in Times /\ now = clock /\ began = clock
    /\ list = <<>>
    /\ idx = 1
    /\ calls = 0
    /\ data = 0
    /\ sig = NoSig
    /\ result = "none"
    /\ minted = {}
    /\ refused = {}

----------------------------------------------------------------------------
(* validate_cert()                                                         *)

(* Mutant: the end of the validity period is inclusive.                    *)
InPeriodInclusive(cert, when) ==
    when >= 0 /\ cert.valid_after <= when /\ when <= cert.valid_before

(* A clock before the epoch validates nothing; validate_at() of the ssh-key
   crate excludes the end of the period.                                   *)
InPeriod(cert, when) ==
    when >= 0 /\ cert.valid_after <= when /\ when < cert.valid_before

(* validate_at() also checks the authority's signature on the certificate. *)
ValidateCert(cert, when) ==
    /\ InPeriod(cert, when)
    /\ cert.genuine
    /\ cert.cert_type = "user"
    /\ Principal \in cert.valid_principals
    /\ cert.critical_options = {}

Usable(identity, when) ==
    /\ Filter(TrustedKeys, TrustedCas, identity)
    /\ identity.kind = "Certificate" => ValidateCert(identity, when)

----------------------------------------------------------------------------
(* authenticate() and sign_and_verify()                                    *)

Finish(r) ==
    /\ pc' = "done"
    /\ result' = r
    /\ UNCHANGED <<native, strict, clock, request, now, began, list, idx, calls,
                   data, sig, minted, refused>>

(* Mutant: the time is read once in the life of the process.               *)
CachedTime == IF request = 0 THEN clock ELSE now

ReadTime == clock

Begin ==
    /\ pc \in {"idle", "done"}
    /\ request < MaxRequests
    /\ request' = request + 1
    /\ now' = ReadTime
    /\ began' = clock
    /\ pc' = "list"
    /\ list' = <<>>
    /\ idx' = 1
    /\ sig' = NoSig
    /\ result' = "none"
    /\ refused' = {}
    /\ UNCHANGED <<native, strict, clock, calls, data, minted>>

(* list_identities(): any identities in any order, repeated ones too.      *)
Listed ==
    /\ pc = "list"
    /\ \E n \in 0 .. MaxIdentities : list' \in [1 .. n -> Identities]
    /\ idx' = 1
    /\ refused' = {}
    /\ pc' = "loop"
    /\ UNCHANGED <<native, strict, clock, request, now, began, calls, data, sig,
                   result, minted>>

ListFails == pc = "list" /\ Finish("error")

(* Not trusted, or a certificate that does not hold: the next one.         *)
Skip ==
    /\ pc = "loop"
    /\ idx <= Len(list)
    /\ ~Usable(list[idx], now)
    /\ idx' = idx + 1
    /\ UNCHANGED <<native, strict, clock, pc, request, now, began, list, calls,
                   data, sig, result, minted, refused>>

(* Mutant: the challenge is the same in every call.                        *)
FixedChallenge == 1

(* Mutant: a challenge the agent has refused is used again.                *)
KeptChallenge == IF refused = {} THEN calls + 1 ELSE data

(* getrandom::fill(): a value no call has used before.                     *)
Challenge == calls + 1

SignRequest ==
    /\ pc = "loop"
    /\ idx <= Len(list)
    /\ Usable(list[idx], now)
    /\ calls' = calls + 1
    /\ data' = Challenge
    /\ pc' = "sign"
    /\ UNCHANGED <<native, strict, clock, request, now, began, list, idx, sig, result,
                   minted, refused>>

RandomFails ==
    /\ pc = "loop"
    /\ idx <= Len(list)
    /\ Usable(list[idx], now)
    /\ Finish("error")

(* Mutant: the agent is asked again until it lists a key that is trusted.   *)
WaitForKey ==
    /\ pc = "loop"
    /\ idx > Len(list)
    /\ IF refused # {} THEN Finish("false")
       ELSE /\ pc' = "list"
            /\ UNCHANGED <<native, strict, clock, request, now, began, list, idx,
                           calls, data, sig, result, minted, refused>>

(* The end of the list.                                                    *)
Exhausted == pc = "loop" /\ idx > Len(list) /\ Finish("false")

(* The agent answers with a signature: one that was made, or a made-up one. *)
Signed ==
    /\ pc = "sign"
    /\ sig' \in {m.sig : m \in minted} \cup Signatures({0})
    /\ pc' = "verify"
    /\ UNCHANGED <<native, strict, clock, request, now, began, list, idx, calls, data,
                   result, minted, refused>>

(* Mutant: a refusal skips the following identity as well.                 *)
SkipTwo == idx + 2

AfterRemoteFailure == idx + 1

(* RemoteFailure: the key is not loaded (any more); the next one is tried. *)
RemoteFailure ==
    /\ pc = "sign"
    /\ idx' = AfterRemoteFailure
    /\ refused' = refused \cup {idx}
    /\ pc' = "loop"
    /\ UNCHANGED <<native, strict, clock, request, now, began, list, calls, data,
                   sig, result, minted>>

(* Any other error of the agent ends the call.                             *)
SignFails == pc = "sign" /\ Finish("error")

Subject(identity) == identity.key

(* Mutant: one of the two flags is enough.                                 *)
PresenceIsEnough(key, s) ==
    key \in SkKeys => s.fits /\ s.flags # {}

(* validate_sk_signature()                                                 *)
ValidSkSignature(key, s) ==
    key \in SkKeys => s.fits /\ {"UP", "UV"} \subseteq s.flags

(* get_key_and_digest() gives up on the keys of security keys and on DSA
   keys; the Rust libraries know them all.                                 *)
Supported(key) == native => key \in NativeKeys

(* verify(), by what a signature scheme promises: it accepts what the
   private key has signed, flags included, and nothing else.               *)
Verifies(key, s) ==
    /\ Supported(key)
    /\ s.key = key /\ s.data = data
    /\ \E m \in minted : m.sig = s

Accepted ==
    LET key == Subject(list[idx]) IN
    /\ strict => ValidSkSignature(key, sig)
    /\ Verifies(key, sig)

Verify ==
    /\ pc = "verify"
    /\ Finish(IF Accepted THEN "true" ELSE "error")

Module == \/ Begin \/ Skip \/ SignRequest \/ RandomFails \/ Exhausted \/ Verify

Replies == Listed \/ ListFails \/ Signed \/ RemoteFailure \/ SignFails

----------------------------------------------------------------------------
(* Whoever can use a private key signs a challenge that has been issued.   *)
Mint(k) ==
    /\ pc # "idle"
    /\ Cardinality(minted) < MaxMinted
    /\ \E d \in 1 .. calls, f \in IF k \in SkKeys THEN Flags ELSE {{}} :
          minted' = minted \cup
             {[sig |-> [key |-> k, data |-> d, flags |-> f, fits |-> TRUE],
               call |-> calls]}
    /\ UNCHANGED <<native, strict, clock, module>>

(* Time passes whenever it likes, while the agent is awaited too.          *)
Tick == clock' \in Times \ {clock} /\ UNCHANGED <<native, strict, module, minted>>

Over == pc = "done" /\ request = MaxRequests /\ UNCHANGED vars

Next == Module \/ Replies \/ (\E k \in Keys : Mint(k)) \/ Tick \/ Over

Spec == Init /\ [][Next]_vars

(* The PAM process runs.  In strict mode the agent answers or its connection
   fails, since parse_args() insists on an agent_timeout there and
   agent_connection.rs keeps it; otherwise there need not be a timeout, and
   nothing obliges an agent to answer.                                     *)
FairSpec == Spec /\ WF_vars(Module) /\ WF_vars(strict /\ Replies)

----------------------------------------------------------------------------
(* Properties.                                                             *)

(* Ok(true) means that during this very sign_and_verify() call somebody who
   could use the private key of a trusted identity signed its challenge:
   no signature of an earlier call or for another key is ever enough.      *)
AuthenticationSound ==
    result = "true" =>
        /\ idx <= Len(list)
        /\ Usable(list[idx], now)
        /\ \E m \in minted :
              m.sig.key = Subject(list[idx]) /\ m.sig.data = data /\ m.call = calls

(* In strict mode a security key only counts with its user present and
   verified, as attested by the token itself.                              *)
StrictUserVerified ==
    result = "true" /\ strict /\ Subject(list[idx]) \in SkKeys =>
        \E m \in minted : /\ m.sig.key = Subject(list[idx])
                          /\ m.call = calls
                          /\ m.sig.flags = {"UP", "UV"}

(* No usable identity is passed over: everything before the current one was
   unusable or refused by the agent, and Ok(false) means all of them were. *)
NothingSkipped ==
    \A i \in 1 .. Len(list) :
        i < idx /\ Usable(list[i], now) => i \in refused

(* A certificate that opened the door was in its validity period when this
   very call began, with an exclusive end and a clock past the epoch: no
   reading left over from an earlier call of a long-lived host admits one
   that has expired since.  Of the moment the agent answers it says nothing:
   a certificate may expire while authenticate() waits.                    *)
CertificateInPeriod ==
    result = "true" /\ list[idx].kind = "Certificate" =>
        /\ began \in list[idx].valid_after .. list[idx].valid_before - 1
        /\ began >= 0

(* The challenge that waits for its answer, and who has signed it since.   *)
Open == pc \in {"sign", "verify"}

Answers ==
    {m.sig.key : m \in {n \in minted : Open /\ n.call = calls /\ n.sig.data = data}}

(* Who has been let in.                                                    *)
Granted == IF result = "true" THEN {Subject(list[idx])} ELSE {}

Exchange == INSTANCE ChallengeResponse
    WITH round <- calls, open <- Open, answers <- Answers, granted <- Granted

(* The protocol keeps the promise of a challenge-response authentication:
   the challenge of a sign_and_verify() call is new, nothing that was signed
   before it or after it counts, and it serves for one decision.           *)
ImplementsExchange == Exchange!Spec

(* "Ok(false) if no key was found" (the comment of authenticate()).        *)
FalseMeansNoKey ==
    result = "false" => \A i \in 1 .. Len(list) : ~Usable(list[i], now)

(* A strict call comes to an end, whatever the agent lists and however often
   it refuses; a legacy one may wait for its agent for ever.               *)
Terminates == strict /\ pc = "list" ~> pc = "done"
============================================================================
