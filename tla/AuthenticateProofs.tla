------------------------- MODULE AuthenticateProofs -------------------------
(***************************************************************************)
(* What a successful authenticate() means, for every filter, agent and     *)
(* number of requests.  AuthInv ties the challenge to the call it was       *)
(* drawn for, and every signature to the call it was made in: a signature   *)
(* over the current challenge cannot be older than the challenge.  So the   *)
(* protocol implements ChallengeResponse.                                  *)
(***************************************************************************)
EXTENDS Authenticate, TLAPS

USE AuthenticateAssumption DEF AuthenticateAssumption

(* What sign_and_verify() relies on while it runs, what success leaves, and
   how old a signature and the time in use are.                            *)
AuthInv ==
    /\ pc \in {"sign", "verify"} =>
          /\ data = calls
          /\ Usable(list[idx], now)
    /\ now = began
    /\ pc # "done" => result = "none"
    /\ \A m \in minted : m.sig.data <= m.call
    /\ AuthenticationSound
    /\ StrictUserVerified
    /\ NothingSkipped
    /\ result = "false" => idx > Len(list)

----------------------------------------------------------------------------
(* The types of Authenticate's variables, whatever the agent answers.      *)
THEOREM Typing == Spec => []TypeOK
<1>1. Init => TypeOK
  BY DEF Init, TypeOK, Signatures
<1>2. TypeOK /\ [Next]_vars => TypeOK'
  <2> SUFFICES ASSUME TypeOK, [Next]_vars PROVE TypeOK'
    OBVIOUS
  <2> USE DEF TypeOK, Finish
  <2>1. CASE Begin
    <3>1. list' \in Seq(Identities) /\ idx' \in 1 .. Len(list') + 1
      BY <2>1 DEF Begin
    <3>2. refused' \subseteq 1 .. Len(list')
      BY <2>1 DEF Begin
    <3>3. now' \in Times /\ began' \in Times
      BY <2>1 DEF Begin, ReadTime
    <3> QED
      BY <2>1, <3>1, <3>2, <3>3 DEF Begin
  <2>2. CASE Listed
    <3>1. PICK n \in 0 .. MaxIdentities : list' \in [1 .. n -> Identities]
      BY <2>2 DEF Listed
    <3>2. list' \in Seq(Identities)
      BY <3>1
    <3>3. idx' \in 1 .. Len(list') + 1 /\ refused' = {}
      BY <2>2, <3>2 DEF Listed
    <3> QED
      BY <2>2, <3>2, <3>3 DEF Listed
  <2>3. CASE ListFails
    BY <2>3 DEF ListFails
  <2>4. CASE Skip
    BY <2>4 DEF Skip
  <2>5. CASE SignRequest
    <3>1. calls' \in Nat /\ data' \in 0 .. calls'
      BY <2>5 DEF SignRequest, Challenge
    <3>2. sig' \in Signatures(0 .. calls') \cup {NoSig}
      BY <2>5 DEF SignRequest, Signatures
    <3>3. \A m \in minted' : /\ m.sig \in Signatures(1 .. calls')
                             /\ m.call \in 1 .. calls'
      BY <2>5 DEF SignRequest, Signatures
    <3> QED
      BY <2>5, <3>1, <3>2, <3>3 DEF SignRequest
  <2>6. CASE RandomFails \/ Exhausted
    BY <2>6 DEF RandomFails, Exhausted
  <2>7. CASE Signed
    <3>1. sig' \in Signatures(0 .. calls)
      BY <2>7 DEF Signed, Signatures
    <3> QED
      BY <2>7, <3>1 DEF Signed
  <2>8. CASE RemoteFailure
    BY <2>8 DEF RemoteFailure, AfterRemoteFailure
  <2>9. CASE SignFails \/ Verify
    BY <2>9 DEF SignFails, Verify
  <2>10. ASSUME NEW k \in Keys, Mint(k) PROVE TypeOK'
    <3>1. PICK d \in 1 .. calls, f \in Flags :
             minted' = minted \cup
               {[sig |-> [key |-> k, data |-> d, flags |-> f, fits |-> TRUE],
                 call |-> calls]}
      BY <2>10 DEF Mint, Flags
    <3>2. [key |-> k, data |-> d, flags |-> f, fits |-> TRUE]
             \in Signatures(1 .. calls)
      BY DEF Signatures
    <3>3. calls \in 1 .. calls
      OBVIOUS
    <3>4. \A m \in minted' : m.sig \in Signatures(1 .. calls) /\ m.call \in 1 .. calls
      <4> SUFFICES ASSUME NEW m \in minted'
                   PROVE  m.sig \in Signatures(1 .. calls) /\ m.call \in 1 .. calls
        OBVIOUS
      <4>1. CASE m \in minted
        BY <4>1
      <4>2. CASE m = [sig |-> [key |-> k, data |-> d, flags |-> f, fits |-> TRUE],
                      call |-> calls]
        <5>1. /\ m.sig = [key |-> k, data |-> d, flags |-> f, fits |-> TRUE]
              /\ m.call = calls
          BY <4>2
        <5> QED
          BY <5>1, <3>2, <3>3
      <4> QED
        BY <3>1, <4>1, <4>2
    <3> QED
      BY <2>10, <3>4 DEF Mint, module
  <2>11. CASE Over \/ UNCHANGED vars
    BY <2>11 DEF Over, vars, module
  <2>12. CASE Tick
    BY <2>12 DEF Tick, module
  <2> QED
    BY <2>1, <2>2, <2>3, <2>4, <2>5, <2>6, <2>7, <2>8, <2>9, <2>10, <2>11, <2>12
       DEF Next, Module, Replies
<1> QED
  BY <1>1, <1>2, PTL DEF Spec

(* Each step of the module and of the agent keeps the challenge, the
   signatures and the identities examined so far in line.                  *)
LEMMA AuthStep ==
    ASSUME TypeOK, AuthInv, [Next]_vars
    PROVE  AuthInv'
<1> USE DEF AuthInv, AuthenticationSound, StrictUserVerified, NothingSkipped,
            Finish
<1>1. CASE Begin
  <2>1. Len(list') = 0 /\ list' = <<>>
    BY <1>1 DEF Begin
  <2> QED
    BY <1>1, <2>1 DEF Begin, ReadTime
<1>2. CASE Listed
  <2>1. idx' = 1 /\ pc' = "loop" /\ result' = "none"
    BY <1>2 DEF Listed
  <2> QED
    BY <1>2, <2>1 DEF Listed
<1>3. CASE ListFails
  BY <1>3 DEF ListFails
<1>4. CASE Skip
  BY <1>4 DEF Skip, TypeOK
<1>5. CASE SignRequest
  BY <1>5 DEF SignRequest, Challenge
<1>6. CASE RandomFails \/ Exhausted
  BY <1>6 DEF RandomFails, Exhausted
<1>7. CASE Signed
  BY <1>7 DEF Signed
<1>8. CASE RemoteFailure
  BY <1>8 DEF RemoteFailure, AfterRemoteFailure, TypeOK
<1>9. CASE SignFails
  BY <1>9 DEF SignFails
<1>10. CASE Verify
  <2> DEFINE key == Subject(list[idx])
  <2>1. CASE ~Accepted
    BY <1>10, <2>1 DEF Verify
  <2>2. CASE Accepted
    <3>1. PICK m \in minted : m.sig = sig
      BY <2>2 DEF Accepted, Verifies
    <3>2. m.sig.key = key /\ m.sig.data = data
      BY <2>2, <3>1 DEF Accepted, Verifies
    <3>3. m.call = calls
      <4>1. data <= m.call /\ data = calls /\ m.call \in 1 .. calls
        BY <1>10, <3>2 DEF Verify, TypeOK
      <4> QED
        BY <4>1 DEF TypeOK
    <3>4. strict /\ key \in SkKeys => m.sig.flags = {"UP", "UV"}
      <4>1. m.sig.flags \in Flags
        BY DEF TypeOK, Signatures
      <4> QED
        BY <2>2, <3>1, <4>1 DEF Accepted, ValidSkSignature, Flags
    <3>5. idx <= Len(list) /\ Usable(list[idx], now)
      BY <1>10 DEF Verify, TypeOK
    <3> HIDE DEF key
    <3>6. /\ UNCHANGED <<native, strict, now, began, list, idx, calls, data, minted,
                         refused>>
          /\ pc' = "done" /\ result' = "true"
      BY <1>10, <2>2 DEF Verify
    <3>7. Usable(list[idx], now)' /\ Subject(list[idx])' = key
      BY <3>5, <3>6 DEF Usable, Subject, ValidateCert, InPeriod, Filter, key
    <3>8. AuthenticationSound' /\ StrictUserVerified'
      BY <3>2, <3>3, <3>4, <3>5, <3>6, <3>7
    <3> QED
      BY <3>6, <3>8 DEF Usable, ValidateCert, InPeriod, Filter
  <2> QED
    BY <2>1, <2>2
<1>11. ASSUME NEW k \in Keys, Mint(k) PROVE AuthInv'
  <2>1. PICK d \in 1 .. calls, f \in Flags :
           minted' = minted \cup
             {[sig |-> [key |-> k, data |-> d, flags |-> f, fits |-> TRUE],
               call |-> calls]}
    BY <1>11 DEF Mint, Flags
  <2>2. \A m \in minted' : m.sig.data <= m.call
    BY <2>1 DEF TypeOK
  <2> QED
    BY <1>11, <2>1, <2>2 DEF Mint, module
<1>12. CASE Over \/ Tick \/ UNCHANGED vars
  BY <1>12 DEF Over, Tick, vars, module
<1> QED
  BY <1>1, <1>2, <1>3, <1>4, <1>5, <1>6, <1>7, <1>8, <1>9, <1>10, <1>11, <1>12
     DEF Next, Module, Replies

(* The strengthening holds in every execution.                             *)
LEMMA Auth == Spec => []AuthInv
<1>1. Init => AuthInv
  BY DEF Init, AuthInv, AuthenticationSound, StrictUserVerified, NothingSkipped
<1>2. TypeOK /\ AuthInv /\ [Next]_vars => AuthInv'
  BY AuthStep
<1> QED
  BY <1>1, <1>2, Typing, PTL DEF Spec

(* Ok(true) is only returned for a trusted, valid identity whose private key
   signed the challenge of this very call.                                 *)
THEOREM Sound == Spec => []AuthenticationSound
<1>1. AuthInv => AuthenticationSound
  BY DEF AuthInv
<1> QED
  BY <1>1, Auth, PTL

(* In strict mode a security key attested presence and verification.       *)
THEOREM UserVerified == Spec => []StrictUserVerified
<1>1. AuthInv => StrictUserVerified
  BY DEF AuthInv
<1> QED
  BY <1>1, Auth, PTL

(* No usable identity is passed over unless the agent refused it.          *)
THEOREM NoneSkipped == Spec => []NothingSkipped
<1>1. AuthInv => NothingSkipped
  BY DEF AuthInv
<1> QED
  BY <1>1, Auth, PTL

(* A certificate is accepted only if it was in its validity period when the
   call began, however long ago other calls have read the clock.           *)
THEOREM InValidity == Spec => []CertificateInPeriod
<1>1. TypeOK /\ AuthInv => CertificateInPeriod
  <2> SUFFICES ASSUME TypeOK, AuthenticationSound, now = began,
                      result = "true", list[idx].kind = "Certificate"
               PROVE  /\ began \in list[idx].valid_after .. list[idx].valid_before - 1
                      /\ began >= 0
    BY DEF AuthInv, CertificateInPeriod
  <2>1. idx \in 1 .. Len(list) /\ Usable(list[idx], now)
    BY DEF AuthenticationSound, TypeOK
  <2>2. list[idx] \in Identities
    BY <2>1 DEF TypeOK
  <2>3. InPeriod(list[idx], began)
    BY <2>1 DEF Usable, ValidateCert
  <2>4. began \in Int
    BY DEF TypeOK
  <2>5. list[idx].valid_after \in Nat /\ list[idx].valid_before \in Nat
    BY <2>2
  <2> QED
    BY <2>3, <2>4, <2>5 DEF InPeriod
<1> QED
  BY <1>1, Typing, Auth, PTL

(* Ok(false) says that the agent was asked to sign for every identity that
   is trusted and valid, in the order of its list, and refused each time.  *)
THEOREM FalseMeansRefused ==
    Spec => [](result = "false" =>
                  \A i \in 1 .. Len(list) : Usable(list[i], now) => i \in refused)
<1>1. TypeOK /\ AuthInv =>
         (result = "false" =>
             \A i \in 1 .. Len(list) : Usable(list[i], now) => i \in refused)
  BY DEF TypeOK, AuthInv, NothingSkipped
<1> QED
  BY <1>1, Typing, Auth, PTL

----------------------------------------------------------------------------
(* The promise of a challenge-response authentication.                     *)

(* Whose signatures count: those who signed the open challenge.            *)
LEMMA AnswersAre ==
    ASSUME NEW k
    PROVE  k \in Answers <=>
              Open /\ \E n \in minted :
                         n.call = calls /\ n.sig.data = data /\ n.sig.key = k
BY DEF Answers

(* A closed challenge has no answers, and success alone accepts anybody.   *)
LEMMA Closed ==
    /\ ~Open => Answers = {}
    /\ result # "true" => Granted = {}
<1>1. ~Open => \A k : k \notin Answers
  BY AnswersAre
<1> QED
  BY <1>1 DEF Granted

(* Those same two facts after a step.                                      *)
LEMMA ClosedAfter ==
    /\ ~Open' => Answers' = {}
    /\ result' # "true" => Granted' = {}
<1>1. ~Open' => \A k : k \notin Answers'
  BY DEF Answers
<1> QED
  BY <1>1 DEF Granted

(* Whoever signs the open challenge counts from then on.                   *)
LEMMA MintSigns ==
    ASSUME TypeOK, AuthInv, NEW k \in Keys, Mint(k)
    PROVE  Exchange!Sign \/ UNCHANGED Exchange!exchange
<1>1. UNCHANGED <<pc, calls, data, result, list, idx>>
  BY DEF Mint, module
<1>2. Open' = Open /\ Granted' = Granted
  BY <1>1 DEF Open, Granted, Subject
<1>3. CASE ~Open
  <2>1. Answers = {} /\ Answers' = {}
    BY <1>2, <1>3, Closed, ClosedAfter
  <2> QED
    BY <1>1, <1>2, <2>1 DEF Exchange!exchange
<1>4. CASE Open
  <2>1. PICK d \in 1 .. calls, f \in Flags :
           minted' = minted \cup
             {[sig |-> [key |-> k, data |-> d, flags |-> f, fits |-> TRUE],
               call |-> calls]}
    BY DEF Mint, Flags
  <2> DEFINE new == [sig |-> [key |-> k, data |-> d, flags |-> f, fits |-> TRUE],
                     call |-> calls]
  <2>2. new.call = calls /\ new.sig.data = d /\ new.sig.key = k
    OBVIOUS
  <2>3. minted' = minted \cup {new}
    BY <2>1
  <2> HIDE DEF new
  <2>4. \A j : j \in Answers' <=>
                 \E n \in minted \cup {new} :
                    n.call = calls /\ n.sig.data = data /\ n.sig.key = j
    BY <1>1, <1>2, <1>4, <2>3 DEF Answers
  <2>5. \A j : j \in Answers' <=> j \in Answers \/ (d = data /\ j = k)
    BY <1>4, <2>2, <2>4, AnswersAre
  <2>6. CASE d = data
    <3>1. Answers' = Answers \cup {k}
      BY <2>5, <2>6
    <3> QED
      BY <1>1, <1>2, <1>4, <3>1 DEF Exchange!Sign
  <2>7. CASE d # data
    <3>1. Answers' = Answers
      BY <2>5, <2>7
    <3> QED
      BY <1>1, <1>2, <3>1 DEF Exchange!exchange
  <2> QED
    BY <2>6, <2>7
<1> QED
  BY <1>3, <1>4

(* The key that is accepted has signed the open challenge.                 *)
LEMMA VerifyDecides ==
    ASSUME TypeOK, AuthInv, Verify
    PROVE  Exchange!Grant \/ Exchange!Reject
<1>1. /\ Open /\ ~Open' /\ UNCHANGED <<calls, list, idx>>
      /\ pc # "done" /\ result' = IF Accepted THEN "true" ELSE "error"
  BY DEF Verify, Finish, Open
<1>2. Exchange!Close
  BY <1>1, ClosedAfter DEF Exchange!Close
<1>3. CASE Accepted
  <2> DEFINE key == Subject(list[idx])
  <2>1. PICK m \in minted : m.sig = sig /\ sig.key = key /\ sig.data = data
    BY <1>3 DEF Accepted, Verifies
  <2>2. m.call = calls
    <3>1. data <= m.call /\ data = calls /\ m.call \in 1 .. calls
      BY <2>1 DEF Verify, TypeOK, AuthInv
    <3> QED
      BY <3>1 DEF TypeOK
  <2>3. key \in Answers
    BY <1>1, <2>1, <2>2, AnswersAre
  <2>4. Granted' = {key}
    BY <1>1, <1>3 DEF Granted, Subject
  <2> HIDE DEF key
  <2> QED
    BY <1>1, <1>2, <2>3, <2>4 DEF Exchange!Grant
<1>4. CASE ~Accepted
  <2>1. Granted = {} /\ Granted' = {}
    BY <1>1, <1>4, Closed, ClosedAfter DEF AuthInv
  <2> QED
    BY <1>1, <1>2, <2>1 DEF Exchange!Reject
<1> QED
  BY <1>3, <1>4

(* authenticate() keeps the promise of a challenge-response authentication,
   for every agent, every filter and every number of calls: each step of it
   is one of ChallengeResponse, or changes nothing that counts there.      *)
THEOREM ExchangeImplemented == Spec => ImplementsExchange
<1>1. Init => Exchange!Init
  <2> SUFFICES ASSUME Init PROVE Exchange!Init
    OBVIOUS
  <2>1. ~Open /\ result # "true" /\ calls = 0
    BY DEF Init, Open
  <2> QED
    BY <2>1, Closed DEF Exchange!Init
<1>2. TypeOK /\ AuthInv /\ [Next]_vars => [Exchange!Next]_(Exchange!exchange)
  <2> SUFFICES ASSUME TypeOK, AuthInv, [Next]_vars
               PROVE  Exchange!Next \/ UNCHANGED Exchange!exchange
    OBVIOUS
  <2>1. CASE Begin
    <3>1. ~Open /\ Open' = Open /\ UNCHANGED calls /\ result' # "true"
      BY <2>1 DEF Begin, Open
    <3>2. Exchange!Forget
      BY <3>1, Closed, ClosedAfter DEF Exchange!Forget
    <3> QED
      BY <3>2 DEF Exchange!Next
  <2>2. CASE Listed \/ ListFails \/ Skip \/ RandomFails \/ Exhausted
    <3>1. ~Open /\ Open' = Open /\ UNCHANGED calls /\ pc # "done"
      BY <2>2 DEF Listed, ListFails, Skip, RandomFails, Exhausted, Finish, Open
    <3>2. result = "none"
      BY <3>1 DEF AuthInv
    <3>3. result' # "true"
      BY <2>2, <3>2 DEF Listed, ListFails, Skip, RandomFails, Exhausted, Finish
    <3> QED
      BY <3>1, <3>2, <3>3, Closed, ClosedAfter DEF Exchange!exchange
  <2>3. CASE SignRequest
    <3>1. ~Open /\ Open' /\ pc # "done" /\ calls' = calls + 1
          /\ UNCHANGED <<result, minted>>
      BY <2>3 DEF SignRequest, Open
    <3>2. result = "none"
      BY <3>1 DEF AuthInv
    <3>3. \A n \in minted : n.call # calls + 1
      BY DEF TypeOK
    <3>4. Answers' = {}
      BY <3>1, <3>3 DEF Answers
    <3>5. Exchange!Issue
      BY <3>1, <3>2, <3>4, Closed, ClosedAfter DEF Exchange!Issue
    <3> QED
      BY <3>5 DEF Exchange!Next
  <2>4. CASE Signed
    <3>1. Open /\ Open' /\ UNCHANGED <<calls, data, minted, result, list, idx>>
      BY <2>4 DEF Signed, Open
    <3>2. UNCHANGED <<Answers, Granted>>
      BY <3>1 DEF Answers, Granted, Subject
    <3> QED
      BY <3>1, <3>2 DEF Exchange!exchange
  <2>5. CASE RemoteFailure \/ SignFails
    <3>1. /\ Open /\ ~Open' /\ UNCHANGED calls
          /\ pc # "done"
      BY <2>5 DEF RemoteFailure, SignFails, Finish, Open
    <3>2. result = "none"
      BY <3>1 DEF AuthInv
    <3>3. result' # "true"
      BY <2>5, <3>2 DEF RemoteFailure, SignFails, Finish
    <3>4. Exchange!Reject
      BY <3>1, <3>2, <3>3, Closed, ClosedAfter DEF Exchange!Reject, Exchange!Close
    <3> QED
      BY <3>4 DEF Exchange!Next
  <2>6. CASE Verify
    BY <2>6, VerifyDecides DEF Exchange!Next
  <2>7. ASSUME NEW k \in Keys, Mint(k)
        PROVE  Exchange!Next \/ UNCHANGED Exchange!exchange
    BY <2>7, MintSigns DEF Exchange!Next
  <2>8. CASE Over \/ Tick \/ UNCHANGED vars
    <3>1. UNCHANGED <<pc, calls, data, minted, result, list, idx>>
      BY <2>8 DEF Over, Tick, vars, module
    <3>2. UNCHANGED <<Open, Answers, Granted>>
      BY <3>1 DEF Open, Answers, Granted, Subject
    <3> QED
      BY <3>1, <3>2 DEF Exchange!exchange
  <2> QED
    BY <2>1, <2>2, <2>3, <2>4, <2>5, <2>6, <2>7, <2>8 DEF Next, Module, Replies
<1> QED
  BY <1>1, <1>2, Typing, Auth, PTL DEF Spec, ImplementsExchange, Exchange!Spec

----------------------------------------------------------------------------
(* The end of a call.                                                      *)

(* The most steps it has ahead of it once the identities are listed: three
   for each that is left, and one at the end of the list.                  *)
Left ==
    LET rest == Len(list) + 1 - idx IN
    CASE pc = "loop" -> 3 * rest + 1
      [] pc = "sign" -> 3 * rest
      [] pc = "verify" -> 3 * rest - 1
      [] OTHER -> 0

(* Between the listing of the identities and the end of the call.          *)
Examining == pc \in {"loop", "sign", "verify"}

(* However often the agent refuses and whatever it signs, every step of a
   call leaves fewer of them to come: no more than three for each identity
   that was listed.                                                        *)
THEOREM FewStepsLeft == Spec => [][Examining => Left' \in Nat /\ Left' < Left]_module
<1>1. TypeOK /\ [Next]_vars => [Examining => Left' \in Nat /\ Left' < Left]_module
  <2> SUFFICES ASSUME TypeOK, [Next]_vars, Examining, ~UNCHANGED module
               PROVE  Left' \in Nat /\ Left' < Left
    OBVIOUS
  <2> DEFINE rest == Len(list) + 1 - idx
  <2>1. /\ rest \in Nat
        /\ pc \in {"sign", "verify"} => rest > 0
        /\ pc = "loop" /\ idx <= Len(list) => rest > 0
    BY DEF TypeOK
  <2>2. /\ pc = "loop" => Left = 3 * rest + 1
        /\ pc = "sign" => Left = 3 * rest
        /\ pc = "verify" => Left = 3 * rest - 1
    BY DEF Left
  <2>3. /\ pc' = "loop" => Left' = 3 * rest' + 1
        /\ pc' = "sign" => Left' = 3 * rest'
        /\ pc' = "verify" => Left' = 3 * rest' - 1
        /\ pc' = "done" => Left' = 0
    BY DEF Left
  <2>4. CASE Skip
    <3>1. rest > 0 /\ pc = "loop" /\ pc' = "loop"
      BY <2>1, <2>4 DEF Skip
    <3>2. rest' = rest - 1
      BY <2>4 DEF Skip, TypeOK
    <3> HIDE DEF rest
    <3> QED
      BY <2>1, <2>2, <2>3, <3>1, <3>2
  <2>5. CASE SignRequest
    <3>1. rest > 0 /\ pc = "loop" /\ pc' = "sign" /\ rest' = rest
      BY <2>1, <2>5 DEF SignRequest
    <3> HIDE DEF rest
    <3> QED
      BY <2>1, <2>2, <2>3, <3>1
  <2>6. CASE Signed
    <3>1. rest > 0 /\ pc = "sign" /\ pc' = "verify" /\ rest' = rest
      BY <2>1, <2>6 DEF Signed
    <3> HIDE DEF rest
    <3> QED
      BY <2>1, <2>2, <2>3, <3>1
  <2>7. CASE RemoteFailure
    <3>1. rest > 0 /\ pc = "sign" /\ pc' = "loop"
      BY <2>1, <2>7 DEF RemoteFailure
    <3>2. rest' = rest - 1
      BY <2>7 DEF RemoteFailure, AfterRemoteFailure, TypeOK
    <3> HIDE DEF rest
    <3> QED
      BY <2>1, <2>2, <2>3, <3>1, <3>2
  <2>8. CASE RandomFails \/ Exhausted \/ SignFails \/ Verify
    <3>1. pc' = "done"
      BY <2>8 DEF RandomFails, Exhausted, SignFails, Verify, Finish
    <3> HIDE DEF rest
    <3> QED
      BY <2>1, <2>2, <2>3, <3>1 DEF Examining
  <2>9. CASE Begin \/ Listed \/ ListFails
    BY <2>9 DEF Begin, Listed, ListFails, Examining
  <2>10. CASE Over \/ Tick \/ (\E k \in Keys : Mint(k)) \/ UNCHANGED vars
    BY <2>10 DEF Over, Tick, Mint, vars
  <2> QED
    BY <2>4, <2>5, <2>6, <2>7, <2>8, <2>9, <2>10 DEF Next, Module, Replies
<1> QED
  BY <1>1, Typing, PTL DEF Spec
=============================================================================
