-------------------------- MODULE PamModuleProofs --------------------------
(***************************************************************************)
(* The request of PamModule, for every set of keys and users, every list   *)
(* of options and every account database:                                  *)
(*                                                                         *)
(*   - it implements AuthGate, its success resting on a trusted identity;  *)
(*   - a strict helper is not root, and any helper is run as the user the  *)
(*     options name, if no account has changed in between;                 *)
(*   - what sshd has verified counts only where the options say so;        *)
(*   - a strict request is answered, whatever the agent does.              *)
(*                                                                         *)
(* The last three rest on what Args::parse() makes of a list of options,   *)
(* which is shown by induction over the turns of its loop (Progress).  The *)
(* last is a property of liveness: the fairness of PamModule is stated     *)
(* without ENABLED, and a request takes at most 14 steps, so that its      *)
(* proof is a chain of leads-to steps, one for each value of Left.         *)
(***************************************************************************)
EXTENDS PamModule, SequenceTheorems, WellFoundedInduction, TLAPS

(* An identity is shown as run() returns, and success means one was.       *)
ShownInv ==
    /\ pc \notin {"return", "done"} => proof = NoProof
    /\ proof # NoProof => Filter(keys, ca_keys, proof.identity)
    /\ result = "ok" => proof # NoProof
    /\ code = "PAM_SUCCESS" => result = "ok"

(* After the strict checks.                                                *)
HelperPcs == {"files", "lookup", "helper", "shortcut", "path", "connect", "agent"}

(* Who would run the helper has been checked, and found not to be root.    *)
HelperInv ==
    /\ pc \in {"hook", "context", "logging", "parse"} =>
          ~args.strict /\ ran = "none"
    /\ pc = "lookup" => HasHelper
    /\ args.strict /\ ~changed =>
          /\ pc = "strict_helper" => calling_uid = accounts[user].uid
          /\ HasHelper /\ pc \in HelperPcs => accounts[HelperUser].uid # "root"
          /\ pc = "helper" => helper_uid # "root"
    /\ StrictHelperNotRoot

----------------------------------------------------------------------------
(* The types of PamModule's variables.                                     *)
THEOREM Typing == Spec => []TypeOK
<1>1. Init => TypeOK
  BY DEF Init, TypeOK, Pcs, UidValues, Proofs
<1>2. TypeOK /\ [Next]_vars => TypeOK'
  <2> SUFFICES ASSUME TypeOK, [Next]_vars PROVE TypeOK'
    OBVIOUS
  <2> USE DEF TypeOK, Pcs, UidValues, Goto, Leaves, Fails, Answer, request, state
  <2>1. CASE InvokeHook \/ Context \/ InitLogging \/ GetPath \/ Connect
    BY <2>1 DEF InvokeHook, Context, InitLogging, GetPath, Connect
  <2>2. CASE ParseArgs
    BY <2>2 DEF ParseArgs, AfterParse
  <2>3. CASE StrictUser
    BY <2>3 DEF StrictUser, ValidStrictUser, Known, Accounts
  <2>4. CASE StrictHelper
    BY <2>4 DEF StrictHelper
  <2>5. CASE ReadFiles
    BY <2>5 DEF ReadFiles
  <2>6. CASE LookupHelper
    BY <2>6 DEF LookupHelper, Known, Accounts
  <2>7. CASE RunHelper
    BY <2>7 DEF RunHelper
  <2>8. CASE Shortcut
    <3>1. CASE proof' = proof
      BY <2>8, <3>1 DEF Shortcut
    <3>2. CASE proof' # proof
      <4>1. PICK k \in Keys :
               proof' = [by |-> "sshd", identity |-> [kind |-> "PublicKey", key |-> k]]
        BY <2>8, <3>2 DEF Shortcut
      <4>2. [kind |-> "PublicKey", key |-> k] \in Identities
        BY DEF Identities
      <4>3. proof' \in Proofs
        BY <4>1, <4>2 DEF Proofs
      <4> QED
        BY <2>8, <4>3 DEF Shortcut
    <3> QED
      BY <3>1, <3>2
  <2>9. CASE Authenticate
    <3>1. CASE Fails
      BY <2>9, <3>1 DEF Authenticate
    <3>2. CASE ~Fails
      <4>1. proof' \in Proofs
        BY <2>9, <3>2 DEF Authenticate, Proofs
      <4> QED
        BY <2>9, <3>2, <4>1 DEF Authenticate
    <3> QED
      BY <3>1, <3>2
  <2>10. CASE SmAuthenticate
    BY <2>10 DEF SmAuthenticate
  <2>11. CASE Panic
    BY <2>11 DEF Panic
  <2>12. CASE ChangeAccount
    BY <2>12 DEF ChangeAccount
  <2>13. CASE Over \/ UNCHANGED vars
    BY <2>13 DEF Over, vars
  <2> QED
    BY <2>1, <2>2, <2>3, <2>4, <2>5, <2>6, <2>7, <2>8, <2>9, <2>10, <2>11,
       <2>12, <2>13 DEF Next, Local, AgentSteps
<1> QED
  BY <1>1, <1>2, PTL DEF Spec

----------------------------------------------------------------------------
(* No step lets a request succeed without an identity shown.               *)
LEMMA ShownStep == TypeOK /\ ShownInv /\ [Next]_vars => ShownInv'
<1> SUFFICES ASSUME TypeOK, ShownInv, [Next]_vars PROVE ShownInv'
  OBVIOUS
<1> USE DEF ShownInv, TypeOK, Goto, Leaves, Fails, Answer, request, state
<1>1. CASE InvokeHook \/ Context \/ InitLogging \/ GetPath \/ Connect
  BY <1>1 DEF InvokeHook, Context, InitLogging, GetPath, Connect
<1>2. CASE ParseArgs
  BY <1>2 DEF ParseArgs
<1>3. CASE StrictUser \/ StrictHelper
  BY <1>3 DEF StrictUser, StrictHelper
<1>4. CASE ReadFiles \/ LookupHelper \/ RunHelper
  <2>1. result = "none" /\ code = "none"
    BY <1>4 DEF ReadFiles, LookupHelper, RunHelper
  <2> QED
    BY <1>4, <2>1 DEF ReadFiles, LookupHelper, RunHelper
<1>5. CASE Shortcut
  <2>1. ASSUME ~Fails, pc' = "return" PROVE ShownInv'
    <3>1. PICK k \in Keys :
             /\ Filter(keys, ca_keys, [kind |-> "PublicKey", key |-> k])
             /\ proof' = [by |-> "sshd",
                          identity |-> [kind |-> "PublicKey", key |-> k]]
      BY <1>5, <2>1 DEF Shortcut
    <3>2. proof' # NoProof
      BY <3>1 DEF NoProof
    <3>3. UNCHANGED <<keys, ca_keys>> /\ code' = code /\ code = "none"
      BY <1>5, <2>1 DEF Shortcut
    <3>4. Filter(keys', ca_keys', proof'.identity)
      BY <3>1, <3>3
    <3> QED
      BY <2>1, <3>2, <3>3, <3>4
  <2> QED
    BY <1>5, <2>1 DEF Shortcut
<1>6. CASE Authenticate
  <2>1. ASSUME ~Fails PROVE ShownInv'
    <3>1. PICK identity \in Identities :
             /\ Filter(keys, ca_keys, identity)
             /\ proof' = [by |-> "agent", identity |-> identity]
      BY <1>6, <2>1 DEF Authenticate
    <3>2. proof' # NoProof
      BY <3>1 DEF NoProof
    <3>3. /\ UNCHANGED <<keys, ca_keys>> /\ code' = code /\ code = "none"
          /\ pc' = "return"
      BY <1>6, <2>1 DEF Authenticate
    <3>4. Filter(keys', ca_keys', proof'.identity)
      BY <3>1, <3>3
    <3> QED
      BY <3>2, <3>3, <3>4
  <2> QED
    BY <1>6, <2>1 DEF Authenticate
<1>7. CASE SmAuthenticate \/ Panic
  BY <1>7 DEF SmAuthenticate, Panic
<1>8. CASE ChangeAccount \/ Over \/ UNCHANGED vars
  BY <1>8 DEF ChangeAccount, Over, vars
<1> QED
  BY <1>1, <1>2, <1>3, <1>4, <1>5, <1>6, <1>7, <1>8 DEF Next, Local, AgentSteps

(* So no request does.                                                     *)
LEMMA AlwaysShown == Spec => [](TypeOK /\ ShownInv)
<1>1. Init => ShownInv
  BY DEF Init, ShownInv
<1> QED
  BY <1>1, Typing, ShownStep, PTL DEF Spec

(* Every step of the module is a step of AuthGate or changes nothing that a
   host can see.                                                           *)
THEOREM GateImplemented == Spec => ImplementsGate
<1>1. Init => Gate!Init
  BY DEF Init, Gate!Init, Verdict, Shown
<1>2. TypeOK /\ ShownInv /\ [Next]_vars =>
        [Gate!Show \/ Gate!Grant \/ Gate!Deny]_(Gate!gate)
  <2> SUFFICES ASSUME TypeOK, ShownInv, [Next]_vars
               PROVE  [Gate!Show \/ Gate!Grant \/ Gate!Deny]_(Gate!gate)
    OBVIOUS
  <2> USE DEF Gate!Show, Gate!Grant, Gate!Deny, Gate!gate, Verdict
  <2>0. (Shown <=> proof # NoProof) /\ (Shown' <=> proof' # NoProof)
    BY ShownStep DEF ShownInv, Shown
  <2>1. ASSUME NEW c \in {"PAM_SUCCESS", "PAM_AUTH_ERR", "PAM_ABORT"}, Answer(c),
               pc # "done", c = "PAM_SUCCESS" => result = "ok"
        PROVE  Gate!Grant \/ Gate!Deny
    <3>1. code = "none" /\ code' = c /\ UNCHANGED proof
      BY <2>1 DEF Answer, TypeOK
    <3>2. Shown' = Shown
      <4>1. Shown' <=> Shown
        BY <2>0, <3>1
      <4> QED
        BY <4>1 DEF Shown
    <3>3. CASE c = "PAM_SUCCESS"
      <4>1. Shown
        BY <2>0, <2>1, <3>3 DEF ShownInv
      <4> QED
        BY <3>1, <3>2, <3>3, <4>1
    <3>4. CASE c # "PAM_SUCCESS"
      BY <3>1, <3>2, <3>4
    <3> QED
      BY <3>3, <3>4
  <2>2. ASSUME UNCHANGED <<code, proof>> PROVE UNCHANGED Gate!gate
    BY <2>0, <2>2 DEF Shown
  <2>3. ASSUME pc # "done", code' = code, proof' # NoProof
        PROVE  Gate!Show
    BY <2>0, <2>3 DEF TypeOK
  <2>4. CASE InvokeHook \/ SmAuthenticate \/ Panic
    BY <2>1, <2>2, <2>4 DEF InvokeHook, SmAuthenticate, Panic, Goto, state
  <2>5. CASE Shortcut
    <3>1. CASE proof' = proof
      BY <2>2, <2>5, <3>1 DEF Shortcut, Goto, Fails, Leaves, state
    <3>2. CASE proof' # proof
      <4>1. PICK k \in Keys :
               proof' = [by |-> "sshd", identity |-> [kind |-> "PublicKey", key |-> k]]
        BY <2>5, <3>2 DEF Shortcut, Goto, Fails, Leaves, state
      <4>2. proof' # NoProof
        BY <4>1 DEF NoProof
      <4>3. pc # "done" /\ code' = code
        BY <2>5 DEF Shortcut, Goto, Fails, Leaves, state
      <4> QED
        BY <2>3, <4>2, <4>3
    <3> QED
      BY <3>1, <3>2
  <2>6. CASE Authenticate
    <3>1. CASE proof' = proof
      BY <2>2, <2>6, <3>1 DEF Authenticate, Fails, Leaves
    <3>2. CASE proof' # proof
      <4>1. PICK identity \in Identities :
               proof' = [by |-> "agent", identity |-> identity]
        BY <2>6, <3>2 DEF Authenticate, Goto, Fails, Leaves, state
      <4>2. proof' # NoProof
        BY <4>1 DEF NoProof
      <4>3. pc # "done" /\ code' = code
        BY <2>6 DEF Authenticate, Goto, Fails, Leaves, state
      <4> QED
        BY <2>3, <4>2, <4>3
    <3> QED
      BY <3>1, <3>2
  <2>7. CASE ParseArgs \/ StrictUser \/ StrictHelper
    BY <2>2, <2>7 DEF ParseArgs, StrictUser, StrictHelper, Fails, Leaves, Goto, state
  <2>8. CASE ReadFiles \/ LookupHelper \/ RunHelper
    BY <2>2, <2>8 DEF ReadFiles, LookupHelper, RunHelper, Fails, Leaves
  <2>9. CASE Context \/ InitLogging \/ GetPath \/ Connect
    BY <2>2, <2>9 DEF Context, InitLogging, GetPath, Connect, Fails, Leaves, Goto, state
  <2>10. CASE ChangeAccount \/ Over \/ UNCHANGED vars
    BY <2>2, <2>10 DEF ChangeAccount, Over, vars, state
  <2> QED
    BY <2>4, <2>5, <2>6, <2>7, <2>8, <2>9, <2>10 DEF Next, Local, AgentSteps
<1> QED
  BY <1>1, <1>2, AlwaysShown, PTL DEF Spec, ImplementsGate, Gate!Spec

----------------------------------------------------------------------------
(* What the strict checks found still holds when the helper is run, if the
   account database has been left alone.                                   *)
LEMMA HelperStep == TypeOK /\ HelperInv /\ [Next]_vars => HelperInv'
<1> SUFFICES ASSUME TypeOK, HelperInv, [Next]_vars PROVE HelperInv'
  OBVIOUS
<1> USE DEF HelperInv, HelperPcs, HasHelper, StrictHelperNotRoot, HelperUser,
            Goto, Leaves, Fails, Answer, request, state
<1>1. CASE InvokeHook \/ Context \/ InitLogging \/ GetPath \/ Connect
  BY <1>1 DEF InvokeHook, Context, InitLogging, GetPath, Connect
<1>2. CASE ParseArgs
  BY <1>2 DEF ParseArgs, AfterParse
<1>3. CASE StrictUser
  BY <1>3 DEF StrictUser
<1>4. CASE StrictHelper
  BY <1>4 DEF StrictHelper, HelperIsNotRoot
<1>5. CASE ReadFiles
  BY <1>5 DEF ReadFiles
<1>6. CASE LookupHelper
  BY <1>6 DEF LookupHelper
<1>7. CASE RunHelper
  BY <1>7 DEF RunHelper
<1>8. CASE Shortcut
  BY <1>8 DEF Shortcut
<1>9. CASE Authenticate
  BY <1>9 DEF Authenticate
<1>10. CASE SmAuthenticate \/ Panic
  BY <1>10 DEF SmAuthenticate, Panic
<1>11. CASE ChangeAccount \/ Over \/ UNCHANGED vars
  BY <1>11 DEF ChangeAccount, Over, vars
<1> QED
  BY <1>1, <1>2, <1>3, <1>4, <1>5, <1>6, <1>7, <1>8, <1>9, <1>10, <1>11
  DEF Next, Local, AgentSteps

(* In strict mode the helper is never run as root, whichever options and
   accounts there are, if no account has changed during the request.       *)
THEOREM HelperNotRoot == Spec => []StrictHelperNotRoot
<1>1. Init => HelperInv
  BY DEF Init, HelperInv, HelperPcs, StrictHelperNotRoot, Defaults
<1>2. HelperInv => StrictHelperNotRoot
  BY DEF HelperInv
<1> QED
  BY <1>1, <1>2, Typing, HelperStep, PTL DEF Spec

----------------------------------------------------------------------------
(* Texts and their expansion.                                              *)

(* A set of numbers has a least one.                                       *)
LEMMA Least ==
    ASSUME NEW T \in SUBSET Nat, T # {}
    PROVE  \E n \in T : \A m \in T : n <= m
<1> DEFINE R == OpToRel(<, Nat)
<1>1. PICK n \in T : \A y \in T : ~(<<y, n>> \in R)
  <2>1. IsWellFoundedOn(R, Nat)
    BY NatLessThanWellFounded
  <2> HIDE DEF R
  <2> QED
    BY <2>1, WFMin
<1>2. \A y \in T : y < n => <<y, n>> \in R
  <2> SUFFICES ASSUME NEW y \in T, y < n PROVE <<y, n>> \in R
    OBVIOUS
  <2>1. <<y, n>> \in Nat \X Nat
    OBVIOUS
  <2> QED
    BY <2>1 DEF OpToRel
<1> HIDE DEF R
<1>3. \A y \in T : ~(y < n)
  BY <1>1, <1>2
<1> QED
  BY <1>3

(* A set that holds 0 and what follows each of its numbers holds them all. *)
LEMMA Induct ==
    ASSUME NEW S, 0 \in S, \A n \in Nat : n \in S => n + 1 \in S
    PROVE  Nat \subseteq S
<1> SUFFICES ASSUME Nat \ S # {} PROVE FALSE
  OBVIOUS
<1>1. PICK n \in Nat \ S : \A m \in Nat \ S : n <= m
  BY Least
<1>2. n - 1 \in Nat /\ n - 1 \in S
  BY <1>1
<1> QED
  BY <1>1, <1>2

(* Position() is where a token is first, and 0 where it is not.            *)
LEMMA PositionIs ==
    ASSUME NEW S, NEW text \in Seq(S), NEW token
    PROVE  /\ Position(text, token) \in 0 .. Len(text)
           /\ Position(text, token) = 0 =>
                 \A j \in 1 .. Len(text) : text[j] # token
           /\ Position(text, token) # 0 => text[Position(text, token)] = token
<1> DEFINE I == {j \in 1 .. Len(text) : text[j] = token}
<1>1. Position(text, token) =
         IF I # {} THEN CHOOSE n \in I : \A m \in I : n <= m ELSE 0
  BY DEF Position, SelectInSeq, Min
<1>2. I \in SUBSET Nat /\ I \subseteq 1 .. Len(text)
  OBVIOUS
<1>3. \A j \in 1 .. Len(text) : text[j] = token <=> j \in I
  OBVIOUS
<1> HIDE DEF I
<1>4. CASE I = {}
  <2>1. Position(text, token) = 0
    BY <1>1, <1>4
  <2>2. 0 \in 0 .. Len(text)
    OBVIOUS
  <2>3. \A j \in 1 .. Len(text) : text[j] # token
    BY <1>3, <1>4
  <2> QED
    BY <2>1, <2>2, <2>3
<1>5. CASE I # {}
  <2>1. \E n \in I : \A m \in I : n <= m
    BY <1>2, <1>5, Least
  <2>2. Position(text, token) \in I
    BY <1>1, <1>5, <2>1
  <2>3. Position(text, token) \in 1 .. Len(text)
    BY <1>2, <2>2
  <2>4. text[Position(text, token)] = token
    BY <1>3, <2>2, <2>3
  <2>5. Position(text, token) \in 0 .. Len(text) /\ Position(text, token) # 0
    BY <2>3
  <2> QED
    BY <2>4, <2>5
<1> QED
  BY <1>4, <1>5

(* Holds() is about the tokens of a text.                                  *)
LEMMA HoldsIs ==
    ASSUME NEW S, NEW text \in Seq(S), NEW tokens
    PROVE  Holds(text, tokens) <=> \E j \in 1 .. Len(text) : text[j] \in tokens
<1>1. ASSUME NEW t \in tokens, Position(text, t) # 0
      PROVE  \E j \in 1 .. Len(text) : text[j] \in tokens
  <2>1. /\ Position(text, t) \in 0 .. Len(text)
        /\ text[Position(text, t)] = t
    BY <1>1, PositionIs
  <2>2. Position(text, t) \in 1 .. Len(text)
    BY <1>1, <2>1
  <2> QED
    BY <2>1, <2>2
<1>2. ASSUME NEW j \in 1 .. Len(text), text[j] \in tokens
      PROVE  \E t \in tokens : Position(text, t) # 0
  BY <1>2, PositionIs
<1> QED
  BY <1>1, <1>2 DEF Holds

(* What is expanded holds no more than the text, the value and a failure.  *)
LEMMA ExpandVarType ==
    ASSUME NEW T, "Failed" \in T,
           NEW text \in Seq(T), NEW value \in Seq(T), NEW var
    PROVE  ExpandVar(text, var, value) \in Seq(T)
<1> DEFINE i == Position(text, var)
<1>1. i \in 0 .. Len(text)
  BY PositionIs
<1>2. ExpandVar(text, var, value) =
         IF i = 0 THEN text
         ELSE IF value = Failed THEN Failed
         ELSE SubSeq(text, 1, i - 1) \o value \o SubSeq(text, i + 1, Len(text))
  BY DEF ExpandVar, Splice
<1> HIDE DEF i
<1>3. Failed \in Seq(T)
  BY DEF Failed
<1>4. CASE i # 0
  <2> DEFINE a == SubSeq(text, 1, i - 1)
             b == SubSeq(text, i + 1, Len(text))
  <2>1. a \in Seq(T) /\ b \in Seq(T)
    BY <1>1, <1>4
  <2> HIDE DEF a, b
  <2>2. a \o value \in Seq(T)
    BY <2>1
  <2>3. a \o value \o b \in Seq(T)
    BY <2>1, <2>2
  <2> QED
    BY <1>2, <1>3, <2>3 DEF a, b
<1> QED
  BY <1>2, <1>4

(* A function that is right for the first n options.                       *)
IsProgress(list, caller, host, n, w) ==
    w = [i \in 0 .. n |->
           IF i = 0 THEN Defaults(Strict(list))
           ELSE ParseOption(w[i - 1], list[i], caller, host)]

(* There is one for every n.                                               *)
LEMMA ProgressExists ==
    ASSUME NEW list, NEW caller, NEW host
    PROVE  \A n \in Nat : \E w : IsProgress(list, caller, host, n, w)
<1> DEFINE S == {n \in Nat : \E w : IsProgress(list, caller, host, n, w)}
           D == Defaults(Strict(list))
<1>1. 0 \in S
  <2> DEFINE w == [i \in 0 .. 0 |-> D]
  <2>1. IsProgress(list, caller, host, 0, w)
    <3> HIDE DEF D
    <3>1. w = [i \in 0 .. 0 |->
                 IF i = 0 THEN D ELSE ParseOption(w[i - 1], list[i], caller, host)]
      OBVIOUS
    <3> QED
      BY <3>1 DEF IsProgress, D
  <2> HIDE DEF w
  <2> QED
    BY <2>1
<1>2. ASSUME NEW n \in Nat, n \in S PROVE n + 1 \in S
  <2>1. PICK v : IsProgress(list, caller, host, n, v)
    BY <1>2
  <2> HIDE DEF D
  <2> DEFINE Turn == ParseOption(v[n], list[n + 1], caller, host)
  <2> HIDE DEF Turn
  <2> DEFINE w == [i \in 0 .. n + 1 |-> IF i = n + 1 THEN Turn ELSE v[i]]
  <2>2. w[n + 1] = Turn /\ \A i \in 0 .. n : w[i] = v[i]
    OBVIOUS
  <2>3. \A i \in 0 .. n + 1 :
           w[i] = IF i = 0 THEN D ELSE ParseOption(w[i - 1], list[i], caller, host)
    <3> SUFFICES ASSUME NEW i \in 0 .. n + 1
                 PROVE  w[i] = IF i = 0 THEN D
                               ELSE ParseOption(w[i - 1], list[i], caller, host)
      OBVIOUS
    <3> HIDE DEF w
    <3>1. CASE i = n + 1
      <4>1. i # 0 /\ i - 1 = n /\ w[n] = v[n]
        BY <3>1, <2>2
      <4> QED
        BY <3>1, <4>1, <2>2 DEF Turn
    <3>2. CASE i \in 0 .. n
      <4>1. v[i] = IF i = 0 THEN D ELSE ParseOption(v[i - 1], list[i], caller, host)
        BY <3>2, <2>1 DEF IsProgress, D
      <4>2. i = 0 \/ w[i - 1] = v[i - 1]
        BY <3>2, <2>2
      <4> QED
        BY <3>2, <4>1, <4>2, <2>2
    <3> QED
      BY <3>1, <3>2
  <2>4. w = [i \in 0 .. n + 1 |->
               IF i = 0 THEN D ELSE ParseOption(w[i - 1], list[i], caller, host)]
    BY <2>3
  <2>5. IsProgress(list, caller, host, n + 1, w)
    BY <2>4 DEF IsProgress, D
  <2> HIDE DEF w
  <2> QED
    BY <2>5
<1> HIDE DEF S
<1>3. Nat \subseteq S
  BY <1>1, <1>2, Induct
<1> QED
  BY <1>3 DEF S

(* The locals after an option are what it makes of those before.           *)
LEMMA ProgressIs ==
    ASSUME NEW S, NEW list \in Seq(S), NEW caller, NEW host
    PROVE  /\ Progress(list, caller, host)[0] = Defaults(Strict(list))
           /\ \A n \in 1 .. Len(list) :
                 Progress(list, caller, host)[n] =
                    ParseOption(Progress(list, caller, host)[n - 1], list[n], caller, host)
<1> DEFINE m == Len(list)
           p == Progress(list, caller, host)
<1>1. m \in Nat
  OBVIOUS
<1>2. p = CHOOSE w : IsProgress(list, caller, host, m, w)
  BY DEF Progress, IsProgress
<1> HIDE DEF m, p
<1>3. IsProgress(list, caller, host, m, p)
  BY <1>1, <1>2, ProgressExists
<1>4. p = [i \in 0 .. m |->
             IF i = 0 THEN Defaults(Strict(list))
             ELSE ParseOption(p[i - 1], list[i], caller, host)]
  BY <1>3 DEF IsProgress
<1>5. p[0] = Defaults(Strict(list))
  BY <1>1, <1>4
<1>6. \A n \in 1 .. m : p[n] = ParseOption(p[n - 1], list[n], caller, host)
  BY <1>1, <1>4
<1> QED
  BY <1>5, <1>6 DEF m, p

(* The text after ~ has been expanded.                                     *)
LEMMA ExpandHomeType ==
    ASSUME NEW T, {"Failed", "/", "home"} \subseteq T,
           NEW text \in Seq(T), NEW caller \in Seq(T), NEW host
    PROVE  ExpandHomedir(text, caller, host) \in Seq(T)
<1> DEFINE i == Position(text, "~")
           rest == SubSeq(text, i + 1, Len(text))
           slash == Position(rest, "/")
           name == IF slash = 0 THEN rest ELSE SubSeq(rest, 1, slash - 1)
           whose == IF name = <<>> THEN caller ELSE name
           value == Home(host, whose)
           a == SubSeq(text, 1, i - 1)
           b == SubSeq(text, i + (1 + Len(name)), Len(text))
<1>1. i \in 0 .. Len(text)
  BY PositionIs
<1>2. ExpandHomedir(text, caller, host) =
         IF i = 0 THEN text ELSE IF value = Failed THEN Failed ELSE a \o value \o b
  BY DEF ExpandHomedir, Splice
<1> HIDE DEF i
<1>3. CASE i = 0
  BY <1>2, <1>3
<1>4. CASE i # 0
  <2>1. rest \in Seq(T) /\ a \in Seq(T)
    BY <1>1, <1>4
  <2> HIDE DEF rest, a
  <2>2. slash \in 0 .. Len(rest)
    BY <2>1, PositionIs
  <2> HIDE DEF slash
  <2>3. name \in Seq(T)
    BY <2>1, <2>2
  <2> HIDE DEF name
  <2>4. whose \in Seq(T)
    BY <2>3
  <2> HIDE DEF whose
  <2>5. Failed \in Seq(T) /\ <<"/", "home">> \in Seq(T)
    BY DEF Failed
  <2>6. <<"/", "home">> \o whose \in Seq(T)
    BY <2>4, <2>5
  <2>7. value \in Seq(T)
    BY <2>5, <2>6 DEF Home
  <2>8. b \in Seq(T)
    BY <1>1, <1>4, <2>3
  <2> HIDE DEF value, b
  <2>9. a \o value \o b \in Seq(T)
    BY <2>1, <2>7, <2>8
  <2> QED
    BY <1>2, <1>4, <2>5, <2>9
<1> QED
  BY <1>3, <1>4

(* Expanding gives the text's tokens, the name's and what is looked up.    *)
LEMMA ExpandVarsType ==
    ASSUME NEW T, {"Failed", "/", "home", "host", "host.domain", "uid"} \subseteq T,
           NEW text \in Seq(T), NEW caller \in Seq(T), NEW host
    PROVE  ExpandVars(text, caller, host) \in Seq(T)
<1>1. /\ "Failed" \in T /\ "/" \in T /\ "home" \in T /\ "host" \in T
      /\ "host.domain" \in T /\ "uid" \in T
  OBVIOUS
<1> DEFINE M == Home(host, caller)
           H == Hostname(host, "host")
           F == Hostname(host, "host.domain")
           U == Uid(host, caller)
<1>2. H \in Seq(T) /\ F \in Seq(T)
  BY <1>1 DEF Hostname, Failed
<1>3. Failed \in Seq(T) /\ <<"uid">> \in Seq(T) /\ <<"/", "home">> \in Seq(T)
  BY <1>1 DEF Failed
<1>4. <<"uid">> \o caller \in Seq(T) /\ <<"/", "home">> \o caller \in Seq(T)
  BY <1>3
<1>5. U \in Seq(T) /\ M \in Seq(T)
  BY <1>3, <1>4 DEF Uid, Home
<1> HIDE DEF H, F, U, M
<1> DEFINE s == ExpandHomedir(text, caller, host)
           t == ExpandVar(s, "%h", M)
           a == ExpandVar(t, "%H", H)
           b == ExpandVar(a, "%u", caller)
           c == ExpandVar(b, "%f", F)
           d == ExpandVar(c, "%U", U)
<1>6. s \in Seq(T)
  BY <1>1, ExpandHomeType
<1> HIDE DEF s
<1>7. t \in Seq(T)
  BY <1>1, <1>5, <1>6, ExpandVarType
<1> HIDE DEF t
<1>8. a \in Seq(T)
  BY <1>1, <1>2, <1>7, ExpandVarType
<1> HIDE DEF a
<1>9. b \in Seq(T)
  BY <1>1, <1>8, ExpandVarType
<1> HIDE DEF b
<1>10. c \in Seq(T)
  BY <1>1, <1>2, <1>9, ExpandVarType
<1> HIDE DEF c
<1>11. d \in Seq(T)
  BY <1>1, <1>5, <1>10, ExpandVarType
<1>12. ExpandVars(text, caller, host) = d
  BY DEF ExpandVars, s, t, a, b, c, M, H, F, U
<1> QED
  BY <1>11, <1>12

(* No text is expanded to what stands for its absence.                     *)
LEMMA NeverNone ==
    ASSUME NEW text, NEW caller, NEW host, IsText(text), IsText(caller)
    PROVE  ExpandVars(text, caller, host) # None
<1> DEFINE T == (STRING \cup {"Failed", "/", "home", "host", "host.domain", "uid"})
                   \ {"None"}
<1>1. \A t : IsText(t) => t \in Seq(T)
  <2> SUFFICES ASSUME NEW t, IsText(t) PROVE t \in Seq(T)
    OBVIOUS
  <2>1. t \in Seq(STRING) /\ ~Holds(t, Markers)
    BY DEF IsText
  <2>2. \A j \in 1 .. Len(t) : t[j] \notin Markers
    BY <2>1, HoldsIs
  <2>3. \A j \in 1 .. Len(t) : t[j] \in T
    BY <2>1, <2>2 DEF Markers
  <2> HIDE DEF T
  <2> QED
    BY <2>1, <2>3
<1>2. {"Failed", "/", "home", "host", "host.domain", "uid"} \subseteq T
  OBVIOUS
<1>3. "None" \notin T
  OBVIOUS
<1> HIDE DEF T
<1>4. ExpandVars(text, caller, host) \in Seq(T)
  BY <1>1, <1>2, ExpandVarsType
<1>5. None \notin Seq(T)
  <2> SUFFICES ASSUME None \in Seq(T) PROVE FALSE
    OBVIOUS
  <2>1. Len(None) = 1 /\ None[1] = "None"
    BY DEF None
  <2>2. None[1] \in T
    <3>1. \A t \in Seq(T) : \A i \in 1 .. Len(t) : t[i] \in T
      OBVIOUS
    <3> QED
      BY <2>1, <3>1
  <2> QED
    BY <1>3, <2>1, <2>2
<1> QED
  BY <1>4, <1>5

----------------------------------------------------------------------------
(* What the parser makes of the options.                                   *)

(* The timeouts agent_timeout= may set, in seconds.                        *)
Timeouts == 1 .. 300

(* What the parser has made of the first n options.                        *)
Fits(p, list, n) ==
    /\ DOMAIN p = ArgsFields /\ p.ok \in BOOLEAN
    /\ p.strict = Strict(list)
    /\ p.shortcut => ~Strict(list)
                     \/ \E i \in 1 .. n : list[i].key = "sshd_shortcut"
    /\ p.ok => (p.authorized_keys_command_user = None <=>
                  \A i \in 1 .. n : list[i].key # "authorized_keys_command_user")
    /\ Strict(list) => p.agent_timeout \in Timeouts

(* What one option does to that.                                           *)
LEMMA OneOption ==
    ASSUME NEW a, NEW o, NEW name, NEW host,
           DOMAIN a = ArgsFields, a.ok \in BOOLEAN
    PROVE  LET b == ParseOption(a, o, name, host) IN
           /\ DOMAIN b = ArgsFields /\ b.ok \in BOOLEAN
           /\ b.strict = a.strict
           /\ b.shortcut => a.shortcut \/ o.key = "sshd_shortcut"
           /\ b.ok => a.ok
           /\ b.ok => b.authorized_keys_command_user =
                         IF o.key = "authorized_keys_command_user"
                           THEN ExpandVars(o.value, name, host)
                           ELSE a.authorized_keys_command_user
           /\ b.agent_timeout = a.agent_timeout \/ b.agent_timeout \in Timeouts
<1> DEFINE value == ExpandVars(o.value, name, host)
<1> HIDE DEF value
<1> SUFFICES ASSUME NEW b, b = ParseOption(a, o, name, host)
             PROVE  /\ DOMAIN b = ArgsFields /\ b.ok \in BOOLEAN
                    /\ b.strict = a.strict
                    /\ b.shortcut => a.shortcut \/ o.key = "sshd_shortcut"
                    /\ b.ok => a.ok
                    /\ b.ok => b.authorized_keys_command_user =
                                  IF o.key = "authorized_keys_command_user"
                                    THEN value ELSE a.authorized_keys_command_user
                    /\ \/ b.agent_timeout = a.agent_timeout
                       \/ b.agent_timeout \in Timeouts
  BY DEF value
<1>1. CASE ~a.ok
  <2>1. b = a
    BY <1>1 DEF ParseOption
  <2> QED
    BY <1>1, <2>1
<1>2. CASE b = [a EXCEPT !.ok = FALSE]
  BY <1>2 DEF ArgsFields, TextKeys
<1>3. CASE a.ok /\ o.key \in TextKeys
  <2>1. o.key \notin {"debug", "strict", "sshd_shortcut", "agent_timeout"}
    BY <1>3 DEF TextKeys
  <2>2. \/ b = [a EXCEPT !.ok = FALSE]
        \/ b = [a EXCEPT ![o.key] = value,
                         !.per_user = IF o.key = "file" THEN PerUser(a, o) ELSE @]
    BY <1>3, <2>1 DEF ParseOption, value
  <2>3. CASE b = [a EXCEPT ![o.key] = value,
                          !.per_user = IF o.key = "file" THEN PerUser(a, o) ELSE @]
    <3>1. /\ DOMAIN b = ArgsFields /\ b.ok = a.ok /\ b.strict = a.strict
          /\ b.shortcut = a.shortcut /\ b.agent_timeout = a.agent_timeout
      BY <1>3, <2>3 DEF ArgsFields, TextKeys
    <3>2. b.authorized_keys_command_user =
             IF o.key = "authorized_keys_command_user"
               THEN value ELSE a.authorized_keys_command_user
      BY <1>3, <2>3 DEF ArgsFields, TextKeys
    <3> QED
      BY <1>3, <3>1, <3>2
  <2> QED
    BY <1>2, <2>2, <2>3
<1>4. CASE a.ok /\ o.key \notin TextKeys
  <2>1. o.key # "authorized_keys_command_user"
    BY <1>4 DEF TextKeys
  <2>2. \/ b = [a EXCEPT !.ok = FALSE] \/ b = a \/ b = [a EXCEPT !.debug = TRUE]
        \/ o.key = "sshd_shortcut" /\ b = [a EXCEPT !.shortcut = TRUE]
        \/ o.seconds \in Timeouts /\ b = [a EXCEPT !.agent_timeout = o.seconds]
    BY <1>4 DEF ParseOption, TimeoutInRange, Timeouts
  <2>3. CASE b = a
    BY <1>4, <2>1, <2>3
  <2>4. CASE b = [a EXCEPT !.debug = TRUE]
    BY <1>4, <2>1, <2>4 DEF ArgsFields, TextKeys
  <2>5. CASE o.key = "sshd_shortcut" /\ b = [a EXCEPT !.shortcut = TRUE]
    BY <1>4, <2>1, <2>5 DEF ArgsFields, TextKeys
  <2>6. CASE o.seconds \in Timeouts /\ b = [a EXCEPT !.agent_timeout = o.seconds]
    BY <1>4, <2>1, <2>6 DEF ArgsFields, TextKeys
  <2> QED
    BY <1>2, <2>2, <2>3, <2>4, <2>5, <2>6
<1> QED
  BY <1>1, <1>3, <1>4

(* So it is after any number of options, ...                               *)
LEMMA ProgressFits ==
    ASSUME NEW list \in Seq(OptionType), \A i \in DOMAIN list : IsOption(list[i]),
           NEW name, IsText(name), NEW host
    PROVE  \A n \in 0 .. Len(list) : Fits(Progress(list, name, host)[n], list, n)
<1> DEFINE m == Len(list)
           p == Progress(list, name, host)
           N == {n \in Nat : n <= m => Fits(p[n], list, n)}
<1>1. /\ p[0] = Defaults(Strict(list))
      /\ \A n \in 1 .. m : p[n] = ParseOption(p[n - 1], list[n], name, host)
  BY ProgressIs
<1>2. m \in Nat /\ \A i \in 1 .. m : IsOption(list[i])
  OBVIOUS
<1> HIDE DEF p, m
<1>3. 0 \in N
  <2> DEFINE d == Defaults(Strict(list))
  <2>1. /\ DOMAIN d = ArgsFields /\ d.strict = Strict(list)
        /\ d.authorized_keys_command_user = None
    BY DEF Defaults, ArgsFields, TextKeys
  <2>2. d.ok \in BOOLEAN
    BY DEF Defaults
  <2>3. d.shortcut => ~Strict(list)
    BY DEF Defaults, DefaultShortcut
  <2>4. Strict(list) => d.agent_timeout \in Timeouts
    <3>1. Strict(list) => d.agent_timeout = 30
      BY DEF Defaults, DefaultTimeout
    <3>2. 30 \in Timeouts
      BY DEF Timeouts
    <3> QED
      BY <3>1, <3>2
  <2> HIDE DEF d
  <2>5. Fits(d, list, 0)
    BY <2>1, <2>2, <2>3, <2>4 DEF Fits
  <2> QED
    BY <1>1, <2>5 DEF d
<1>4. \A n \in Nat : n \in N => n + 1 \in N
  <2> SUFFICES ASSUME NEW n \in Nat, n \in N, n + 1 <= m
               PROVE  Fits(p[n + 1], list, n + 1)
    OBVIOUS
  <2> DEFINE o == list[n + 1]
             a == p[n]
             b == p[n + 1]
             value == ExpandVars(o.value, name, host)
  <2>1. n + 1 \in 1 .. m /\ (n + 1) - 1 = n /\ Fits(a, list, n)
    BY <1>2
  <2>2. b = ParseOption(a, o, name, host) /\ IsOption(o)
    BY <1>1, <1>2, <2>1
  <2>3. value # None
    BY <2>2, NeverNone DEF IsOption
  <2>5. DOMAIN a = ArgsFields /\ a.ok \in BOOLEAN
    BY <2>1 DEF Fits
  <2> HIDE DEF a, b, value
  <2>6. /\ DOMAIN b = ArgsFields /\ b.ok \in BOOLEAN
        /\ b.strict = a.strict
        /\ b.shortcut => a.shortcut \/ o.key = "sshd_shortcut"
        /\ b.ok => a.ok
        /\ b.ok => b.authorized_keys_command_user =
                      IF o.key = "authorized_keys_command_user"
                        THEN value ELSE a.authorized_keys_command_user
        /\ b.agent_timeout = a.agent_timeout \/ b.agent_timeout \in Timeouts
    BY <2>2, <2>5, OneOption DEF value
  <2>7. b.shortcut => ~Strict(list)
                      \/ \E i \in 1 .. n + 1 : list[i].key = "sshd_shortcut"
    BY <2>1, <2>6 DEF Fits
  <2>8. \A i \in 1 .. n + 1 : i \in 1 .. n \/ i = n + 1
    OBVIOUS
  <2>9. 1 .. n \subseteq 1 .. n + 1 /\ n + 1 \in 1 .. n + 1
    OBVIOUS
  <2>10. b.ok => (b.authorized_keys_command_user = None <=>
                 \A i \in 1 .. n + 1 : list[i].key # "authorized_keys_command_user")
    BY <2>1, <2>3, <2>6, <2>8, <2>9 DEF Fits
  <2>11. b.strict = Strict(list) /\ (Strict(list) => b.agent_timeout \in Timeouts)
    BY <2>1, <2>6 DEF Fits
  <2>12. Fits(b, list, n + 1)
    BY <2>6, <2>7, <2>10, <2>11 DEF Fits
  <2> QED
    BY <2>12 DEF b
<1> HIDE DEF N
<1>5. Nat \subseteq N
  BY <1>3, <1>4, Induct
<1> QED
  BY <1>2, <1>5 DEF N, m, p

(* ... and after them all.                                                 *)
LEMMA Parsed ==
    ASSUME NEW list \in Seq(OptionType), \A i \in DOMAIN list : IsOption(list[i]),
           NEW name, IsText(name), NEW host, Parse(list, name, host).ok
    PROVE  Fits(Parse(list, name, host), list, Len(list))
<1> DEFINE p == Progress(list, name, host)[Len(list)]
<1>1. Len(list) \in 0 .. Len(list)
  OBVIOUS
<1>2. Fits(p, list, Len(list))
  BY <1>1, ProgressFits
<1> HIDE DEF p
<1>3. Parse(list, name, host) = Conclude(p)
  BY DEF Parse, p
<1>4. /\ DOMAIN Conclude(p) = ArgsFields
      /\ Conclude(p).ok \in BOOLEAN
      /\ Conclude(p).ok => p.ok
      /\ \A field \in ArgsFields \ {"ok"} : Conclude(p)[field] = p[field]
  BY <1>2 DEF Fits, Conclude, ArgsFields, TextKeys
<1>5. /\ Conclude(p)["strict"] = p["strict"] /\ Conclude(p)["shortcut"] = p["shortcut"]
      /\ Conclude(p)["authorized_keys_command_user"] =
            p["authorized_keys_command_user"]
      /\ Conclude(p)["agent_timeout"] = p["agent_timeout"]
  BY <1>4 DEF ArgsFields, TextKeys
<1> DEFINE c == Conclude(p)
<1> HIDE DEF c
<1>6. Fits(c, list, Len(list))
  BY <1>2, <1>3, <1>4, <1>5 DEF Fits, c
<1> QED
  BY <1>3, <1>6 DEF c

----------------------------------------------------------------------------
(* The shortcut and the helper's user.                                     *)

(* A user for the helper is in the record just if it is in the options.    *)
NamesHelper ==
    args.authorized_keys_command_user = None <=>
        \A i \in DOMAIN options : options[i].key # "authorized_keys_command_user"

(* Where there is a record of the options.                                 *)
ParsedPcs == {"strict_user", "strict_helper", "files", "lookup", "helper", "shortcut",
              "path", "connect", "agent"}

(* From its parsing on the record is as the options are.                   *)
ArgsInv ==
    pc \in ParsedPcs =>
        /\ args.strict = Strict(options)
        /\ args.shortcut /\ HasFlag("strict") => HasFlag("sshd_shortcut")
        /\ NamesHelper
        /\ HasFlag("strict") => args.agent_timeout > 0

(* What is parsed is as the options are.                                   *)
LEMMA ParseStep == TypeOK /\ ParseArgs /\ pc' # "return" => ArgsInv'
<1> SUFFICES ASSUME TypeOK, ParseArgs, pc' # "return" PROVE ArgsInv'
  OBVIOUS
<1>0. PICK hostname \in BOOLEAN :
         LET env == [accounts |-> {u \in Users : Known(u)}, hostname |-> hostname]
             parsed == Parse(options, user, env)
         IN  IF parsed.ok THEN args' = parsed /\ options' = options ELSE Fails
  BY DEF ParseArgs, request
<1> DEFINE host == [accounts |-> {u \in Users : Known(u)}, hostname |-> hostname]
           p == Parse(options, user, host)
<1>1. p.ok /\ args' = p /\ options' = options
  BY <1>0 DEF Fails, Leaves
<1>2. /\ options \in Seq(OptionType) /\ IsText(user)
      /\ \A i \in DOMAIN options : IsOption(options[i])
  BY PamModuleAssumption DEF PamModuleAssumption, TypeOK
<1> HIDE DEF host
<1>3. Fits(p, options, Len(options))
  BY <1>1, <1>2, Parsed
<1> HIDE DEF p
<1>4. DOMAIN options = 1 .. Len(options)
  BY <1>2
<1>5. args'.strict = Strict(options)
  BY <1>1, <1>3 DEF Fits
<1>6. args'.authorized_keys_command_user = None <=>
         \A i \in DOMAIN options : options[i].key # "authorized_keys_command_user"
  BY <1>1, <1>3, <1>4 DEF Fits
<1>7. ASSUME args'.shortcut, HasFlag("strict") PROVE HasFlag("sshd_shortcut")
  <2>1. Strict(options)
    BY <1>4, <1>7 DEF HasFlag, Strict, Contains
  <2>2. PICK i \in DOMAIN options : options[i].key = "sshd_shortcut"
    BY <1>1, <1>3, <1>4, <1>7, <2>1 DEF Fits
  <2>3. options[i] = Flag("sshd_shortcut")
    BY <1>2, <2>2 DEF IsOption
  <2> QED
    BY <2>3 DEF HasFlag
<1>8. ASSUME HasFlag("strict") PROVE args'.agent_timeout > 0
  <2>1. Strict(options)
    BY <1>4, <1>8 DEF HasFlag, Strict, Contains
  <2>2. args'.agent_timeout \in Timeouts
    BY <1>1, <1>3, <2>1 DEF Fits
  <2> QED
    BY <2>2 DEF Timeouts
<1> QED
  BY <1>1, <1>5, <1>6, <1>7, <1>8 DEF ArgsInv, HasFlag, NamesHelper

(* The record and the options stay as they are.                            *)
LEMMA ArgsStep == TypeOK /\ ArgsInv /\ [Next]_vars => ArgsInv'
<1> SUFFICES ASSUME TypeOK, ArgsInv, [Next]_vars PROVE ArgsInv'
  OBVIOUS
<1> USE DEF Goto, Leaves, Fails, Answer, request, state
<1>1. CASE ParseArgs
  <2>1. CASE pc' = "return"
    BY <2>1 DEF ArgsInv, ParsedPcs
  <2> QED
    BY <1>1, <2>1, ParseStep
<1>2. CASE pc' \notin ParsedPcs
  BY <1>2 DEF ArgsInv
<1>3. CASE pc \in ParsedPcs /\ args' = args /\ options' = options
  BY <1>3 DEF ArgsInv, HasFlag, NamesHelper
<1>4. CASE InvokeHook \/ Context \/ InitLogging \/ GetPath \/ Connect
  BY <1>2, <1>3, <1>4
  DEF InvokeHook, Context, InitLogging, GetPath, Connect, ParsedPcs
<1>5. CASE StrictUser \/ StrictHelper \/ ReadFiles
  BY <1>2, <1>3, <1>5 DEF StrictUser, StrictHelper, ReadFiles, ParsedPcs
<1>6. CASE LookupHelper \/ RunHelper \/ Shortcut \/ Authenticate
  BY <1>2, <1>3, <1>6 DEF LookupHelper, RunHelper, Shortcut, Authenticate, ParsedPcs
<1>7. CASE SmAuthenticate \/ Panic
  BY <1>2, <1>7 DEF SmAuthenticate, Panic, ParsedPcs
<1>8. CASE ChangeAccount \/ Over \/ UNCHANGED vars
  BY <1>2, <1>3, <1>8 DEF ChangeAccount, Over, vars
<1> QED
  BY <1>1, <1>4, <1>5, <1>6, <1>7, <1>8 DEF Next, Local, AgentSteps

(* What sshd vouches for was vouched for where the shortcut applies.       *)
VouchedInv ==
    proof.by = "sshd" =>
        service = "sshd" /\ (HasFlag("strict") => HasFlag("sshd_shortcut"))

(* What sshd has verified only counts where the shortcut is meant to apply,
   whatever the list of options and wherever in it the flags stand.        *)
THEOREM ShortcutOnlyAsMeant == Spec => []ShortcutMeant
<1>1. Init => ArgsInv /\ VouchedInv
  BY DEF Init, ArgsInv, ParsedPcs, VouchedInv, NoProof
<1>2. TypeOK /\ ArgsInv /\ VouchedInv /\ [Next]_vars => VouchedInv'
  <2> SUFFICES ASSUME TypeOK, ArgsInv, VouchedInv, [Next]_vars PROVE VouchedInv'
    OBVIOUS
  <2> USE DEF Goto, Leaves, Fails, Answer, request, state
  <2>1. service' = service /\ options' = options
    <3>1. CASE InvokeHook \/ Context \/ InitLogging \/ ParseArgs \/ StrictUser
      BY <3>1 DEF InvokeHook, Context, InitLogging, ParseArgs, StrictUser
    <3>2. CASE StrictHelper \/ ReadFiles \/ LookupHelper \/ RunHelper
      BY <3>2 DEF StrictHelper, ReadFiles, LookupHelper, RunHelper
    <3>3. CASE Shortcut \/ GetPath \/ SmAuthenticate \/ Connect \/ Authenticate \/ Panic
      BY <3>3 DEF Shortcut, GetPath, SmAuthenticate, Connect, Authenticate, Panic
    <3>4. CASE ChangeAccount \/ Over \/ UNCHANGED vars
      BY <3>4 DEF ChangeAccount, Over, vars
    <3> QED
      BY <3>1, <3>2, <3>3, <3>4 DEF Next, Local, AgentSteps
  <2>2. CASE proof' = proof
    BY <2>1, <2>2 DEF VouchedInv, HasFlag
  <2>3. CASE Shortcut /\ proof' # proof
    <3>1. pc = "shortcut" /\ args.shortcut /\ service = "sshd"
      BY <2>3 DEF Shortcut, ShortcutApplies
    <3>2. HasFlag("strict") => HasFlag("sshd_shortcut")
      BY <3>1 DEF ArgsInv, ParsedPcs
    <3> QED
      BY <2>1, <3>1, <3>2 DEF VouchedInv, HasFlag
  <2>4. CASE Authenticate /\ proof' # proof
    <3>1. proof'.by = "agent"
      BY <2>4 DEF Authenticate
    <3> QED
      BY <3>1 DEF VouchedInv
  <2>5. CASE InvokeHook \/ Context \/ InitLogging \/ ParseArgs \/ StrictUser
    BY <2>2, <2>5 DEF InvokeHook, Context, InitLogging, ParseArgs, StrictUser
  <2>6. CASE StrictHelper \/ ReadFiles \/ LookupHelper \/ RunHelper
    BY <2>2, <2>6 DEF StrictHelper, ReadFiles, LookupHelper, RunHelper
  <2>7. CASE GetPath \/ SmAuthenticate \/ Connect \/ Panic
    BY <2>2, <2>7 DEF GetPath, SmAuthenticate, Connect, Panic
  <2>8. CASE ChangeAccount \/ Over \/ UNCHANGED vars
    BY <2>2, <2>8 DEF ChangeAccount, Over, vars
  <2> QED
    BY <2>2, <2>3, <2>4, <2>5, <2>6, <2>7, <2>8 DEF Next, Local, AgentSteps
<1>3. VouchedInv => ShortcutMeant
  BY DEF VouchedInv, ShortcutMeant
<1> QED
  BY <1>1, <1>2, <1>3, Typing, ArgsStep, PTL DEF Spec

(* Before the helper's account has been looked up.                         *)
EarlyPcs == {"hook", "context", "logging", "parse", "strict_user", "strict_helper",
             "files", "lookup"}

(* The helper's uid is that of the user the options name, or else of the
   calling user, as long as no account has changed.                        *)
UidInv ==
    /\ pc \in EarlyPcs => helper_uid = "none" /\ ran = "none"
    /\ ran # "none" => ran = helper_uid
    /\ helper_uid # "none" =>
          NamesHelper /\ (~changed => helper_uid = accounts[HelperUser].uid)

(* Whichever options and accounts there are, the helper is run as the user
   the options name, and as the calling user if they name none.            *)
THEOREM HelperRunsAsNamed == Spec => []HelperRunsAs
<1>1. Init => ArgsInv /\ UidInv
  BY DEF Init, ArgsInv, ParsedPcs, EarlyPcs, UidInv
<1>2. TypeOK /\ ArgsInv /\ UidInv /\ [Next]_vars => UidInv'
  <2> SUFFICES ASSUME TypeOK, ArgsInv, UidInv, [Next]_vars PROVE UidInv'
    OBVIOUS
  <2> USE DEF Goto, Leaves, Fails, Answer, request, state, HelperUser, NamesHelper,
              EarlyPcs
  <2>1. CASE /\ pc \in EarlyPcs \/ pc' \notin EarlyPcs
             /\ UNCHANGED <<request, args, helper_uid, ran>>
    BY <2>1 DEF UidInv
  <2>2. CASE InvokeHook \/ Context \/ InitLogging
    BY <2>2 DEF InvokeHook, Context, InitLogging, UidInv
  <2>3. CASE ParseArgs
    <3>1. helper_uid' = "none" /\ ran' = "none"
      BY <2>3 DEF ParseArgs, UidInv
    <3> QED
      BY <3>1 DEF UidInv
  <2>4. CASE StrictUser \/ StrictHelper \/ ReadFiles
    BY <2>1, <2>4 DEF StrictUser, StrictHelper, ReadFiles
  <2>5. CASE LookupHelper
    <3>1. pc = "lookup" /\ NamesHelper
      BY <2>5 DEF LookupHelper, ArgsInv, ParsedPcs
    <3>2. CASE Known(HelperUser)
      <4>1. /\ helper_uid' = accounts[HelperUser].uid /\ pc' = "helper"
            /\ UNCHANGED <<request, args, ran>>
        BY <2>5, <3>2 DEF LookupHelper
      <4> QED
        BY <3>1, <4>1 DEF UidInv
    <3>3. CASE ~Known(HelperUser)
      BY <2>1, <2>5, <3>3 DEF LookupHelper
    <3> QED
      BY <3>2, <3>3
  <2>6. CASE RunHelper
    <3>1. /\ pc' \in {"shortcut", "return"} /\ ran' \in {ran, helper_uid}
          /\ UNCHANGED <<request, args, helper_uid>>
      BY <2>6 DEF RunHelper
    <3> QED
      BY <3>1 DEF UidInv
  <2>7. CASE Shortcut \/ GetPath \/ Connect \/ Authenticate
    BY <2>1, <2>7 DEF Shortcut, GetPath, Connect, Authenticate
  <2>8. CASE SmAuthenticate \/ Panic
    BY <2>1, <2>8 DEF SmAuthenticate, Panic
  <2>9. CASE ChangeAccount
    BY <2>9 DEF ChangeAccount, UidInv
  <2>10. CASE Over \/ UNCHANGED vars
    BY <2>10 DEF Over, vars, UidInv
  <2> QED
    BY <2>2, <2>3, <2>4, <2>5, <2>6, <2>7, <2>8, <2>9, <2>10 DEF Next, Local, AgentSteps
<1>3. UidInv => HelperRunsAs
  BY DEF UidInv, NamesHelper, HelperUser, HelperRunsAs
<1> QED
  BY <1>1, <1>2, <1>3, Typing, ArgsStep, PTL DEF Spec
----------------------------------------------------------------------------
(* A strict request is answered.                                           *)

(* The most steps a request has ahead of it.                               *)
Left ==
    CASE pc = "hook" -> 14 [] pc = "context" -> 13 [] pc = "logging" -> 12
      [] pc = "parse" -> 11 [] pc = "strict_user" -> 10
      [] pc = "strict_helper" -> 9 [] pc = "files" -> 8 [] pc = "lookup" -> 7
      [] pc = "helper" -> 6 [] pc = "shortcut" -> 5 [] pc = "path" -> 4
      [] pc = "connect" -> 3 [] pc = "agent" -> 2 [] pc = "return" -> 1
      [] OTHER -> 0

(* A strict request that is no more than n steps from its answer.          *)
Within(n) == HasFlag("strict") => Left <= n

(* The numbers of steps with the agent to come, and those without.         *)
AgentRanks == {2, 3}
LocalRanks == (1 .. 14) \ AgentRanks

(* A step brings the request closer to its answer, or is none of its own.  *)
LEMMA Nearer ==
    ASSUME TypeOK, [Next]_vars
    PROVE  Left' < Left \/ UNCHANGED pc
<1> USE DEF Goto, Leaves, Fails, Answer, Left
<1>1. CASE InvokeHook \/ Context \/ InitLogging \/ GetPath \/ Connect
  BY <1>1 DEF InvokeHook, Context, InitLogging, GetPath, Connect
<1>2. CASE ParseArgs
  BY <1>2 DEF ParseArgs, AfterParse
<1>3. CASE StrictUser \/ StrictHelper \/ ReadFiles
  BY <1>3 DEF StrictUser, StrictHelper, ReadFiles
<1>4. CASE LookupHelper \/ RunHelper
  BY <1>4 DEF LookupHelper, RunHelper
<1>5. CASE Shortcut \/ Authenticate \/ SmAuthenticate
  BY <1>5 DEF Shortcut, Authenticate, SmAuthenticate
<1>6. CASE Panic
  BY <1>6 DEF Panic, TypeOK, Pcs
<1>7. CASE ChangeAccount \/ Over \/ UNCHANGED vars
  BY <1>7 DEF ChangeAccount, Over, vars
<1> QED
  BY <1>1, <1>2, <1>3, <1>4, <1>5, <1>6, <1>7 DEF Next, Local, AgentSteps

(* It keeps to the options it was made with.                               *)
LEMMA SameOptions ==
    ASSUME [Next]_vars
    PROVE  options' = options
<1> USE DEF Goto, Leaves, Fails, Answer, request
<1>1. CASE InvokeHook \/ Context \/ InitLogging \/ ParseArgs \/ StrictUser
  BY <1>1 DEF InvokeHook, Context, InitLogging, ParseArgs, StrictUser
<1>2. CASE StrictHelper \/ ReadFiles \/ LookupHelper \/ RunHelper
  BY <1>2 DEF StrictHelper, ReadFiles, LookupHelper, RunHelper
<1>3. CASE Shortcut \/ GetPath \/ SmAuthenticate \/ Connect \/ Authenticate \/ Panic
  BY <1>3 DEF Shortcut, GetPath, SmAuthenticate, Connect, Authenticate, Panic
<1>4. CASE ChangeAccount \/ Over \/ UNCHANGED vars
  BY <1>4 DEF ChangeAccount, Over, vars
<1> QED
  BY <1>1, <1>2, <1>3, <1>4 DEF Next, Local, AgentSteps

(* Every step the fairness is about moves the request.                     *)
LEMMA Moves ==
    ASSUME TypeOK, <<Local>>_vars \/ <<AgentSteps>>_vars
    PROVE  pc' # pc
<1> USE DEF Goto, Leaves, Fails, Answer
<1>1. CASE InvokeHook \/ Context \/ InitLogging \/ GetPath \/ Connect
  BY <1>1 DEF InvokeHook, Context, InitLogging, GetPath, Connect
<1>2. CASE ParseArgs
  BY <1>2 DEF ParseArgs, AfterParse
<1>3. CASE StrictUser \/ StrictHelper \/ ReadFiles
  BY <1>3 DEF StrictUser, StrictHelper, ReadFiles
<1>4. CASE LookupHelper \/ RunHelper
  BY <1>4 DEF LookupHelper, RunHelper
<1>5. CASE Shortcut \/ Authenticate \/ SmAuthenticate
  BY <1>5 DEF Shortcut, Authenticate, SmAuthenticate
<1> QED
  BY <1>1, <1>2, <1>3, <1>4, <1>5 DEF Local, AgentSteps

(* So the request stays within n steps of its answer, and a step of its own
   brings it within one less.                                              *)
LEMMA Descends ==
    ASSUME NEW n \in 1 .. 14, NEW m, m = n - 1, TypeOK, Within(n), [Next]_vars
    PROVE  /\ Within(n)'
           /\ <<Local>>_vars \/ <<AgentSteps>>_vars => Within(m)'
<1>1. HasFlag("strict")' <=> HasFlag("strict")
  BY SameOptions DEF HasFlag
<1>2. Left \in 0 .. 14 /\ Left' \in 0 .. 14
  BY DEF Left
<1>3. Left' < Left \/ Left' = Left
  BY Nearer DEF Left
<1>4. <<Local>>_vars \/ <<AgentSteps>>_vars => Left' < Left
  BY Nearer, Moves
<1> QED
  BY <1>1, <1>2, <1>3, <1>4 DEF Within

(* It waits at a step of its own, or with a timeout for the agent.         *)
LEMMA Waits ==
    ASSUME NEW n \in 1 .. 14, NEW m, m = n - 1, TypeOK, ArgsInv, Within(n)
    PROVE  /\ n \in LocalRanks => Within(m) \/ pc \in LocalPcs
           /\ n \in AgentRanks => Within(m) \/ Bounded
<1> SUFFICES ASSUME HasFlag("strict"), Left = n
             PROVE  /\ n \in LocalRanks => pc \in LocalPcs
                    /\ n \in AgentRanks => Bounded
  <2>1. Left \in 0 .. 14
    BY DEF Left
  <2> QED
    BY <2>1 DEF Within
<1>1. n \in LocalRanks => pc \in LocalPcs
  BY DEF Left, LocalRanks, AgentRanks, LocalPcs, TypeOK, Pcs
<1>2. n \in AgentRanks => pc \in {"connect", "agent"}
  BY DEF Left, AgentRanks
<1> QED
  BY <1>1, <1>2 DEF Bounded, ArgsInv, ParsedPcs

(* With the agent bounded by its timeout, which strict mode always sets, a
   strict request is answered, whatever the agent does.                    *)
THEOREM StrictIsAnswered == FairSpec => StrictAnswered
<1> DEFINE Safe == TypeOK /\ ArgsInv
<1>1. Spec => []Safe
  <2>1. Init => ArgsInv
    BY DEF Init, ArgsInv, ParsedPcs
  <2> QED
    BY <2>1, Typing, ArgsStep, PTL DEF Spec
<1>2. FairSpec => (Within(14) ~> Within(13))
  <2>1. /\ Safe /\ Within(14) /\ [Next]_vars => Within(14)'
        /\ Safe /\ Within(14) /\ <<Next /\ Local>>_vars => Within(13)'
    BY Descends
  <2>2. Safe /\ Within(14) => Within(13) \/ ~(pc \notin LocalPcs)
    BY Waits DEF LocalRanks, AgentRanks
  <2> QED
    BY <1>1, <2>1, <2>2, PTL DEF FairSpec, Spec, Fairness
<1>3. FairSpec => (Within(13) ~> Within(12))
  <2>1. /\ Safe /\ Within(13) /\ [Next]_vars => Within(13)'
        /\ Safe /\ Within(13) /\ <<Next /\ Local>>_vars => Within(12)'
    BY Descends
  <2>2. Safe /\ Within(13) => Within(12) \/ ~(pc \notin LocalPcs)
    BY Waits DEF LocalRanks, AgentRanks
  <2> QED
    BY <1>1, <2>1, <2>2, PTL DEF FairSpec, Spec, Fairness
<1>4. FairSpec => (Within(12) ~> Within(11))
  <2>1. /\ Safe /\ Within(12) /\ [Next]_vars => Within(12)'
        /\ Safe /\ Within(12) /\ <<Next /\ Local>>_vars => Within(11)'
    BY Descends
  <2>2. Safe /\ Within(12) => Within(11) \/ ~(pc \notin LocalPcs)
    BY Waits DEF LocalRanks, AgentRanks
  <2> QED
    BY <1>1, <2>1, <2>2, PTL DEF FairSpec, Spec, Fairness
<1>5. FairSpec => (Within(11) ~> Within(10))
  <2>1. /\ Safe /\ Within(11) /\ [Next]_vars => Within(11)'
        /\ Safe /\ Within(11) /\ <<Next /\ Local>>_vars => Within(10)'
    BY Descends
  <2>2. Safe /\ Within(11) => Within(10) \/ ~(pc \notin LocalPcs)
    BY Waits DEF LocalRanks, AgentRanks
  <2> QED
    BY <1>1, <2>1, <2>2, PTL DEF FairSpec, Spec, Fairness
<1>6. FairSpec => (Within(10) ~> Within(9))
  <2>1. /\ Safe /\ Within(10) /\ [Next]_vars => Within(10)'
        /\ Safe /\ Within(10) /\ <<Next /\ Local>>_vars => Within(9)'
    BY Descends
  <2>2. Safe /\ Within(10) => Within(9) \/ ~(pc \notin LocalPcs)
    BY Waits DEF LocalRanks, AgentRanks
  <2> QED
    BY <1>1, <2>1, <2>2, PTL DEF FairSpec, Spec, Fairness
<1>7. FairSpec => (Within(9) ~> Within(8))
  <2>1. /\ Safe /\ Within(9) /\ [Next]_vars => Within(9)'
        /\ Safe /\ Within(9) /\ <<Next /\ Local>>_vars => Within(8)'
    BY Descends
  <2>2. Safe /\ Within(9) => Within(8) \/ ~(pc \notin LocalPcs)
    BY Waits DEF LocalRanks, AgentRanks
  <2> QED
    BY <1>1, <2>1, <2>2, PTL DEF FairSpec, Spec, Fairness
<1>8. FairSpec => (Within(8) ~> Within(7))
  <2>1. /\ Safe /\ Within(8) /\ [Next]_vars => Within(8)'
        /\ Safe /\ Within(8) /\ <<Next /\ Local>>_vars => Within(7)'
    BY Descends
  <2>2. Safe /\ Within(8) => Within(7) \/ ~(pc \notin LocalPcs)
    BY Waits DEF LocalRanks, AgentRanks
  <2> QED
    BY <1>1, <2>1, <2>2, PTL DEF FairSpec, Spec, Fairness
<1>9. FairSpec => (Within(7) ~> Within(6))
  <2>1. /\ Safe /\ Within(7) /\ [Next]_vars => Within(7)'
        /\ Safe /\ Within(7) /\ <<Next /\ Local>>_vars => Within(6)'
    BY Descends
  <2>2. Safe /\ Within(7) => Within(6) \/ ~(pc \notin LocalPcs)
    BY Waits DEF LocalRanks, AgentRanks
  <2> QED
    BY <1>1, <2>1, <2>2, PTL DEF FairSpec, Spec, Fairness
<1>10. FairSpec => (Within(6) ~> Within(5))
  <2>1. /\ Safe /\ Within(6) /\ [Next]_vars => Within(6)'
        /\ Safe /\ Within(6) /\ <<Next /\ Local>>_vars => Within(5)'
    BY Descends
  <2>2. Safe /\ Within(6) => Within(5) \/ ~(pc \notin LocalPcs)
    BY Waits DEF LocalRanks, AgentRanks
  <2> QED
    BY <1>1, <2>1, <2>2, PTL DEF FairSpec, Spec, Fairness
<1>11. FairSpec => (Within(5) ~> Within(4))
  <2>1. /\ Safe /\ Within(5) /\ [Next]_vars => Within(5)'
        /\ Safe /\ Within(5) /\ <<Next /\ Local>>_vars => Within(4)'
    BY Descends
  <2>2. Safe /\ Within(5) => Within(4) \/ ~(pc \notin LocalPcs)
    BY Waits DEF LocalRanks, AgentRanks
  <2> QED
    BY <1>1, <2>1, <2>2, PTL DEF FairSpec, Spec, Fairness
<1>12. FairSpec => (Within(4) ~> Within(3))
  <2>1. /\ Safe /\ Within(4) /\ [Next]_vars => Within(4)'
        /\ Safe /\ Within(4) /\ <<Next /\ Local>>_vars => Within(3)'
    BY Descends
  <2>2. Safe /\ Within(4) => Within(3) \/ ~(pc \notin LocalPcs)
    BY Waits DEF LocalRanks, AgentRanks
  <2> QED
    BY <1>1, <2>1, <2>2, PTL DEF FairSpec, Spec, Fairness
<1>13. FairSpec => (Within(3) ~> Within(2))
  <2>1. /\ Safe /\ Within(3) /\ [Next]_vars => Within(3)'
        /\ Safe /\ Within(3) /\ <<Next /\ AgentSteps>>_vars => Within(2)'
    BY Descends
  <2>2. Safe /\ Within(3) => Within(2) \/ Bounded
    BY Waits DEF LocalRanks, AgentRanks
  <2> QED
    BY <1>1, <2>1, <2>2, PTL DEF FairSpec, Spec, Fairness
<1>14. FairSpec => (Within(2) ~> Within(1))
  <2>1. /\ Safe /\ Within(2) /\ [Next]_vars => Within(2)'
        /\ Safe /\ Within(2) /\ <<Next /\ AgentSteps>>_vars => Within(1)'
    BY Descends
  <2>2. Safe /\ Within(2) => Within(1) \/ Bounded
    BY Waits DEF LocalRanks, AgentRanks
  <2> QED
    BY <1>1, <2>1, <2>2, PTL DEF FairSpec, Spec, Fairness
<1>15. FairSpec => (Within(1) ~> Within(0))
  <2>1. /\ Safe /\ Within(1) /\ [Next]_vars => Within(1)'
        /\ Safe /\ Within(1) /\ <<Next /\ Local>>_vars => Within(0)'
    BY Descends
  <2>2. Safe /\ Within(1) => Within(0) \/ ~(pc \notin LocalPcs)
    BY Waits DEF LocalRanks, AgentRanks
  <2> QED
    BY <1>1, <2>1, <2>2, PTL DEF FairSpec, Spec, Fairness
<1>16. Safe => Within(14)
  BY DEF Within, Left
<1>17. Safe /\ Within(0) => (HasFlag("strict") => code # "none")
  BY DEF Within, Left, TypeOK, Pcs
<1>18. HasFlag("strict") /\ [Next]_vars => HasFlag("strict")'
  BY SameOptions DEF HasFlag
<1> QED
  BY <1>1, <1>2, <1>3, <1>4, <1>5, <1>6, <1>7, <1>8, <1>9, <1>10, <1>11, <1>12,
     <1>13, <1>14, <1>15, <1>16, <1>17, <1>18, PTL
  DEF Spec, FairSpec, StrictAnswered
============================================================================
