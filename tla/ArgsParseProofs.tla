-------------------------- MODULE ArgsParseProofs --------------------------
(***************************************************************************)
(* What strict mode makes of the options, for every menu of options, every *)
(* list of them and every set of users:                                    *)
(*                                                                         *)
(*   - a file for every plain name (FileOfOneUser): %u is expanded to the  *)
(*     name, and the name can be read off what has become of the text;     *)
(*   - a helper that stands in the configuration (HelperFixed), and no     *)
(*     directory of a user's in a source of trust (NoHomeTrusted);         *)
(*   - nothing but refusals (StrictAddsNothing), wherever strict stands in *)
(*     the list (StrictGovernsAll).                                        *)
(*                                                                         *)
(* The induction is over the options: the loop's, where the invariant is   *)
(* about a state of the loop, and Induct, where it is about the recursive  *)
(* functions Progress and Others.                                          *)
(***************************************************************************)
EXTENDS ArgsParse, SequenceTheorems, WellFoundedInduction, TLAPS

----------------------------------------------------------------------------
(* Numbers, positions and what a text holds.                               *)

(* A set of numbers has a least one.                                       *)
LEMMA Least ==
    ASSUME NEW T \in SUBSET Nat, T # {}
    PROVE  \E n \in T : \A m \in T : n <= m
<1> DEFINE R == OpToRel(<, Nat)
<1>1. PICK n \in T : \A y \in T : ~(<<y, n>> \in R)
  <2>1. IsWellFoundedOn(R, Nat)
    BY NatLessThanWellFounded
  <2> HIDE DEF R
  <2> QED
    BY <2>1, WFMin
<1>2. \A y \in T : y < n => <<y, n>> \in R
  <2> SUFFICES ASSUME NEW y \in T, y < n PROVE <<y, n>> \in R
    OBVIOUS
  <2>1. <<y, n>> \in Nat \X Nat
    OBVIOUS
  <2> QED
    BY <2>1 DEF OpToRel
<1> HIDE DEF R
<1>3. \A y \in T : ~(y < n)
  BY <1>1, <1>2
<1> QED
  BY <1>3

(* A set that holds 0 and what follows each of its numbers holds them all. *)
LEMMA Induct ==
    ASSUME NEW S, 0 \in S, \A n \in Nat : n \in S => n + 1 \in S
    PROVE  Nat \subseteq S
<1> SUFFICES ASSUME Nat \ S # {} PROVE FALSE
  OBVIOUS
<1>1. PICK n \in Nat \ S : \A m \in Nat \ S : n <= m
  BY Least
<1>2. n - 1 \in Nat /\ n - 1 \in S
  BY <1>1
<1> QED
  BY <1>1, <1>2

(* Position() is where a token is first, and 0 where it is not.            *)
LEMMA PositionIs ==
    ASSUME NEW S, NEW text \in Seq(S), NEW token
    PROVE  /\ Position(text, token) \in 0 .. Len(text)
           /\ Position(text, token) = 0 =>
                 \A j \in 1 .. Len(text) : text[j] # token
           /\ Position(text, token) # 0 => text[Position(text, token)] = token
<1> DEFINE I == {j \in 1 .. Len(text) : text[j] = token}
<1>1. Position(text, token) =
         IF I # {} THEN CHOOSE n \in I : \A m \in I : n <= m ELSE 0
  BY DEF Position, SelectInSeq, Min
<1>2. I \in SUBSET Nat /\ I \subseteq 1 .. Len(text)
  OBVIOUS
<1>3. \A j \in 1 .. Len(text) : text[j] = token <=> j \in I
  OBVIOUS
<1> HIDE DEF I
<1>4. CASE I = {}
  <2>1. Position(text, token) = 0
    BY <1>1, <1>4
  <2>2. 0 \in 0 .. Len(text)
    OBVIOUS
  <2>3. \A j \in 1 .. Len(text) : text[j] # token
    BY <1>3, <1>4
  <2> QED
    BY <2>1, <2>2, <2>3
<1>5. CASE I # {}
  <2>1. \E n \in I : \A m \in I : n <= m
    BY <1>2, <1>5, Least
  <2>2. Position(text, token) \in I
    BY <1>1, <1>5, <2>1
  <2>3. Position(text, token) \in 1 .. Len(text)
    BY <1>2, <2>2
  <2>4. text[Position(text, token)] = token
    BY <1>3, <2>2, <2>3
  <2>5. Position(text, token) \in 0 .. Len(text) /\ Position(text, token) # 0
    BY <2>3
  <2> QED
    BY <2>4, <2>5
<1> QED
  BY <1>4, <1>5

(* It depends on nothing but where the token is.                           *)
LEMMA SamePosition ==
    ASSUME NEW S, NEW a \in Seq(S), NEW b \in Seq(S), NEW token,
           Len(a) = Len(b),
           \A j \in 1 .. Len(a) : a[j] = token <=> b[j] = token
    PROVE  Position(a, token) = Position(b, token)
<1>1. {j \in 1 .. Len(a) : a[j] = token} = {j \in 1 .. Len(b) : b[j] = token}
  OBVIOUS
<1> QED
  BY <1>1 DEF Position, SelectInSeq

(* Holds() is about the tokens of a text.                                  *)
LEMMA HoldsIs ==
    ASSUME NEW S, NEW text \in Seq(S), NEW tokens
    PROVE  Holds(text, tokens) <=> \E j \in 1 .. Len(text) : text[j] \in tokens
<1>1. ASSUME NEW t \in tokens, Position(text, t) # 0
      PROVE  \E j \in 1 .. Len(text) : text[j] \in tokens
  <2>1. /\ Position(text, t) \in 0 .. Len(text)
        /\ text[Position(text, t)] = t
    BY <1>1, PositionIs
  <2>2. Position(text, t) \in 1 .. Len(text)
    BY <1>1, <2>1
  <2> QED
    BY <2>1, <2>2
<1>2. ASSUME NEW j \in 1 .. Len(text), text[j] \in tokens
      PROVE  \E t \in tokens : Position(text, t) # 0
  BY <1>2, PositionIs
<1> QED
  BY <1>1, <1>2 DEF Holds

----------------------------------------------------------------------------
(* expansions.rs.                                                          *)

(* Where there are no variables there is nothing to expand.                *)
LEMMA NothingToExpand ==
    ASSUME NEW text, NEW user, NEW host,
           ~Holds(text, {"~", "%h"}), ~Holds(text, {"%u", "%U", "%H", "%f"})
    PROVE  ExpandVars(text, user, host) = text
<1>1. \A t \in {"~", "%h", "%u", "%U", "%H", "%f"} : Position(text, t) = 0
  BY DEF Holds
<1>2. ExpandHomedir(text, user, host) = text
  BY <1>1 DEF ExpandHomedir
<1>3. \A t \in {"%h", "%u", "%U", "%H", "%f"} : \A value :
         ExpandVar(text, t, value) = text
  BY <1>1 DEF ExpandVar
<1> QED
  BY <1>2, <1>3 DEF ExpandVars

(* What is expanded holds no more than the text, the value and a failure.  *)
LEMMA ExpandVarType ==
    ASSUME NEW T, "Failed" \in T,
           NEW text \in Seq(T), NEW value \in Seq(T), NEW var
    PROVE  ExpandVar(text, var, value) \in Seq(T)
<1> DEFINE i == Position(text, var)
<1>1. i \in 0 .. Len(text)
  BY PositionIs
<1>2. ExpandVar(text, var, value) =
         IF i = 0 THEN text
         ELSE IF value = Failed THEN Failed
         ELSE SubSeq(text, 1, i - 1) \o value \o SubSeq(text, i + 1, Len(text))
  BY DEF ExpandVar, Splice
<1> HIDE DEF i
<1>3. Failed \in Seq(T)
  BY DEF Failed
<1>4. CASE i # 0
  <2> DEFINE a == SubSeq(text, 1, i - 1)
             b == SubSeq(text, i + 1, Len(text))
  <2>1. a \in Seq(T) /\ b \in Seq(T)
    BY <1>1, <1>4
  <2> HIDE DEF a, b
  <2>2. a \o value \in Seq(T)
    BY <2>1
  <2>3. a \o value \o b \in Seq(T)
    BY <2>1, <2>2
  <2> QED
    BY <1>2, <1>3, <2>3 DEF a, b
<1> QED
  BY <1>2, <1>4

(* One sequence after another.                                             *)
LEMMA Joined ==
    ASSUME NEW S, NEW a \in Seq(S), NEW b \in Seq(S), NEW c, c = a \o b
    PROVE  /\ c \in Seq(S) /\ Len(c) = Len(a) + Len(b)
           /\ \A j \in 1 .. Len(c) :
                 c[j] = IF j <= Len(a) THEN a[j] ELSE b[j - Len(a)]
BY ConcatProperties

(* Splice() of a name for the token at i.                                  *)
LEMMA SpliceIs ==
    ASSUME NEW S, NEW t \in Seq(S), NEW i \in 1 .. Len(t),
           NEW x \in Seq(S), x # Failed
    PROVE  /\ Splice(t, i, 1, x) \in Seq(S)
           /\ Len(Splice(t, i, 1, x)) = Len(t) - 1 + Len(x)
           /\ \A j \in 1 .. Len(t) - 1 + Len(x) :
                 Splice(t, i, 1, x)[j] = IF j < i THEN t[j]
                        ELSE IF j < i + Len(x) THEN x[j - i + 1]
                        ELSE t[j - Len(x) + 1]
<1> DEFINE a == SubSeq(t, 1, i - 1)
           b == SubSeq(t, i + 1, Len(t))
           c == a \o x
<1>1. a \in Seq(S) /\ Len(a) = i - 1 /\ \A j \in 1 .. i - 1 : a[j] = t[j]
  OBVIOUS
<1>2. b \in Seq(S) /\ Len(b) = Len(t) - i /\ \A j \in 1 .. Len(t) - i : b[j] = t[i + j]
  OBVIOUS
<1>3. Len(x) \in Nat /\ Len(t) \in Nat
  OBVIOUS
<1>4. Splice(t, i, 1, x) = c \o b
  BY DEF Splice
<1>5. a \in Seq(S) /\ b \in Seq(S)
  BY <1>1, <1>2
<1> HIDE DEF a, b
<1>6. /\ c \in Seq(S) /\ Len(c) = Len(a) + Len(x)
      /\ \A j \in 1 .. Len(c) : c[j] = IF j <= Len(a) THEN a[j] ELSE x[j - Len(a)]
  BY <1>5, Joined
<1>6a. c \in Seq(S)
  BY <1>6
<1> HIDE DEF c
<1> DEFINE q == c \o b
<1>7. /\ q \in Seq(S) /\ Len(q) = Len(c) + Len(b)
      /\ \A j \in 1 .. Len(q) : q[j] = IF j <= Len(c) THEN c[j] ELSE b[j - Len(c)]
  BY <1>5, <1>6a, Joined
<1>7a. Splice(t, i, 1, x) = q
  BY <1>4
<1> HIDE DEF q
<1>8. Len(q) = Len(t) - 1 + Len(x)
  BY <1>1, <1>2, <1>3, <1>6, <1>7
<1>9. ASSUME NEW j \in 1 .. Len(q)
      PROVE  q[j] = IF j < i THEN t[j]
                    ELSE IF j < i + Len(x) THEN x[j - i + 1]
                    ELSE t[j - Len(x) + 1]
  <2>1. CASE j < i
    <3>1. j \in 1 .. i - 1 /\ j <= Len(c) /\ j \in 1 .. Len(c)
      BY <2>1, <1>1, <1>3, <1>6
    <3>2. q[j] = c[j]
      BY <3>1, <1>2, <1>7
    <3>3. c[j] = a[j]
      BY <3>1, <1>1, <1>3, <1>6
    <3> QED
      BY <2>1, <3>1, <3>2, <3>3, <1>1
  <2>2. CASE ~(j < i) /\ j < i + Len(x)
    <3>1. j \in 1 .. Len(c) /\ j <= Len(c) /\ ~(j <= i - 1) /\ j - (i - 1) = j - i + 1
      BY <2>2, <1>1, <1>3, <1>6
    <3>2. q[j] = c[j]
      BY <3>1, <1>2, <1>7
    <3>3. c[j] = x[j - (i - 1)]
      BY <3>1, <1>1, <1>3, <1>6
    <3> QED
      BY <2>2, <3>1, <3>2, <3>3
  <2>3. CASE ~(j < i + Len(x))
    <3>1. /\ ~(j <= Len(c)) /\ ~(j < i)
          /\ j - Len(c) \in 1 .. Len(t) - i
          /\ i + (j - Len(c)) = j - Len(x) + 1
      BY <2>3, <1>1, <1>2, <1>3, <1>6, <1>8
    <3>2. q[j] = b[j - Len(c)]
      BY <3>1, <1>7
    <3> QED
      BY <2>3, <3>1, <3>2, <1>2
  <2> QED
    BY <2>1, <2>2, <2>3
<1> QED
  BY <1>7, <1>7a, <1>8, <1>9

(* x is text, but for another token at i.                                  *)
Replaced(x, text, i, name) ==
    /\ Len(x) = Len(text)
    /\ \A j \in 1 .. Len(text) : x[j] = IF j = i THEN name ELSE text[j]

(* A variable that stands for a single token, or is not there.             *)
LEMMA OneToken ==
    ASSUME NEW S, NEW text \in Seq(S), NEW var, NEW name \in S,
           NEW value,
           value # Failed =>
              value \in Seq(S) /\ Len(value) = 1 /\ value[1] = name
    PROVE  ExpandVar(text, var, value) # Failed =>
              /\ ExpandVar(text, var, value) \in Seq(S)
              /\ Replaced(ExpandVar(text, var, value), text, Position(text, var), name)
<1> DEFINE i == Position(text, var)
           x == ExpandVar(text, var, value)
<1>1. i \in 0 .. Len(text)
  BY PositionIs
<1>2. x = IF i = 0 THEN text ELSE Splice(text, i, 1, value)
  BY DEF ExpandVar
<1> HIDE DEF i, x
<1>3. CASE i = 0
  <2>1. x = text
    BY <1>2, <1>3
  <2>2. \A j \in 1 .. Len(text) : j # i
    BY <1>3
  <2> QED
    BY <2>1, <2>2 DEF i, x, Replaced
<1>4. CASE i # 0 /\ value = Failed
  BY <1>2, <1>4 DEF Splice, x
<1>5. CASE i # 0 /\ value # Failed
  <2>1. value \in Seq(S) /\ Len(value) = 1 /\ value[1] = name
    BY <1>5
  <2>1a. i \in 1 .. Len(text) /\ Len(text) \in Nat
    BY <1>1, <1>5
  <2> DEFINE r == Splice(text, i, 1, value)
  <2>2. /\ r \in Seq(S)
        /\ Len(r) = Len(text) - 1 + Len(value)
        /\ \A j \in 1 .. Len(text) - 1 + Len(value) :
              r[j] = IF j < i THEN text[j]
                     ELSE IF j < i + Len(value) THEN value[j - i + 1]
                     ELSE text[j - Len(value) + 1]
    BY <2>1, <2>1a, <1>5, SpliceIs
  <2>2a. x = r
    BY <1>2, <1>5
  <2> HIDE DEF r
  <2>3. Len(x) = Len(text)
    BY <2>1, <2>1a, <2>2, <2>2a
  <2>4. ASSUME NEW j \in 1 .. Len(text)
        PROVE  x[j] = IF j = i THEN name ELSE text[j]
    <3>0. x[j] = IF j < i THEN text[j]
                 ELSE IF j < i + Len(value) THEN value[j - i + 1]
                 ELSE text[j - Len(value) + 1]
      BY <2>1, <2>1a, <2>2, <2>2a
    <3>1. CASE j < i
      BY <3>0, <3>1, <2>1a
    <3>2. CASE j = i
      <4>1. j - i + 1 = 1 /\ ~(j < i) /\ j < i + Len(value)
        BY <2>1, <2>1a, <3>2
      <4> QED
        BY <2>1, <3>0, <3>2, <4>1
    <3>3. CASE j > i
      <4>1. j - Len(value) + 1 = j /\ ~(j < i) /\ ~(j < i + Len(value))
        BY <2>1, <2>1a, <3>3
      <4> QED
        BY <3>0, <3>3, <4>1
    <3> QED
      BY <2>1a, <3>1, <3>2, <3>3
  <2> QED
    BY <2>2, <2>2a, <2>3, <2>4 DEF i, x, Replaced
<1> QED
  BY <1>3, <1>4, <1>5

(* So it is with the host's name.                                          *)
LEMMA HostToken ==
    ASSUME NEW S, NEW text \in Seq(S), NEW var, NEW name \in S, NEW host
    PROVE  ExpandVar(text, var, Hostname(host, name)) # Failed =>
              /\ ExpandVar(text, var, Hostname(host, name)) \in Seq(S)
              /\ Replaced(ExpandVar(text, var, Hostname(host, name)), text,
                          Position(text, var), name)
<1> DEFINE value == Hostname(host, name)
<1>1. value # Failed => value \in Seq(S) /\ Len(value) = 1 /\ value[1] = name
  BY DEF Hostname
<1> HIDE DEF value
<1>2. ExpandVar(text, var, value) # Failed =>
         /\ ExpandVar(text, var, value) \in Seq(S)
         /\ Replaced(ExpandVar(text, var, value), text, Position(text, var), name)
  BY <1>1, OneToken
<1> QED
  BY <1>2 DEF value

(* A text after its %H has been expanded, and after its %u has been.       *)
HostIn(text, host) == ExpandVar(text, "%H", Hostname(host, "host"))
NameAt(text, host) == Position(HostIn(text, host), "%u")
NameIn(text, x, host) == Splice(HostIn(text, host), NameAt(text, host), 1, x)

(* y is what a text with %u, without %U and the home directory becomes.    *)
FileText(T, text, x, host, y) ==
    /\ {"host", "host.domain"} \subseteq T
    /\ Plain(x)
    /\ ~Holds(text, {"~", "%h"}) /\ ~Holds(text, {"%U"}) /\ Holds(text, {"%u"})
    /\ y = ExpandVars(text, x, host) /\ y # Failed

(* What strict mode makes of a file with %u, without %U: the name in its
   place, and at most one more token expanded.                             *)
LEMMA FileOf ==
    ASSUME NEW T, NEW text \in Seq(T), NEW x \in Seq(T), NEW host,
           NEW y, FileText(T, text, x, host, y)
    PROVE  /\ HostIn(text, host) \in Seq(T)
           /\ NameAt(text, host) \in 1 .. Len(HostIn(text, host))
           /\ x # Failed
           /\ NameIn(text, x, host) \in Seq(T)
           /\ y \in Seq(T)
           /\ Len(y) = Len(NameIn(text, x, host))
           /\ \A j \in 1 .. Len(NameIn(text, x, host)) :
                 y[j] = IF j = Position(NameIn(text, x, host), "%f")
                          THEN "host.domain" ELSE NameIn(text, x, host)[j]
<1> DEFINE t == HostIn(text, host)
           i == NameAt(text, host)
           r == NameIn(text, x, host)
           f == ExpandVar(r, "%f", Hostname(host, "host.domain"))
<1>0. /\ "host" \in T /\ "host.domain" \in T
      /\ Plain(x)
      /\ ~Holds(text, {"~", "%h"}) /\ ~Holds(text, {"%U"}) /\ Holds(text, {"%u"})
      /\ y = ExpandVars(text, x, host) /\ y # Failed
  BY DEF FileText
<1>0a. "host" \in T /\ "host.domain" \in T
  BY <1>0
<1>1. \A v \in {"%H", "%u", "%f", "%U"} : Position(Failed, v) = 0
  <2>1. Failed \in Seq({"Failed"}) /\ \A j \in 1 .. Len(Failed) : Failed[j] = "Failed"
    BY DEF Failed
  <2>2. \A v : Position(Failed, v) # 0 => v = "Failed"
    <3>1. \A v : /\ Position(Failed, v) \in 0 .. Len(Failed)
                 /\ Position(Failed, v) # 0 => Failed[Position(Failed, v)] = v
      BY <2>1, PositionIs
    <3> QED
      BY <2>1, <3>1
  <2> QED
    BY <2>2
<1>2. \A v \in {"%H", "%u", "%f", "%U"} : \A value : ExpandVar(Failed, v, value) = Failed
  BY <1>1 DEF ExpandVar
<1>3. \A j \in 1 .. Len(text) : text[j] \notin {"~", "%h", "%U"}
  BY <1>0, HoldsIs
<1>4. \E j \in 1 .. Len(text) : text[j] = "%u"
  BY <1>0, HoldsIs
<1>5. y = ExpandVar(ExpandVar(ExpandVar(t, "%u", x), "%f",
                              Hostname(host, "host.domain")), "%U", Uid(host, x))
  <2>1. Position(text, "~") = 0 /\ Position(text, "%h") = 0
    BY <1>0 DEF Holds
  <2>2. ExpandHomedir(text, x, host) = text
    BY <2>1 DEF ExpandHomedir
  <2>3. ExpandVar(text, "%h", Home(host, x)) = text
    BY <2>1 DEF ExpandVar
  <2> QED
    BY <1>0, <2>2, <2>3 DEF ExpandVars, HostIn
<1>6. t # Failed
  BY <1>0, <1>2, <1>5
<1>7. /\ t \in Seq(T) /\ Len(t) = Len(text)
      /\ \A j \in 1 .. Len(text) :
            t[j] = IF j = Position(text, "%H") THEN "host" ELSE text[j]
  <2> DEFINE e == ExpandVar(text, "%H", Hostname(host, "host"))
  <2>2. e # Failed => /\ e \in Seq(T)
                      /\ Replaced(e, text, Position(text, "%H"), "host")
    BY <1>0a, HostToken
  <2>3. t = e
    BY DEF HostIn
  <2> HIDE DEF t, e
  <2> QED
    BY <1>6, <2>2, <2>3 DEF Replaced
<1>7a. t \in Seq(T)
  BY <1>7
<1>8. /\ \A j \in 1 .. Len(t) : t[j] # "%U"
      /\ \E j \in 1 .. Len(t) : t[j] = "%u"
  <2>1. Position(text, "%H") # 0 => text[Position(text, "%H")] = "%H"
    BY PositionIs
  <2> HIDE DEF t
  <2>2. PICK j \in 1 .. Len(text) : text[j] = "%u"
    BY <1>4
  <2>3. j # Position(text, "%H")
    BY <2>1, <2>2
  <2> QED
    BY <1>3, <1>7, <2>2, <2>3
<1>9. i \in 1 .. Len(t) /\ i = Position(t, "%u")
  <2>1. i = Position(t, "%u")
    BY DEF NameAt
  <2> HIDE DEF t, i
  <2> QED
    BY <1>7, <1>8, <2>1, PositionIs
<1>10. ExpandVar(t, "%u", x) = r
  BY <1>9 DEF ExpandVar, NameIn
<1>11. x # Failed
  <2>1. x = Failed => r = Failed
    BY DEF NameIn, Splice
  <2> QED
    BY <1>0, <1>2, <1>5, <1>10, <2>1
<1> HIDE DEF i, t
<1>12. /\ r \in Seq(T)
       /\ Len(r) = Len(t) - 1 + Len(x)
       /\ \A j \in 1 .. Len(t) - 1 + Len(x) :
             r[j] = IF j < i THEN t[j]
                    ELSE IF j < i + Len(x) THEN x[j - i + 1]
                    ELSE t[j - Len(x) + 1]
  <2> DEFINE e == Splice(t, i, 1, x)
  <2>1. /\ e \in Seq(T)
        /\ Len(e) = Len(t) - 1 + Len(x)
        /\ \A j \in 1 .. Len(t) - 1 + Len(x) :
              e[j] = IF j < i THEN t[j]
                     ELSE IF j < i + Len(x) THEN x[j - i + 1]
                     ELSE t[j - Len(x) + 1]
    <3>1. x \in Seq(T) /\ t \in Seq(T) /\ i \in 1 .. Len(t) /\ x # Failed
      BY <1>7a, <1>9, <1>11
    <3> HIDE DEF e
    <3>2. e = Splice(t, i, 1, x)
      BY DEF e
    <3> QED
      BY <3>1, <3>2, SpliceIs
  <2>2. r = e
    BY DEF NameIn, t, i
  <2> HIDE DEF r, e
  <2> QED
    BY <2>1, <2>2
<1> HIDE DEF r
<1>12a. r \in Seq(T)
  BY <1>12
<1>13. \A j \in 1 .. Len(r) : r[j] # "%U"
  <2>1. \A j \in 1 .. Len(x) : x[j] # "%U"
    BY <1>0, HoldsIs DEF Plain
  <2> TAKE j \in 1 .. Len(r)
  <2>2. Len(t) \in Nat /\ Len(x) \in Nat
    BY <1>7
  <2>3. CASE j < i
    <3>1. j \in 1 .. Len(t) /\ r[j] = t[j]
      BY <1>9, <1>12, <2>2, <2>3
    <3> QED
      BY <1>8, <3>1
  <2>4. CASE ~(j < i) /\ j < i + Len(x)
    <3>1. j - i + 1 \in 1 .. Len(x) /\ r[j] = x[j - i + 1]
      BY <1>9, <1>12, <2>2, <2>4
    <3> QED
      BY <2>1, <3>1
  <2>5. CASE ~(j < i + Len(x))
    <3>1. ~(j < i) /\ j \in 1 .. Len(t) - 1 + Len(x) /\ j - Len(x) + 1 \in 1 .. Len(t)
      BY <1>9, <1>12, <2>2, <2>5
    <3>2. r[j] = t[j - Len(x) + 1]
      BY <1>12, <2>5, <3>1
    <3> QED
      BY <1>8, <3>1, <3>2
  <2> QED
    BY <2>3, <2>4, <2>5
<1>14. f # Failed
  BY <1>0, <1>2, <1>5, <1>10
<1>15. /\ f \in Seq(T) /\ Len(f) = Len(r)
       /\ \A j \in 1 .. Len(r) :
             f[j] = IF j = Position(r, "%f") THEN "host.domain" ELSE r[j]
  <2> DEFINE e == ExpandVar(r, "%f", Hostname(host, "host.domain"))
  <2>2. e # Failed => /\ e \in Seq(T)
                      /\ Replaced(e, r, Position(r, "%f"), "host.domain")
    BY <1>0a, <1>12a, HostToken
  <2>3. f = e
    OBVIOUS
  <2> HIDE DEF f, e
  <2> QED
    BY <1>14, <2>2, <2>3 DEF Replaced
<1>16. y = ExpandVar(f, "%U", Uid(host, x))
  BY <1>5, <1>10
<1> HIDE DEF f
<1>17. Position(f, "%U") = 0
  <2>1. \A j \in 1 .. Len(f) : f[j] # "%U"
    BY <1>13, <1>15
  <2>2. /\ Position(f, "%U") \in 0 .. Len(f)
        /\ Position(f, "%U") # 0 => f[Position(f, "%U")] = "%U"
    BY <1>15, PositionIs
  <2> QED
    BY <2>1, <2>2
<1>18. y = f
  BY <1>16, <1>17 DEF ExpandVar
<1> QED
  BY <1>7, <1>9, <1>11, <1>12, <1>15, <1>18 DEF t, i, r

(* Such a file is another one for every plain name.                        *)
LEMMA NamesTellApart ==
    ASSUME NEW T, NEW text \in Seq(T), NEW u \in Seq(T), NEW w \in Seq(T), NEW host,
           NEW y, FileText(T, text, u, host, y), FileText(T, text, w, host, y)
    PROVE  u = w
<1> DEFINE t == HostIn(text, host)
           i == NameAt(text, host)
           ru == NameIn(text, u, host)
           rw == NameIn(text, w, host)
           ku == Position(ru, "%f")
           kw == Position(rw, "%f")
<1>1. t \in Seq(T) /\ i \in 1 .. Len(t) /\ u # Failed /\ w # Failed
  BY FileOf
<1>2. /\ ru \in Seq(T) /\ y \in Seq(T) /\ Len(y) = Len(ru)
      /\ \A j \in 1 .. Len(ru) : y[j] = IF j = ku THEN "host.domain" ELSE ru[j]
  BY FileOf
<1>3. /\ rw \in Seq(T) /\ Len(y) = Len(rw)
      /\ \A j \in 1 .. Len(rw) : y[j] = IF j = kw THEN "host.domain" ELSE rw[j]
  BY FileOf
<1>4. /\ Len(ru) = Len(t) - 1 + Len(u)
      /\ \A j \in 1 .. Len(t) - 1 + Len(u) :
            ru[j] = IF j < i THEN t[j]
                    ELSE IF j < i + Len(u) THEN u[j - i + 1]
                    ELSE t[j - Len(u) + 1]
  <2>1. ru = Splice(t, i, 1, u)
    BY DEF NameIn
  <2> HIDE DEF t, i
  <2> QED
    BY <1>1, <2>1, SpliceIs
<1>5. /\ Len(rw) = Len(t) - 1 + Len(w)
      /\ \A j \in 1 .. Len(t) - 1 + Len(w) :
            rw[j] = IF j < i THEN t[j]
                    ELSE IF j < i + Len(w) THEN w[j - i + 1]
                    ELSE t[j - Len(w) + 1]
  <2>1. rw = Splice(t, i, 1, w)
    BY DEF NameIn
  <2> HIDE DEF t, i
  <2> QED
    BY <1>1, <2>1, SpliceIs
<1> HIDE DEF t, i
<1>6. /\ ku \in 0 .. Len(ru) /\ ku # 0 => ru[ku] = "%f"
      /\ kw \in 0 .. Len(rw) /\ kw # 0 => rw[kw] = "%f"
  BY <1>2, <1>3, PositionIs
<1>7. /\ \A j \in 1 .. Len(u) : u[j] # "%f"
      /\ \A j \in 1 .. Len(w) : w[j] # "%f"
  BY HoldsIs DEF FileText, Plain
<1> HIDE DEF ru, rw, ku, kw
<1>8. Len(u) = Len(w) /\ Len(t) \in Nat /\ Len(u) \in Nat
  <2>1. Len(t) \in Nat /\ Len(u) \in Nat /\ Len(w) \in Nat
    BY <1>1
  <2>2. Len(t) - 1 + Len(u) = Len(t) - 1 + Len(w)
    BY <1>2, <1>3, <1>4, <1>5
  <2> QED
    BY <2>1, <2>2
<1>9. \A j \in 1 .. Len(ru) : ru[j] = "%f" <=> rw[j] = "%f"
  <2> TAKE j \in 1 .. Len(ru)
  <2>1. CASE j < i \/ ~(j < i + Len(u))
    BY <2>1, <1>1, <1>4, <1>5, <1>8
  <2>2. CASE ~(j < i) /\ j < i + Len(u)
    <3>1. j - i + 1 \in 1 .. Len(u) /\ ru[j] = u[j - i + 1] /\ rw[j] = w[j - i + 1]
      BY <2>2, <1>1, <1>4, <1>5, <1>8
    <3> QED
      BY <3>1, <1>7, <1>8
  <2> QED
    BY <2>1, <2>2
<1>10. ku = kw
  <2>1. ru \in Seq(T) /\ rw \in Seq(T) /\ Len(ru) = Len(rw)
    BY <1>2, <1>3
  <2>2. Position(ru, "%f") = Position(rw, "%f")
    BY <1>9, <2>1, SamePosition
  <2> QED
    BY <2>2 DEF ku, kw
<1>11. ASSUME NEW j \in 1 .. Len(u) PROVE u[j] = w[j]
  <2> DEFINE m == i + j - 1
  <2>1. /\ m \in 1 .. Len(ru) /\ m \in 1 .. Len(rw)
        /\ ~(m < i) /\ m < i + Len(u) /\ m - i + 1 = j
    BY <1>1, <1>4, <1>5, <1>8
  <2> HIDE DEF m
  <2>2. ru[m] = u[j] /\ rw[m] = w[j]
    BY <2>1, <1>4, <1>5, <1>8
  <2>3. m # ku /\ m # kw
    BY <2>1, <2>2, <1>6, <1>7, <1>8
  <2> QED
    BY <2>1, <2>2, <2>3, <1>2, <1>3
<1> QED
  BY <1>8, <1>11, SeqEqual

(* What is neither in the text nor in the name, and stands for no more than
   the host's names, a uid and a failure, is not in the expanded text.     *)
LEMMA ExpandVarsType ==
    ASSUME NEW T, {"Failed", "host", "host.domain", "uid"} \subseteq T,
           NEW text \in Seq(T), NEW user \in Seq(T), NEW host,
           ~Holds(text, {"~", "%h"})
    PROVE  ExpandVars(text, user, host) \in Seq(T)
<1>1. /\ "Failed" \in T /\ "host" \in T /\ "host.domain" \in T /\ "uid" \in T
      /\ Position(text, "~") = 0 /\ Position(text, "%h") = 0
  BY DEF Holds
<1>2. ExpandHomedir(text, user, host) = text
  BY <1>1 DEF ExpandHomedir
<1>3. ExpandVar(text, "%h", Home(host, user)) = text
  BY <1>1 DEF ExpandVar
<1> DEFINE H == Hostname(host, "host")
           F == Hostname(host, "host.domain")
           U == Uid(host, user)
<1>4. H \in Seq(T) /\ F \in Seq(T)
  BY <1>1 DEF Hostname, Failed
<1>5. U \in Seq(T)
  <2>1. <<"uid">> \in Seq(T) /\ Failed \in Seq(T)
    BY <1>1 DEF Failed
  <2>2. <<"uid">> \o user \in Seq(T)
    BY <2>1
  <2> QED
    BY <2>1, <2>2 DEF Uid
<1> HIDE DEF H, F, U
<1> DEFINE a == ExpandVar(text, "%H", H)
           b == ExpandVar(a, "%u", user)
           c == ExpandVar(b, "%f", F)
           d == ExpandVar(c, "%U", U)
<1>6. a \in Seq(T)
  BY <1>1, <1>4, ExpandVarType
<1> HIDE DEF a
<1>7. b \in Seq(T)
  BY <1>1, <1>6, ExpandVarType
<1> HIDE DEF b
<1>8. c \in Seq(T)
  BY <1>1, <1>4, <1>7, ExpandVarType
<1> HIDE DEF c
<1>9. d \in Seq(T)
  BY <1>1, <1>5, <1>8, ExpandVarType
<1>10. ExpandVars(text, user, host) = d
  BY <1>2, <1>3 DEF ExpandVars, a, b, c, H, F, U
<1> QED
  BY <1>9, <1>10

----------------------------------------------------------------------------
(* One option.                                                             *)

(* An option that is not refused is the only one that has its key, and a
   text is taken as it is expanded.                                        *)
Takes(b, a, o, value) ==
    /\ \A key \in TextKeys : b[key] = IF o.key = key THEN value ELSE a[key]
    /\ b.per_user = IF o.key = "file" THEN Holds(o.value, {"%u"}) ELSE a.per_user
    /\ o.key \in TextKeys => value # Failed /\ (a.strict => ValidTrustSource(o))

(* What one option does to the record.                                     *)
LEMMA OneOption ==
    ASSUME NEW a, NEW o, NEW user, NEW host,
           DOMAIN a = ArgsFields, a.ok \in BOOLEAN, a.agent_timeout \in 0 .. 300,
           NEW b, b = ParseOption(a, o, user, host)
    PROVE  /\ DOMAIN b = ArgsFields
           /\ b.ok \in BOOLEAN
           /\ b.strict = a.strict
           /\ b.agent_timeout \in 0 .. 300
           /\ b.ok => a.ok /\ Takes(b, a, o, ExpandVars(o.value, user, host))
<1> DEFINE value == ExpandVars(o.value, user, host)
<1> HIDE DEF value
<1>1. CASE ~a.ok
  <2>1. b = a
    BY <1>1 DEF ParseOption
  <2> QED
    BY <1>1, <2>1
<1>2. CASE b = [a EXCEPT !.ok = FALSE]
  BY <1>2 DEF ArgsFields, TextKeys
<1>3. CASE /\ a.ok /\ o.key \notin TextKeys
           /\ \/ b = a \/ b = [a EXCEPT !.debug = TRUE]
              \/ b = [a EXCEPT !.shortcut = TRUE]
              \/ o.seconds \in 1 .. 300 /\ b = [a EXCEPT !.agent_timeout = o.seconds]
  <2>1. /\ DOMAIN b = ArgsFields
        /\ b.ok = a.ok /\ b.strict = a.strict /\ b.agent_timeout \in 0 .. 300
        /\ b.per_user = a.per_user
    <3>1. CASE b = a
      BY <3>1
    <3>2. CASE b = [a EXCEPT !.debug = TRUE] \/ b = [a EXCEPT !.shortcut = TRUE]
      BY <3>2 DEF ArgsFields, TextKeys
    <3>3. CASE o.seconds \in 1 .. 300 /\ b = [a EXCEPT !.agent_timeout = o.seconds]
      BY <3>3 DEF ArgsFields, TextKeys
    <3> QED
      BY <1>3, <3>1, <3>2, <3>3
  <2>2. \A key \in TextKeys : b[key] = a[key] /\ o.key # key
    BY <1>3 DEF ArgsFields, TextKeys
  <2>3. o.key # "file"
    BY <1>3 DEF TextKeys
  <2> QED
    BY <1>3, <2>1, <2>2, <2>3 DEF Takes
<1>4. CASE /\ a.ok /\ o.key \in TextKeys
           /\ ~(value = Failed \/ (a.strict /\ ~ValidTrustSource(o)))
           /\ b = [a EXCEPT ![o.key] = value,
                            !.per_user = IF o.key = "file" THEN PerUser(a, o) ELSE @]
  <2>1. /\ DOMAIN b = ArgsFields
        /\ b.ok = a.ok /\ b.strict = a.strict /\ b.agent_timeout = a.agent_timeout
    BY <1>4 DEF ArgsFields, TextKeys
  <2>2. \A key \in TextKeys : b[key] = IF o.key = key THEN value ELSE a[key]
    BY <1>4 DEF ArgsFields, TextKeys
  <2>3. b.per_user = IF o.key = "file" THEN Holds(o.value, {"%u"}) ELSE a.per_user
    BY <1>4 DEF ArgsFields, TextKeys, PerUser
  <2> QED
    BY <1>4, <2>1, <2>2, <2>3 DEF Takes, value
<1>5. CASE a.ok /\ o.key = "agent_timeout"
  <2>1. o.key \notin TextKeys
    BY <1>5 DEF TextKeys
  <2>2. \/ b = [a EXCEPT !.ok = FALSE]
        \/ o.seconds \in 1 .. 300 /\ b = [a EXCEPT !.agent_timeout = o.seconds]
    BY <1>5, <2>1 DEF ParseOption, TimeoutInRange
  <2> QED
    BY <1>2, <1>3, <1>5, <2>1, <2>2
<1>6. CASE a.ok /\ o.key \in TextKeys
  <2>1. o.key \notin {"debug", "strict", "sshd_shortcut", "agent_timeout"}
    BY <1>6 DEF TextKeys
  <2>2. \/ b = [a EXCEPT !.ok = FALSE]
        \/ /\ ~(value = Failed \/ (a.strict /\ ~ValidTrustSource(o)))
           /\ b = [a EXCEPT ![o.key] = value,
                            !.per_user = IF o.key = "file" THEN PerUser(a, o) ELSE @]
    BY <1>6, <2>1 DEF ParseOption, value
  <2> QED
    BY <1>2, <1>4, <1>6, <2>2
<1>7. CASE a.ok /\ o.key \notin TextKeys \cup {"agent_timeout"}
  <2>1. \/ b = a \/ b = [a EXCEPT !.ok = FALSE]
        \/ b = [a EXCEPT !.debug = TRUE] \/ b = [a EXCEPT !.shortcut = TRUE]
    BY <1>7 DEF ParseOption
  <2> QED
    BY <1>2, <1>3, <1>7, <2>1
<1> QED
  BY <1>1, <1>5, <1>6, <1>7

(* The same of a user's record, in a step.                                 *)
LEMMA OptionStep ==
    ASSUME TypeOK, ParseNext, NEW u \in Users
    PROVE  /\ DOMAIN args'[u] = ArgsFields
           /\ args'[u].ok \in BOOLEAN
           /\ args'[u].strict = args[u].strict
           /\ args'[u].agent_timeout \in 0 .. 300
           /\ args'[u].ok =>
                 /\ args[u].ok
                 /\ Takes(args'[u], args[u], options[next],
                          ExpandVars(options[next].value, u, env))
<1> DEFINE a == args[u]
           b == args'[u]
           o == options[next]
<1>1. b = ParseOption(a, o, u, env)
  BY DEF ParseNext
<1>2. DOMAIN a = ArgsFields /\ a.ok \in BOOLEAN /\ a.agent_timeout \in 0 .. 300
  BY DEF TypeOK
<1> HIDE DEF a, b, o
<1>3. /\ DOMAIN b = ArgsFields
      /\ b.ok \in BOOLEAN
      /\ b.strict = a.strict
      /\ b.agent_timeout \in 0 .. 300
      /\ b.ok => a.ok /\ Takes(b, a, o, ExpandVars(o.value, u, env))
  BY <1>1, <1>2, OneOption
<1> QED
  BY <1>3 DEF a, b, o

(* The option looked at is one of the menu's.                              *)
LEMMA NextOption ==
    ASSUME TypeOK, ParseNext
    PROVE  /\ next \in DOMAIN options /\ options[next] \in Menu
           /\ options[next].value \in Seq(STRING)
           /\ ~Holds(options[next].value, Markers)
<1>1. next \in 1 .. Len(options) /\ options \in Seq(Menu)
  BY DEF ParseNext, TypeOK
<1>2. options[next] \in Menu
  BY <1>1
<1> QED
  BY <1>1, <1>2, ArgsParseAssumption
  DEF ArgsParseAssumption, IsText, IsOption, OptionType

(* When the loop is over only ok may still change.                         *)
LEMMA ReturnStep ==
    ASSUME TypeOK, Return, NEW u \in Users
    PROVE  /\ DOMAIN args'[u] = ArgsFields
           /\ args'[u].ok \in BOOLEAN
           /\ \A field \in ArgsFields \ {"ok"} : args'[u][field] = args[u][field]
           /\ args'[u].ok => args[u].ok /\ (args[u].strict => args[u].per_user)
<1>1. args'[u] = Conclude(args[u]) /\ DOMAIN args[u] = ArgsFields /\ args[u].ok \in BOOLEAN
  BY DEF Return, TypeOK
<1> DEFINE a == args[u]
<1> HIDE DEF a
<1>2. LET b == Conclude(a) IN
      DOMAIN a = ArgsFields /\ a.ok \in BOOLEAN =>
        /\ DOMAIN b = ArgsFields
        /\ b.ok \in BOOLEAN
        /\ \A field \in ArgsFields \ {"ok"} : b[field] = a[field]
        /\ b.ok => a.ok /\ (a.strict => a.per_user)
  BY DEF Conclude, ArgsFields, TextKeys
<1> QED
  BY <1>1, <1>2 DEF a

----------------------------------------------------------------------------
(* The state's types, and the sources of trust.                            *)

(* The types of ArgsParse's variables, for any options.                    *)
THEOREM Typing == Spec => []TypeOK
<1>1. Init => TypeOK
  <2> SUFFICES ASSUME Init PROVE TypeOK
    OBVIOUS
  <2>1. options \in Seq(Menu)
    BY ArgsParseAssumption DEF Init, ArgsParseAssumption
  <2>2. \A u \in Users : args[u] = Defaults(Strict(options))
    BY DEF Init
  <2>3. next \in 1 .. Len(options) + 1
    BY <2>1 DEF Init
  <2> HIDE DEF Init
  <2>4. LET a == Defaults(Strict(options)) IN
          /\ DOMAIN a = ArgsFields
          /\ a.ok \in BOOLEAN
          /\ a.strict = Strict(options)
          /\ a.agent_timeout \in 0 .. 300
    BY DEF Defaults, ArgsFields, TextKeys, DefaultTimeout
  <2> QED
    BY <2>1, <2>2, <2>3, <2>4 DEF Init, TypeOK
<1>2. TypeOK /\ [Next]_vars => TypeOK'
  <2> SUFFICES ASSUME TypeOK, [Next]_vars PROVE TypeOK'
    OBVIOUS
  <2>1. CASE ParseNext
    <3>1. \A u \in Users : /\ DOMAIN args'[u] = ArgsFields
                          /\ args'[u].ok \in BOOLEAN
                          /\ args'[u].strict = args[u].strict
                          /\ args'[u].agent_timeout \in 0 .. 300
      BY <2>1, OptionStep
    <3>2. options' = options /\ env' = env /\ parsed' = parsed
          /\ next' \in 1 .. Len(options) + 1
      <4>1. next' = next + 1 /\ next <= Len(options) /\ next \in 1 .. Len(options) + 1
            /\ Len(options) \in Nat
        BY <2>1 DEF ParseNext, TypeOK
      <4> QED
        BY <2>1, <4>1 DEF ParseNext
    <3>3. \A u \in Users : args'[u].strict = Strict(options')
      BY <3>1, <3>2 DEF TypeOK
    <3> QED
      BY <3>1, <3>2, <3>3 DEF TypeOK
  <2>2. CASE Return
    <3>1. \A u \in Users : /\ DOMAIN args'[u] = ArgsFields
                          /\ args'[u].ok \in BOOLEAN
                          /\ args'[u].strict = args[u].strict
                          /\ args'[u].agent_timeout \in 0 .. 300
      <4> SUFFICES ASSUME NEW u \in Users
                   PROVE  /\ DOMAIN args'[u] = ArgsFields
                          /\ args'[u].ok \in BOOLEAN
                          /\ args'[u].strict = args[u].strict
                          /\ args'[u].agent_timeout \in 0 .. 300
        OBVIOUS
      <4>1. /\ DOMAIN args'[u] = ArgsFields
            /\ args'[u].ok \in BOOLEAN
            /\ args'[u]["strict"] = args[u]["strict"]
            /\ args'[u]["agent_timeout"] = args[u]["agent_timeout"]
        BY <2>2, ReturnStep DEF ArgsFields
      <4> QED
        BY <4>1 DEF TypeOK
    <3> QED
      BY <2>2, <3>1 DEF Return, TypeOK, Strict
  <2>3. CASE Done \/ UNCHANGED vars
    BY <2>3 DEF Done, vars, TypeOK, Strict
  <2> QED
    BY <2>1, <2>2, <2>3 DEF Next
<1> QED
  BY <1>1, <1>2, PTL DEF Spec

(* The checks after the loop come when every option has been looked at.    *)
Over == parsed => next = Len(options) + 1

(* That holds in every reachable state.                                    *)
LEMMA ParsedLast == Spec => []Over
<1>1. Init => Over
  BY DEF Init, Over
<1>2. TypeOK /\ Over /\ [Next]_vars => Over'
  <2> SUFFICES ASSUME TypeOK, Over, [Next]_vars PROVE Over'
    OBVIOUS
  <2>1. next \in 1 .. Len(options) + 1 /\ Len(options) \in Nat
    BY DEF TypeOK
  <2>2. CASE ParseNext
    BY <2>1, <2>2 DEF ParseNext, Over
  <2>3. CASE Return
    BY <2>1, <2>3 DEF Return, Over
  <2>4. CASE Done \/ UNCHANGED vars
    BY <2>4 DEF Done, vars, Over
  <2> QED
    BY <2>2, <2>3, <2>4 DEF Next
<1> QED
  BY <1>1, <1>2, Typing, PTL DEF Spec

(* The helper that is taken stands in an option.                           *)
HelperInv ==
    \A u \in Users :
        args[u].ok /\ args[u].strict /\ args[u].authorized_keys_command # None =>
            \E i \in DOMAIN options :
                /\ options[i].key = "authorized_keys_command"
                /\ options[i].value = args[u].authorized_keys_command

(* Strict mode runs the helper that stands in the configuration, the same
   for every user.                                                         *)
THEOREM HelperFixed == Spec => []HelperPathFixed
<1>1. Init => HelperInv
  BY DEF Init, HelperInv, Defaults
<1>2. TypeOK /\ HelperInv /\ [Next]_vars => HelperInv'
  <2> SUFFICES ASSUME TypeOK, HelperInv, [Next]_vars PROVE HelperInv'
    OBVIOUS
  <2>1. CASE ParseNext
    <3> SUFFICES ASSUME NEW u \in Users, args'[u].ok, args'[u].strict,
                        args'[u].authorized_keys_command # None
                 PROVE  \E i \in DOMAIN options :
                           /\ options[i].key = "authorized_keys_command"
                           /\ options[i].value = args'[u].authorized_keys_command
      BY <2>1 DEF ParseNext, HelperInv
    <3> DEFINE o == options[next]
               value == ExpandVars(o.value, u, env)
    <3>1. args[u].ok /\ args[u].strict /\ Takes(args'[u], args[u], o, value)
      BY <2>1, OptionStep
    <3>2. CASE o.key # "authorized_keys_command"
      <4>1. args'[u].authorized_keys_command = args[u].authorized_keys_command
        BY <3>1, <3>2 DEF Takes, TextKeys
      <4> QED
        BY <3>1, <4>1 DEF HelperInv
    <3>3. CASE o.key = "authorized_keys_command"
      <4>1. args'[u].authorized_keys_command = value /\ ValidTrustSource(o)
        BY <3>1, <3>3 DEF Takes, TextKeys
      <4>2. args'[u].authorized_keys_command = o.value
        BY <3>3, <4>1, NothingToExpand DEF ValidTrustSource
      <4>3. next \in DOMAIN options
        BY <2>1, NextOption
      <4> QED
        BY <3>3, <4>2, <4>3
    <3> QED
      BY <3>2, <3>3
  <2>2. CASE Return
    <3> SUFFICES ASSUME NEW u \in Users, args'[u].ok, args'[u].strict,
                        args'[u].authorized_keys_command # None
                 PROVE  \E i \in DOMAIN options :
                           /\ options[i].key = "authorized_keys_command"
                           /\ options[i].value = args'[u].authorized_keys_command
      BY <2>2 DEF Return, HelperInv
    <3>1. /\ args[u].ok
          /\ args'[u]["strict"] = args[u]["strict"]
          /\ args'[u]["authorized_keys_command"] = args[u]["authorized_keys_command"]
      BY <2>2, ReturnStep DEF ArgsFields, TextKeys
    <3> QED
      BY <3>1 DEF HelperInv
  <2>3. CASE Done \/ UNCHANGED vars
    BY <2>3 DEF Done, vars, HelperInv
  <2> QED
    BY <2>1, <2>2, <2>3 DEF Next
<1>3. HelperInv => HelperPathFixed
  BY DEF HelperInv, HelperPathFixed, StrictOk
<1> QED
  BY <1>1, <1>2, <1>3, Typing, PTL DEF Spec

(* The tokens, those the code itself writes by name, and of these all but
   what a user's directory is made of.                                     *)
Tokens ==
    STRING \cup {"/", "etc", "security", "authorized_keys", "host",
                 "host.domain", "uid", "None", "Failed"}

Homeless == Tokens \ {"home"}

(* No directory of the user's is in a source of trust.                     *)
HomeInv ==
    \A u \in Users :
        args[u].ok /\ args[u].strict =>
            \A key \in {"file", "ca_keys_file", "authorized_keys_command"} :
                args[u][key] \in Seq(Homeless)

(* A text without one of the markers.                                      *)
LEMMA Unmarked ==
    ASSUME NEW text \in Seq(STRING), ~Holds(text, Markers)
    PROVE  text \in Seq(Homeless)
<1>1. \A j \in 1 .. Len(text) : text[j] \notin Markers
  BY HoldsIs
<1>2. \A j \in 1 .. Len(text) : text[j] \in Homeless
  BY <1>1 DEF Markers, Homeless, Tokens
<1> QED
  BY <1>2

(* No directory a user owns gets into a source of trust by expansion.      *)
THEOREM NoHomeTrusted == Spec => []TrustOutsideHome
<1>1. Init => HomeInv
  <2> SUFFICES ASSUME Init, NEW u \in Users PROVE
               \A key \in {"file", "ca_keys_file", "authorized_keys_command"} :
                  args[u][key] \in Seq(Homeless)
    BY DEF HomeInv
  <2>1. /\ args[u]["file"] = DefaultFile
        /\ args[u]["ca_keys_file"] = None
        /\ args[u]["authorized_keys_command"] = None
    BY DEF Init, Defaults
  <2> DEFINE H == Homeless
  <2>2a. /\ "/" \in H /\ "etc" \in H /\ "security" \in H
         /\ "authorized_keys" \in H /\ "None" \in H
    BY DEF Homeless, Tokens
  <2> HIDE DEF H
  <2>2. DefaultFile \in Seq(H) /\ None \in Seq(H)
    BY <2>2a DEF DefaultFile, None
  <2> QED
    BY <2>1, <2>2 DEF H
<1>2. TypeOK /\ HomeInv /\ [Next]_vars => HomeInv'
  <2> SUFFICES ASSUME TypeOK, HomeInv, [Next]_vars PROVE HomeInv'
    OBVIOUS
  <2>1. CASE ParseNext
    <3> SUFFICES ASSUME NEW u \in Users, args'[u].ok, args'[u].strict,
                        NEW key \in {"file", "ca_keys_file", "authorized_keys_command"}
                 PROVE  args'[u][key] \in Seq(Homeless)
      BY DEF HomeInv
    <3> DEFINE o == options[next]
               value == ExpandVars(o.value, u, env)
    <3>1. args[u].ok /\ args[u].strict /\ Takes(args'[u], args[u], o, value)
      BY <2>1, OptionStep
    <3>2. key \in TextKeys
      BY DEF TextKeys
    <3>3. CASE o.key # key
      BY <3>1, <3>2, <3>3 DEF Takes, HomeInv
    <3>4. CASE o.key = key
      <4>1. args'[u][key] = value /\ ValidTrustSource(o)
        BY <3>1, <3>2, <3>4 DEF Takes
      <4>2. o.value \in Seq(Homeless) /\ u \in Seq(Homeless)
        BY <2>1, NextOption, Unmarked, ArgsParseAssumption
        DEF ArgsParseAssumption, IsText, IsOption, OptionType
      <4>3. ~Holds(o.value, {"~", "%h"})
        BY <3>4, <4>1 DEF ValidTrustSource
      <4>4. {"Failed", "host", "host.domain", "uid"} \subseteq Homeless
        BY DEF Homeless, Tokens
      <4>5. value \in Seq(Homeless)
        BY <4>2, <4>3, <4>4, ExpandVarsType
      <4> QED
        BY <4>1, <4>5
    <3> QED
      BY <3>3, <3>4
  <2>2. CASE Return
    <3> SUFFICES ASSUME NEW u \in Users, args'[u].ok, args'[u].strict,
                        NEW key \in {"file", "ca_keys_file", "authorized_keys_command"}
                 PROVE  args'[u][key] \in Seq(Homeless)
      BY DEF HomeInv
    <3>1. /\ args[u].ok
          /\ args'[u]["strict"] = args[u]["strict"]
          /\ args'[u][key] = args[u][key]
      BY <2>2, ReturnStep DEF ArgsFields, TextKeys
    <3> QED
      BY <3>1 DEF HomeInv
  <2>3. CASE Done \/ UNCHANGED vars
    BY <2>3 DEF Done, vars, HomeInv
  <2> QED
    BY <2>1, <2>2, <2>3 DEF Next
<1>3. HomeInv => TrustOutsideHome
  <2> SUFFICES ASSUME HomeInv, NEW u \in Users, StrictOk(u),
                      NEW key \in {"file", "ca_keys_file", "authorized_keys_command"}
               PROVE  ~Holds(args[u][key], {"home"})
    BY DEF TrustOutsideHome
  <2>1. args[u][key] \in Seq(Homeless)
    BY DEF HomeInv, StrictOk
  <2> DEFINE text == args[u][key]
  <2> HIDE DEF text
  <2>2. \A j \in 1 .. Len(text) : text[j] # "home"
    BY <2>1 DEF Homeless, text
  <2>3. ~Holds(text, {"home"})
    BY <2>1, <2>2, HoldsIs DEF text
  <2> QED
    BY <2>3 DEF text
<1> QED
  BY <1>1, <1>2, <1>3, Typing, PTL DEF Spec

(* The i-th option is a file= with %u that strict mode may take, and what
   it is for this user is the user's file.                                 *)
FileFrom(x, i) ==
    /\ options[i].key = "file"
    /\ ValidTrustSource(options[i])
    /\ Holds(options[i].value, {"%u"})
    /\ args[x].file = ExpandVars(options[i].value, x, env)
    /\ args[x].file # Failed

(* While strict mode takes the options for two users, the files of both are
   per user or neither is, and they come from the same option.             *)
FileInv ==
    \A u \in Users : args[u].ok /\ args[u].strict =>
        /\ parsed => args[u].per_user
        /\ \A w \in Users :
              args[w].ok /\ args[w].strict /\ args[u].per_user =>
                 /\ args[w].per_user
                 /\ \E i \in DOMAIN options : FileFrom(u, i) /\ FileFrom(w, i)

(* Strict mode never reads the same file for two users.                    *)
THEOREM FileOfOneUser == Spec => []OneFilePerUser
<1>1. Init => FileInv
  BY DEF Init, FileInv, Defaults
<1>2. TypeOK /\ Over /\ FileInv /\ [Next]_vars => FileInv'
  <2> SUFFICES ASSUME TypeOK, Over, FileInv, [Next]_vars PROVE FileInv'
    OBVIOUS
  <2>1. CASE ParseNext
    <3>1. ~parsed' /\ options' = options /\ env' = env
      BY <2>1 DEF ParseNext, TypeOK, Over
    <3> SUFFICES ASSUME NEW u \in Users, args'[u].ok, args'[u].strict,
                        NEW w \in Users, args'[w].ok, args'[w].strict,
                        args'[u].per_user
                 PROVE  /\ args'[w].per_user
                        /\ \E i \in DOMAIN options : FileFrom(u, i)' /\ FileFrom(w, i)'
      BY <3>1 DEF FileInv
    <3> DEFINE o == options[next]
    <3>2. /\ args[u].ok /\ args[u].strict
          /\ Takes(args'[u], args[u], o, ExpandVars(o.value, u, env))
      BY <2>1, OptionStep
    <3>3. /\ args[w].ok /\ args[w].strict
          /\ Takes(args'[w], args[w], o, ExpandVars(o.value, w, env))
      BY <2>1, OptionStep
    <3>4. CASE o.key # "file"
      <4>1. /\ args'[u].per_user = args[u].per_user /\ args'[u].file = args[u].file
            /\ args'[w].per_user = args[w].per_user /\ args'[w].file = args[w].file
        BY <3>2, <3>3, <3>4 DEF Takes, TextKeys
      <4>2. PICK i \in DOMAIN options : FileFrom(u, i) /\ FileFrom(w, i)
        BY <3>2, <3>3, <4>1 DEF FileInv
      <4>3. args[w].per_user
        BY <3>2, <3>3, <4>1 DEF FileInv
      <4>4. FileFrom(u, i)' /\ FileFrom(w, i)'
        BY <3>1, <4>1, <4>2 DEF FileFrom
      <4> QED
        BY <4>1, <4>3, <4>4
    <3>5. CASE o.key = "file"
      <4>1. /\ args'[u].per_user = Holds(o.value, {"%u"})
            /\ args'[u].file = ExpandVars(o.value, u, env)
            /\ args'[w].per_user = Holds(o.value, {"%u"})
            /\ args'[w].file = ExpandVars(o.value, w, env)
            /\ ExpandVars(o.value, u, env) # Failed
            /\ ExpandVars(o.value, w, env) # Failed
            /\ ValidTrustSource(o)
        BY <3>2, <3>3, <3>5 DEF Takes, TextKeys
      <4>2. Holds(o.value, {"%u"}) /\ args'[w].per_user
        BY <4>1
      <4>3. next \in DOMAIN options
        BY <2>1, NextOption
      <4> DEFINE k == next
      <4>5. /\ options'[k].key = "file"
            /\ ValidTrustSource(options'[k])
            /\ Holds(options'[k].value, {"%u"})
            /\ args'[u].file = ExpandVars(options'[k].value, u, env')
            /\ args'[w].file = ExpandVars(options'[k].value, w, env')
            /\ args'[u].file # Failed /\ args'[w].file # Failed
        BY <3>1, <3>5, <4>1, <4>2
      <4>6. \E i \in DOMAIN options : FileFrom(u, i)' /\ FileFrom(w, i)'
        <5>1. PICK i \in DOMAIN options : i = next
          BY <4>3
        <5> QED
          BY <4>5, <5>1 DEF FileFrom
      <4> QED
        BY <4>2, <4>6
    <3> QED
      BY <3>4, <3>5
  <2>2. CASE Return
    <3>1. options' = options /\ env' = env
      BY <2>2 DEF Return
    <3> SUFFICES ASSUME NEW u \in Users, args'[u].ok, args'[u].strict
                 PROVE  /\ args'[u].per_user
                        /\ \A w \in Users :
                              args'[w].ok /\ args'[w].strict =>
                                 /\ args'[w].per_user
                                 /\ \E i \in DOMAIN options :
                                       FileFrom(u, i)' /\ FileFrom(w, i)'
      BY <3>1 DEF FileInv
    <3>2. ASSUME NEW x \in Users, args'[x].ok, args'[x].strict
          PROVE  /\ args[x].ok /\ args[x].strict /\ args[x].per_user
                 /\ args'[x].per_user /\ args'[x].file = args[x].file
      <4>1. /\ args[x].ok /\ (args[x].strict => args[x].per_user)
            /\ args'[x]["strict"] = args[x]["strict"]
            /\ args'[x]["per_user"] = args[x]["per_user"]
            /\ args'[x]["file"] = args[x]["file"]
        BY <2>2, <3>2, ReturnStep DEF ArgsFields, TextKeys
      <4> QED
        BY <3>2, <4>1
    <3>3. ASSUME NEW w \in Users, args'[w].ok, args'[w].strict
          PROVE  \E i \in DOMAIN options : FileFrom(u, i)' /\ FileFrom(w, i)'
      <4>1. PICK i \in DOMAIN options : FileFrom(u, i) /\ FileFrom(w, i)
        BY <3>2, <3>3 DEF FileInv
      <4>2. args'[u].file = args[u].file /\ args'[w].file = args[w].file
        BY <3>2, <3>3
      <4> QED
        BY <3>1, <4>1, <4>2 DEF FileFrom
    <3> QED
      BY <3>2, <3>3
  <2>3. CASE Done \/ UNCHANGED vars
    BY <2>3 DEF Done, vars, FileInv, FileFrom
  <2> QED
    BY <2>1, <2>2, <2>3 DEF Next
<1>3. TypeOK /\ FileInv => OneFilePerUser
  <2> SUFFICES ASSUME TypeOK, FileInv, PathByName, NEW u \in Users, NEW w \in Users,
                      StrictOk(u), StrictOk(w), Plain(u), Plain(w),
                      args[u].file = args[w].file
               PROVE  u = w
    BY DEF OneFilePerUser
  <2>1. /\ args[u].ok /\ args[u].strict /\ args[u].per_user
        /\ args[w].ok /\ args[w].strict
    BY DEF StrictOk, FileInv
  <2>2. PICK i \in DOMAIN options : FileFrom(u, i) /\ FileFrom(w, i)
    BY <2>1 DEF FileInv
  <2> DEFINE text == options[i].value
             y == args[u].file
  <2>3. options[i] \in Menu /\ text \in Seq(STRING)
    <3>1. i \in 1 .. Len(options) /\ options \in Seq(Menu)
      BY DEF TypeOK
    <3>2. options[i] \in Menu
      BY <3>1
    <3> QED
      BY <3>2, ArgsParseAssumption
      DEF ArgsParseAssumption, IsText, IsOption, OptionType
  <2>4. text \in Seq(Tokens) /\ u \in Seq(Tokens) /\ w \in Seq(Tokens)
    <3>1. u \in Seq(STRING) /\ w \in Seq(STRING)
      BY ArgsParseAssumption
      DEF ArgsParseAssumption, IsText, IsOption, OptionType
    <3>2. \A x \in Seq(STRING) : x \in Seq(Tokens)
      BY DEF Tokens
    <3> QED
      BY <2>3, <3>1, <3>2
  <2>5. /\ ~Holds(text, {"~", "%h"}) /\ Holds(text, {"%u"}) /\ ~Holds(text, {"%U"})
        /\ y = ExpandVars(text, u, env) /\ y = ExpandVars(text, w, env) /\ y # Failed
    BY <2>2 DEF FileFrom, ValidTrustSource, PathByName
  <2>6. FileText(Tokens, text, u, env, y) /\ FileText(Tokens, text, w, env, y)
    BY <2>5 DEF FileText, Tokens
  <2> HIDE DEF text, y
  <2> QED
    BY <2>4, <2>6, NamesTellApart
<1> QED
  BY <1>1, <1>2, <1>3, Typing, ParsedLast, PTL DEF Spec

----------------------------------------------------------------------------
(* The loop as a function of its options.                                  *)

(* A function that is right for the first n options.                       *)
IsProgress(list, user, host, n, w) ==
    w = [i \in 0 .. n |->
           IF i = 0 THEN Defaults(Strict(list))
           ELSE ParseOption(w[i - 1], list[i], user, host)]

(* There is one for every n.                                               *)
LEMMA ProgressExists ==
    ASSUME NEW list, NEW user, NEW host
    PROVE  \A n \in Nat : \E w : IsProgress(list, user, host, n, w)
<1> DEFINE S == {n \in Nat : \E w : IsProgress(list, user, host, n, w)}
           D == Defaults(Strict(list))
<1>1. 0 \in S
  <2> DEFINE w == [i \in 0 .. 0 |-> D]
  <2>1. IsProgress(list, user, host, 0, w)
    <3> HIDE DEF D
    <3>1. w = [i \in 0 .. 0 |->
                 IF i = 0 THEN D ELSE ParseOption(w[i - 1], list[i], user, host)]
      OBVIOUS
    <3> QED
      BY <3>1 DEF IsProgress, D
  <2> HIDE DEF w
  <2> QED
    BY <2>1
<1>2. ASSUME NEW n \in Nat, n \in S PROVE n + 1 \in S
  <2>1. PICK v : IsProgress(list, user, host, n, v)
    BY <1>2
  <2> HIDE DEF D
  <2> DEFINE Turn == ParseOption(v[n], list[n + 1], user, host)
  <2> HIDE DEF Turn
  <2> DEFINE w == [i \in 0 .. n + 1 |-> IF i = n + 1 THEN Turn ELSE v[i]]
  <2>2. w[n + 1] = Turn /\ \A i \in 0 .. n : w[i] = v[i]
    OBVIOUS
  <2>3. \A i \in 0 .. n + 1 :
           w[i] = IF i = 0 THEN D ELSE ParseOption(w[i - 1], list[i], user, host)
    <3> SUFFICES ASSUME NEW i \in 0 .. n + 1
                 PROVE  w[i] = IF i = 0 THEN D
                               ELSE ParseOption(w[i - 1], list[i], user, host)
      OBVIOUS
    <3> HIDE DEF w
    <3>1. CASE i = n + 1
      <4>1. i # 0 /\ i - 1 = n /\ w[n] = v[n]
        BY <3>1, <2>2
      <4> QED
        BY <3>1, <4>1, <2>2 DEF Turn
    <3>2. CASE i \in 0 .. n
      <4>1. v[i] = IF i = 0 THEN D ELSE ParseOption(v[i - 1], list[i], user, host)
        BY <3>2, <2>1 DEF IsProgress, D
      <4>2. i = 0 \/ w[i - 1] = v[i - 1]
        BY <3>2, <2>2
      <4> QED
        BY <3>2, <4>1, <4>2, <2>2
    <3> QED
      BY <3>1, <3>2
  <2>4. w = [i \in 0 .. n + 1 |->
               IF i = 0 THEN D ELSE ParseOption(w[i - 1], list[i], user, host)]
    BY <2>3
  <2>5. IsProgress(list, user, host, n + 1, w)
    BY <2>4 DEF IsProgress, D
  <2> HIDE DEF w
  <2> QED
    BY <2>5
<1> HIDE DEF S
<1>3. Nat \subseteq S
  BY <1>1, <1>2, Induct
<1> QED
  BY <1>3 DEF S

(* The locals after an option are what it makes of those before.           *)
LEMMA ProgressIs ==
    ASSUME NEW S, NEW list \in Seq(S), NEW user, NEW host
    PROVE  /\ Progress(list, user, host)[0] = Defaults(Strict(list))
           /\ \A n \in 1 .. Len(list) :
                 Progress(list, user, host)[n] =
                    ParseOption(Progress(list, user, host)[n - 1], list[n], user, host)
<1> DEFINE m == Len(list)
           p == Progress(list, user, host)
<1>1. m \in Nat
  OBVIOUS
<1>2. p = CHOOSE w : IsProgress(list, user, host, m, w)
  BY DEF Progress, IsProgress
<1> HIDE DEF m, p
<1>3. IsProgress(list, user, host, m, p)
  BY <1>1, <1>2, ProgressExists
<1>4. p = [i \in 0 .. m |->
             IF i = 0 THEN Defaults(Strict(list))
             ELSE ParseOption(p[i - 1], list[i], user, host)]
  BY <1>3 DEF IsProgress
<1>5. p[0] = Defaults(Strict(list))
  BY <1>1, <1>4
<1>6. \A n \in 1 .. m : p[n] = ParseOption(p[n - 1], list[n], user, host)
  BY <1>1, <1>4
<1> QED
  BY <1>5, <1>6 DEF m, p

(* Two functions that begin together and step together stay together.      *)
LEMMA Along ==
    ASSUME NEW k \in Nat, NEW v, NEW w, v[0] = w[0],
           \A j \in 1 .. k : v[j - 1] = w[j - 1] => v[j] = w[j]
    PROVE  v[k] = w[k]
<1> DEFINE S == {j \in Nat : j <= k => v[j] = w[j]}
<1>1. 0 \in S
  OBVIOUS
<1>2. \A j \in Nat : j \in S => j + 1 \in S
  <2> SUFFICES ASSUME NEW j \in Nat, j \in S, j + 1 <= k
               PROVE  v[j + 1] = w[j + 1]
    OBVIOUS
  <2>1. j + 1 \in 1 .. k /\ (j + 1) - 1 = j /\ v[j] = w[j]
    OBVIOUS
  <2> QED
    BY <2>1
<1> HIDE DEF S
<1>3. Nat \subseteq S
  BY <1>1, <1>2, Induct
<1> QED
  BY <1>3 DEF S

(* The locals after the last option.                                       *)
Built(list, user, host) == Progress(list, user, host)[Len(list)]

(* One more option, which is not strict, is one more turn of the loop.     *)
LEMMA OneMore ==
    ASSUME NEW S, NEW list \in Seq(S), NEW o \in S, o.key # "strict",
           NEW user, NEW host
    PROVE  /\ Append(list, o) \in Seq(S)
           /\ Strict(Append(list, o)) = Strict(list)
           /\ Built(Append(list, o), user, host) =
                 ParseOption(Built(list, user, host), o, user, host)
<1> DEFINE more == Append(list, o)
           k == Len(list)
           v == Progress(more, user, host)
           w == Progress(list, user, host)
<1>1. /\ more \in Seq(S) /\ Len(more) = k + 1 /\ k \in Nat
      /\ more[k + 1] = o /\ \A j \in 1 .. k : more[j] = list[j]
  OBVIOUS
<1> HIDE DEF more, k
<1>2. Strict(more) = Strict(list)
  <2>1. Flag("strict") # o
    BY DEF Flag
  <2>2. Strict(more) <=> \E j \in 1 .. k + 1 : more[j] = Flag("strict")
    BY <1>1 DEF Strict, Contains
  <2>3. Strict(list) <=> \E j \in 1 .. k : list[j] = Flag("strict")
    BY DEF Strict, Contains, k
  <2>4. Strict(more) <=> Strict(list)
    BY <1>1, <2>1, <2>2, <2>3
  <2>5. Strict(more) \in BOOLEAN /\ Strict(list) \in BOOLEAN
    BY DEF Strict, Contains
  <2> QED
    BY <2>4, <2>5
<1>3. /\ w[0] = Defaults(Strict(list))
      /\ \A j \in 1 .. k : w[j] = ParseOption(w[j - 1], list[j], user, host)
  BY ProgressIs DEF k
<1>4. /\ v[0] = Defaults(Strict(more))
      /\ \A j \in 1 .. k + 1 : v[j] = ParseOption(v[j - 1], more[j], user, host)
  BY <1>1, ProgressIs
<1> HIDE DEF v, w
<1>5. v[k] = w[k]
  <2>1. \A j \in 1 .. k : v[j - 1] = w[j - 1] => v[j] = w[j]
    <3> TAKE j \in 1 .. k
    <3>1. j \in 1 .. k + 1
      BY <1>1
    <3>2. v[j] = ParseOption(v[j - 1], more[j], user, host)
      BY <1>4, <3>1
    <3>3. w[j] = ParseOption(w[j - 1], list[j], user, host) /\ more[j] = list[j]
      BY <1>1, <1>3
    <3> QED
      BY <3>2, <3>3
  <2>2. v[0] = w[0]
    BY <1>2, <1>3, <1>4
  <2> QED
    BY <1>1, <2>1, <2>2, Along
<1>6. v[k + 1] = ParseOption(v[k], o, user, host)
  <2>1. k + 1 \in 1 .. k + 1 /\ (k + 1) - 1 = k
    BY <1>1
  <2> QED
    BY <1>1, <1>4, <2>1
<1>7. Built(more, user, host) = v[k + 1] /\ Built(list, user, host) = w[k]
  BY <1>1 DEF Built, v, w, k
<1> QED
  BY <1>1, <1>2, <1>5, <1>6, <1>7 DEF more

(* A function that is right for the first n options.                       *)
IsOthers(start, list, n, w) ==
    w = [i \in 0 .. n |->
           IF i = 0 THEN start
           ELSE IF list[i].key = "strict" THEN w[i - 1]
           ELSE Append(w[i - 1], list[i])]

(* There is one for every n.                                               *)
LEMMA OthersExists ==
    ASSUME NEW start, NEW list
    PROVE  \A n \in Nat : \E w : IsOthers(start, list, n, w)
<1> DEFINE S == {n \in Nat : \E w : IsOthers(start, list, n, w)}
<1>1. 0 \in S
  <2> DEFINE w == [i \in 0 .. 0 |-> start]
  <2>1. IsOthers(start, list, 0, w)
    BY DEF IsOthers
  <2> HIDE DEF w
  <2> QED
    BY <2>1
<1>2. ASSUME NEW n \in Nat, n \in S PROVE n + 1 \in S
  <2>1. PICK v : IsOthers(start, list, n, v)
    BY <1>2
  <2> DEFINE Turn == IF list[n + 1].key = "strict" THEN v[n]
                     ELSE Append(v[n], list[n + 1])
  <2> HIDE DEF Turn
  <2> DEFINE w == [i \in 0 .. n + 1 |-> IF i = n + 1 THEN Turn ELSE v[i]]
  <2>2. w[n + 1] = Turn /\ \A i \in 0 .. n : w[i] = v[i]
    OBVIOUS
  <2>3. \A i \in 0 .. n + 1 :
           w[i] = IF i = 0 THEN start
                  ELSE IF list[i].key = "strict" THEN w[i - 1]
                  ELSE Append(w[i - 1], list[i])
    <3> SUFFICES ASSUME NEW i \in 0 .. n + 1
                 PROVE  w[i] = IF i = 0 THEN start
                               ELSE IF list[i].key = "strict" THEN w[i - 1]
                               ELSE Append(w[i - 1], list[i])
      OBVIOUS
    <3> HIDE DEF w
    <3>1. CASE i = n + 1
      <4>1. i # 0 /\ i - 1 = n /\ w[n] = v[n]
        BY <3>1, <2>2
      <4> QED
        BY <3>1, <4>1, <2>2 DEF Turn
    <3>2. CASE i \in 0 .. n
      <4>1. v[i] = IF i = 0 THEN start
                   ELSE IF list[i].key = "strict" THEN v[i - 1]
                   ELSE Append(v[i - 1], list[i])
        BY <3>2, <2>1 DEF IsOthers
      <4>2. i = 0 \/ w[i - 1] = v[i - 1]
        BY <3>2, <2>2
      <4> QED
        BY <3>2, <4>1, <4>2, <2>2
    <3> QED
      BY <3>1, <3>2
  <2>4. IsOthers(start, list, n + 1, w)
    BY <2>3 DEF IsOthers
  <2> HIDE DEF w
  <2> QED
    BY <2>4
<1> HIDE DEF S
<1>3. Nat \subseteq S
  BY <1>1, <1>2, Induct
<1> QED
  BY <1>3 DEF S

(* Others() is start, and then grows by each option that is not strict.    *)
LEMMA OthersIs ==
    ASSUME NEW S, NEW list \in Seq(S), NEW start
    PROVE  /\ Others(start, list)[0] = start
           /\ \A n \in 1 .. Len(list) :
                 Others(start, list)[n] =
                    IF list[n].key = "strict" THEN Others(start, list)[n - 1]
                    ELSE Append(Others(start, list)[n - 1], list[n])
<1> DEFINE m == Len(list)
           p == Others(start, list)
<1>1. m \in Nat
  OBVIOUS
<1>2. p = CHOOSE w : IsOthers(start, list, m, w)
  BY DEF Others, IsOthers
<1> HIDE DEF m, p
<1>3. IsOthers(start, list, m, p)
  BY <1>1, <1>2, OthersExists
<1>4. p = [i \in 0 .. m |->
             IF i = 0 THEN start
             ELSE IF list[i].key = "strict" THEN p[i - 1]
             ELSE Append(p[i - 1], list[i])]
  BY <1>3 DEF IsOthers
<1>5. p[0] = start
  BY <1>1, <1>4
<1>6. \A n \in 1 .. m : p[n] = IF list[n].key = "strict" THEN p[n - 1]
                               ELSE Append(p[n - 1], list[n])
  <2> TAKE n \in 1 .. m
  <2>1. n \in 0 .. m /\ n # 0
    BY <1>1
  <2> QED
    BY <1>4, <2>1
<1> QED
  BY <1>5, <1>6 DEF m, p

(* It is strict where start is.                                            *)
LEMMA OthersType ==
    ASSUME NEW S, NEW list \in Seq(S), NEW start \in Seq(S)
    PROVE  \A n \in 0 .. Len(list) :
              /\ Others(start, list)[n] \in Seq(S)
              /\ Strict(Others(start, list)[n]) = Strict(start)
<1> DEFINE m == Len(list)
           p == Others(start, list)
           N == {n \in Nat : n <= m => p[n] \in Seq(S) /\ Strict(p[n]) = Strict(start)}
<1>1. m \in Nat /\ \A n \in 1 .. m : list[n] \in S
  OBVIOUS
<1>2. /\ p[0] = start
      /\ \A n \in 1 .. m : p[n] = IF list[n].key = "strict" THEN p[n - 1]
                                  ELSE Append(p[n - 1], list[n])
  BY OthersIs
<1> HIDE DEF m, p
<1>3. 0 \in N
  BY <1>2
<1>4. \A n \in Nat : n \in N => n + 1 \in N
  <2> SUFFICES ASSUME NEW n \in Nat, n \in N, n + 1 <= m
               PROVE  p[n + 1] \in Seq(S) /\ Strict(p[n + 1]) = Strict(start)
    OBVIOUS
  <2> DEFINE o == list[n + 1]
  <2>1. /\ n + 1 \in 1 .. m /\ (n + 1) - 1 = n
        /\ p[n] \in Seq(S) /\ Strict(p[n]) = Strict(start)
    BY <1>1
  <2>2. o \in S /\ p[n + 1] = IF o.key = "strict" THEN p[n] ELSE Append(p[n], o)
    BY <1>1, <1>2, <2>1
  <2> HIDE DEF o
  <2>3. CASE o.key = "strict"
    BY <2>1, <2>2, <2>3
  <2>4. CASE o.key # "strict"
    <3>1. Append(p[n], o) \in Seq(S) /\ Strict(Append(p[n], o)) = Strict(p[n])
      BY <2>1, <2>2, <2>4, OneMore
    <3> QED
      BY <2>1, <2>2, <2>4, <3>1
  <2> QED
    BY <2>3, <2>4
<1> HIDE DEF N
<1>5. Nat \subseteq N
  BY <1>3, <1>4, Induct
<1> QED
  BY <1>1, <1>5 DEF N, m, p

(* What the loop takes.                                                    *)
Accepts(strict, o, value) ==
    \/ o.key \in {"debug", "strict", "sshd_shortcut"}
    \/ o.key = "agent_timeout" /\ value # Failed /\ TimeoutInRange(o.seconds)
    \/ o.key \in TextKeys /\ value # Failed /\ (strict => ValidTrustSource(o))

(* Nothing else does ok depend on.                                         *)
LEMMA OptionOk ==
    ASSUME NEW a, NEW o, NEW user, NEW host,
           DOMAIN a = ArgsFields, a.ok \in BOOLEAN
    PROVE  /\ ParseOption(a, o, user, host).ok \in BOOLEAN
           /\ ParseOption(a, o, user, host).ok <=>
                 a.ok /\ Accepts(a.strict, o, ExpandVars(o.value, user, host))
<1> DEFINE value == ExpandVars(o.value, user, host)
           refused == [a EXCEPT !.ok = FALSE]
<1> HIDE DEF value
<1> SUFFICES ASSUME NEW b, b = ParseOption(a, o, user, host)
             PROVE  b.ok \in BOOLEAN /\ (b.ok <=> a.ok /\ Accepts(a.strict, o, value))
  BY DEF value
<1>1. CASE ~a.ok
  <2>1. b = a
    BY <1>1 DEF ParseOption
  <2> QED
    BY <1>1, <2>1
<1>2. refused.ok = FALSE
  BY DEF ArgsFields
<1>3. CASE a.ok /\ o.key \in {"debug", "strict", "sshd_shortcut"}
  <2>0. o.key \notin TextKeys
    BY <1>3 DEF TextKeys
  <2>1. b = a \/ b = [a EXCEPT !.debug = TRUE] \/ b = [a EXCEPT !.shortcut = TRUE]
    BY <1>3, <2>0 DEF ParseOption
  <2>2. Accepts(a.strict, o, value)
    BY <1>3 DEF Accepts
  <2>3. b.ok = a.ok
    BY <2>1 DEF ArgsFields
  <2> QED
    BY <1>3, <2>2, <2>3
<1>4. CASE a.ok /\ o.key = "agent_timeout"
  <2>1. o.key \notin TextKeys
    BY <1>4 DEF TextKeys
  <2> DEFINE good == value # Failed /\ TimeoutInRange(o.seconds)
  <2>2. b = IF good THEN [a EXCEPT !.agent_timeout = o.seconds] ELSE refused
    BY <1>4, <2>1 DEF ParseOption, value
  <2>3. Accepts(a.strict, o, value) <=> good
    BY <1>4, <2>1 DEF Accepts
  <2> HIDE DEF good
  <2>4. b.ok = IF good THEN a.ok ELSE FALSE
    BY <1>2, <2>2 DEF ArgsFields
  <2> QED
    BY <1>4, <2>3, <2>4
<1>5. CASE a.ok /\ o.key \in TextKeys
  <2>1. o.key \notin {"debug", "strict", "sshd_shortcut", "agent_timeout"}
    BY <1>5 DEF TextKeys
  <2> DEFINE bad == value = Failed \/ (a.strict /\ ~ValidTrustSource(o))
  <2>2. b = IF bad THEN refused
            ELSE [a EXCEPT ![o.key] = value,
                           !.per_user = IF o.key = "file" THEN PerUser(a, o) ELSE @]
    BY <1>5, <2>1 DEF ParseOption, value
  <2>3. Accepts(a.strict, o, value) <=> ~bad
    BY <1>5, <2>1 DEF Accepts
  <2> HIDE DEF bad
  <2>4. b.ok = IF bad THEN FALSE ELSE a.ok
    BY <1>2, <1>5, <2>2 DEF ArgsFields, TextKeys
  <2> QED
    BY <1>5, <2>3, <2>4
<1>6. CASE a.ok /\ o.key \notin TextKeys \cup {"debug", "strict", "sshd_shortcut",
                                               "agent_timeout"}
  <2>1. b = refused
    BY <1>6 DEF ParseOption
  <2>2. ~Accepts(a.strict, o, value)
    BY <1>6 DEF Accepts
  <2>3. b.ok = FALSE
    BY <1>2, <2>1
  <2> QED
    BY <2>2, <2>3
<1> QED
  BY <1>1, <1>3, <1>4, <1>5, <1>6

----------------------------------------------------------------------------
(* Strict mode against the same options without it.                        *)

(* The options so far without those that are strict, in a turn of the loop. *)
LEMMA OthersStep ==
    ASSUME TypeOK, next <= Len(options),
           NEW start \in Seq(Menu \cup {Flag("strict")}), NEW user, NEW host
    PROVE  LET o == options[next]
               b == Others(start, options)[next - 1]
               c == Others(start, options)[next]
           IN  /\ o.key = "strict" => c = b
               /\ o.key # "strict" =>
                     Built(c, user, host) =
                        ParseOption(Built(b, user, host), o, user, host)
<1> DEFINE S == Menu \cup {Flag("strict")}
           p == Others(start, options)
           o == options[next]
<1>1. options \in Seq(S) /\ next \in 1 .. Len(options) /\ start \in Seq(S)
  BY DEF TypeOK
<1>2. o \in S
  BY <1>1
<1>3. next - 1 \in 0 .. Len(options)
  BY <1>1
<1> HIDE DEF S
<1>4. p[next] = IF o.key = "strict" THEN p[next - 1] ELSE Append(p[next - 1], o)
  BY <1>1, OthersIs
<1>5. p[next - 1] \in Seq(S)
  BY <1>1, <1>3, OthersType
<1> HIDE DEF p, o
<1> DEFINE b == p[next - 1]
<1> HIDE DEF b
<1>6. b \in Seq(S)
  BY <1>5 DEF b
<1>7. o.key # "strict" =>
         Built(Append(b, o), user, host) =
            ParseOption(Built(b, user, host), o, user, host)
  BY <1>2, <1>6, OneMore
<1> QED
  BY <1>4, <1>7 DEF p, o, b

(* What there is before the first option.                                  *)
LEMMA BuiltFirst ==
    ASSUME NEW user, NEW host
    PROVE  /\ Built(<<>>, user, host) = Defaults(FALSE)
           /\ Built(<<Flag("strict")>>, user, host) = Defaults(TRUE)
<1>1. Built(<<>>, user, host) = Defaults(FALSE)
  <2> DEFINE e == <<>>
  <2>1. e \in Seq({}) /\ Len(e) = 0
    OBVIOUS
  <2>2. Progress(e, user, host)[0] = Defaults(Strict(e))
    BY <2>1, ProgressIs
  <2>3. Strict(e) = FALSE
    BY <2>1 DEF Strict, Contains
  <2> QED
    BY <2>1, <2>2, <2>3 DEF Built
<1>2. Built(<<Flag("strict")>>, user, host) = Defaults(TRUE)
  <2> DEFINE f == Flag("strict")
             l == <<f>>
             d == Defaults(TRUE)
  <2>0. f.key = "strict"
    BY DEF Flag
  <2> HIDE DEF f
  <2>1. l \in Seq({f}) /\ Len(l) = 1 /\ l[1] = f
    OBVIOUS
  <2> HIDE DEF l
  <2>2. /\ Progress(l, user, host)[0] = Defaults(Strict(l))
        /\ Progress(l, user, host)[1] =
              ParseOption(Progress(l, user, host)[0], f, user, host)
    <3>1. /\ Progress(l, user, host)[0] = Defaults(Strict(l))
          /\ \A n \in 1 .. Len(l) :
                Progress(l, user, host)[n] =
                   ParseOption(Progress(l, user, host)[n - 1], l[n], user, host)
      BY <2>1, ProgressIs
    <3>2. 1 \in 1 .. Len(l) /\ 1 - 1 = 0
      BY <2>1
    <3> QED
      BY <2>1, <3>1, <3>2
  <2>3. Strict(l) = TRUE
    BY <2>1 DEF Strict, Contains, f
  <2>4. d.ok
    BY DEF Defaults
  <2>5. ParseOption(d, f, user, host) = d
    <3> HIDE DEF d
    <3> QED
      BY <2>0, <2>4 DEF ParseOption, TextKeys
  <2>6. Built(l, user, host) = d
    BY <2>1, <2>2, <2>3, <2>5 DEF Built
  <2> QED
    BY <2>6 DEF l, f
<1> QED
  BY <1>1, <1>2

(* The record is that of the same options with strict first.               *)
StrictInv ==
    Strict(options) =>
        \A u \in Users :
            LET b == Built(Others(<<Flag("strict")>>, options)[next - 1], u, env)
            IN  args[u] = IF parsed THEN Conclude(b) ELSE b

(* strict may stand anywhere: it governs the options before it as well.    *)
THEOREM StrictGovernsAll == Spec => []StrictAnywhere
<1>0. <<Flag("strict")>> \in Seq(Menu \cup {Flag("strict")})
  OBVIOUS
<1>1. Init /\ TypeOK => StrictInv
  <2> SUFFICES ASSUME Init, TypeOK, Strict(options), NEW u \in Users
               PROVE  args[u] = Built(Others(<<Flag("strict")>>, options)[0], u, env)
    <3>1. Init => next - 1 = 0 /\ ~parsed
      BY DEF Init
    <3> QED
      BY <3>1 DEF StrictInv
  <2>1. args[u] = Defaults(TRUE)
    <3>1. Strict(options) = TRUE
      BY DEF Strict, Contains
    <3> QED
      BY <3>1 DEF Init
  <2>2. Others(<<Flag("strict")>>, options)[0] = <<Flag("strict")>>
    BY OthersIs DEF TypeOK
  <2> QED
    BY <2>1, <2>2, BuiltFirst
<1>2. TypeOK /\ Over /\ StrictInv /\ [Next]_vars => StrictInv'
  <2> SUFFICES ASSUME TypeOK, Over, StrictInv, [Next]_vars PROVE StrictInv'
    OBVIOUS
  <2> DEFINE p == Others(<<Flag("strict")>>, options)
  <2>1. CASE ParseNext
    <3>1. /\ ~parsed /\ ~parsed' /\ options' = options /\ env' = env
          /\ next' = next + 1 /\ next <= Len(options) /\ next' - 1 = next
      BY <2>1 DEF ParseNext, TypeOK, Over
    <3> SUFFICES ASSUME Strict(options), NEW u \in Users
                 PROVE  args'[u] = Built(p[next], u, env)
      BY <3>1 DEF StrictInv
    <3> DEFINE o == options[next]
               b == p[next - 1]
    <3>2. /\ args[u] = Built(b, u, env)
          /\ args'[u] = ParseOption(args[u], o, u, env)
      BY <2>1, <3>1 DEF StrictInv, ParseNext
    <3>3. /\ o.key = "strict" => p[next] = b
          /\ o.key # "strict" =>
                Built(p[next], u, env) = ParseOption(Built(b, u, env), o, u, env)
      BY <1>0, <3>1, OthersStep
    <3>4. o.key = "strict" => ParseOption(args[u], o, u, env) = args[u]
      <4> DEFINE a == args[u]
      <4> HIDE DEF a, o, p
      <4> QED
        BY DEF ParseOption, TextKeys
    <3> QED
      BY <3>2, <3>3, <3>4
  <2>2. CASE Return
    <3>1. /\ ~parsed /\ parsed' /\ options' = options /\ env' = env /\ next' = next
          /\ \A u \in Users : args'[u] = Conclude(args[u])
      BY <2>2 DEF Return
    <3> SUFFICES ASSUME Strict(options), NEW u \in Users
                 PROVE  args'[u] = Conclude(Built(p[next - 1], u, env))
      BY <3>1 DEF StrictInv
    <3>2. args[u] = Built(p[next - 1], u, env)
      BY <3>1 DEF StrictInv
    <3> QED
      BY <3>1, <3>2
  <2>3. CASE Done \/ UNCHANGED vars
    BY <2>3 DEF Done, vars, StrictInv
  <2> QED
    BY <2>1, <2>2, <2>3 DEF Next
<1>3. TypeOK /\ Over /\ StrictInv => StrictAnywhere
  <2> SUFFICES ASSUME TypeOK, Over, StrictInv, NEW u \in Users, parsed,
                      NEW i \in DOMAIN options, options[i] = Flag("strict")
               PROVE  args[u] = StrictFromStart(u)
    BY DEF StrictAnywhere
  <2>1. Strict(options)
    <3>1. i \in 1 .. Len(options)
      BY DEF TypeOK
    <3> QED
      BY <3>1 DEF Strict, Contains
  <2>2. next - 1 = Len(options)
    BY DEF TypeOK, Over
  <2> QED
    BY <2>1, <2>2 DEF StrictInv, StrictFromStart, Parse, Built
<1> QED
  BY <1>1, <1>2, <1>3, Typing, ParsedLast, PTL DEF Spec

(* b is what a is, without strict.                                         *)
AsLenient(a, b) ==
    /\ DOMAIN b = ArgsFields /\ b.ok \in BOOLEAN /\ b.agent_timeout \in 0 .. 300
    /\ b.strict = FALSE /\ b.ok
    /\ \A key \in TextKeys : b[key] = a[key]

(* An option strict mode takes is taken without it, as the same text.      *)
LEMMA LenientOption ==
    ASSUME NEW a, NEW b, NEW o, NEW user, NEW host, AsLenient(a, b),
           DOMAIN a = ArgsFields, a.ok \in BOOLEAN, a.agent_timeout \in 0 .. 300,
           a.ok, ParseOption(a, o, user, host).ok
    PROVE  AsLenient(ParseOption(a, o, user, host), ParseOption(b, o, user, host))
<1> DEFINE value == ExpandVars(o.value, user, host)
           c == ParseOption(a, o, user, host)
           d == ParseOption(b, o, user, host)
<1>1. DOMAIN b = ArgsFields /\ b.ok \in BOOLEAN /\ b.agent_timeout \in 0 .. 300
  BY DEF AsLenient
<1>2. Takes(c, a, o, value)
  BY OneOption
<1>3. Accepts(a.strict, o, value)
  BY OptionOk
<1>4. Accepts(b.strict, o, value)
  <2>1. b.strict = FALSE
    BY DEF AsLenient
  <2> HIDE DEF value
  <2> QED
    BY <1>3, <2>1 DEF Accepts
<1>5. d.ok \in BOOLEAN /\ d.ok
  BY <1>1, <1>4, OptionOk DEF AsLenient
<1>6. /\ DOMAIN d = ArgsFields /\ d.agent_timeout \in 0 .. 300
      /\ d.strict = b.strict /\ Takes(d, b, o, value)
  BY <1>1, <1>5, OneOption
<1> HIDE DEF c, d, value
<1>7. \A key \in TextKeys : d[key] = c[key]
  BY <1>2, <1>6 DEF Takes, AsLenient
<1>8. AsLenient(c, d)
  BY <1>5, <1>6, <1>7 DEF AsLenient
<1> QED
  BY <1>8 DEF c, d

(* What strict mode takes is what the same options make without it.        *)
LenientInv ==
    \A u \in Users :
        args[u].ok /\ args[u].strict =>
            AsLenient(args[u], Built(Others(<<>>, options)[next - 1], u, env))

(* Strict mode only refuses: what it accepts means the same without it.    *)
THEOREM StrictAddsNothing == Spec => []StrictOnlyRefuses
<1>0. <<>> \in Seq(Menu \cup {Flag("strict")})
  OBVIOUS
<1>1. Init /\ TypeOK => LenientInv
  <2> SUFFICES ASSUME Init, TypeOK, NEW u \in Users
               PROVE  AsLenient(args[u], Built(Others(<<>>, options)[0], u, env))
    <3>1. Init => next - 1 = 0
      BY DEF Init
    <3> QED
      BY <3>1 DEF LenientInv
  <2>1. Others(<<>>, options)[0] = <<>>
    BY OthersIs DEF TypeOK
  <2>2. AsLenient(Defaults(Strict(options)), Defaults(FALSE))
    <3> DEFINE d == Defaults(FALSE)
               a == Defaults(Strict(options))
    <3>1. DOMAIN d = ArgsFields /\ d.agent_timeout = 0 /\ d.strict = FALSE
      BY DEF Defaults, ArgsFields, TextKeys, DefaultTimeout
    <3>2. d.ok \in BOOLEAN /\ d.ok
      BY DEF Defaults
    <3>3. \A key \in TextKeys : d[key] = a[key]
      BY DEF Defaults, TextKeys
    <3> HIDE DEF a, d
    <3>4. AsLenient(a, d)
      BY <3>1, <3>2, <3>3 DEF AsLenient
    <3> QED
      BY <3>4 DEF a, d
  <2>3. args[u] = Defaults(Strict(options))
    BY DEF Init
  <2> QED
    BY <2>1, <2>2, <2>3, BuiltFirst
<1>2. TypeOK /\ LenientInv /\ [Next]_vars => LenientInv'
  <2> SUFFICES ASSUME TypeOK, LenientInv, [Next]_vars PROVE LenientInv'
    OBVIOUS
  <2> DEFINE p == Others(<<>>, options)
  <2>1. CASE ParseNext
    <3>1. /\ options' = options /\ env' = env
          /\ next' = next + 1 /\ next <= Len(options) /\ next' - 1 = next
      BY <2>1 DEF ParseNext, TypeOK
    <3> SUFFICES ASSUME NEW u \in Users, args'[u].ok, args'[u].strict
                 PROVE  AsLenient(args'[u], Built(p[next], u, env))
      BY <3>1 DEF LenientInv
    <3> DEFINE o == options[next]
               a == args[u]
               c == args'[u]
               b == Built(p[next - 1], u, env)
               d == Built(p[next], u, env)
    <3>2. a.ok /\ a.strict /\ Takes(c, a, o, ExpandVars(o.value, u, env))
      BY <2>1, OptionStep
    <3>3. AsLenient(a, b)
      BY <3>2 DEF LenientInv
    <3>4. c = ParseOption(a, o, u, env)
      BY <2>1 DEF ParseNext
    <3>5. /\ o.key = "strict" => p[next] = p[next - 1]
          /\ o.key # "strict" => d = ParseOption(b, o, u, env)
      BY <1>0, <3>1, OthersStep
    <3>6. CASE o.key = "strict"
      <4>1. d = b
        BY <3>5, <3>6
      <4>2. \A key \in TextKeys : c[key] = a[key]
        <5>1. "strict" \notin TextKeys
          BY DEF TextKeys
        <5> HIDE DEF o, a, c
        <5> QED
          BY <3>2, <3>6, <5>1 DEF Takes
      <4> HIDE DEF a, b, c, d
      <4>3. AsLenient(c, d)
        BY <3>3, <4>1, <4>2 DEF AsLenient
      <4> QED
        BY <4>3 DEF c, d
    <3>7. CASE o.key # "strict"
      <4>1. DOMAIN a = ArgsFields /\ a.ok \in BOOLEAN /\ a.agent_timeout \in 0 .. 300
        BY DEF TypeOK
      <4>2. d = ParseOption(b, o, u, env) /\ c.ok
        BY <3>5, <3>7
      <4> HIDE DEF a, b, c, d, o
      <4>3. AsLenient(c, d)
        BY <3>2, <3>3, <3>4, <4>1, <4>2, LenientOption
      <4> QED
        BY <4>3 DEF c, d
    <3> QED
      BY <3>6, <3>7
  <2>2. CASE Return
    <3>1. options' = options /\ env' = env /\ next' = next
      BY <2>2 DEF Return
    <3> SUFFICES ASSUME NEW u \in Users, args'[u].ok, args'[u].strict
                 PROVE  AsLenient(args'[u], Built(p[next - 1], u, env))
      BY <3>1 DEF LenientInv
    <3> DEFINE a == args[u]
               c == args'[u]
               b == Built(p[next - 1], u, env)
    <3>2. /\ a.ok /\ c["strict"] = a["strict"]
          /\ \A key \in TextKeys : c[key] = a[key]
      BY <2>2, ReturnStep DEF ArgsFields, TextKeys
    <3>3. AsLenient(a, b)
      BY <3>2 DEF LenientInv
    <3> HIDE DEF a, b, c
    <3>4. AsLenient(c, b)
      BY <3>2, <3>3 DEF AsLenient
    <3> QED
      BY <3>4 DEF b, c
  <2>3. CASE Done \/ UNCHANGED vars
    BY <2>3 DEF Done, vars, LenientInv
  <2> QED
    BY <2>1, <2>2, <2>3 DEF Next
<1>3. TypeOK /\ Over /\ LenientInv => StrictOnlyRefuses
  <2> SUFFICES ASSUME TypeOK, Over, LenientInv, NEW u \in Users, StrictOk(u)
               PROVE  /\ Lenient(u).ok
                      /\ \A key \in TextKeys : Lenient(u)[key] = args[u][key]
    BY DEF StrictOnlyRefuses
  <2> DEFINE b == Built(Others(<<>>, options)[Len(options)], u, env)
  <2>1. next - 1 = Len(options)
    BY DEF TypeOK, Over, StrictOk
  <2>2. AsLenient(args[u], b)
    BY <2>1 DEF LenientInv, StrictOk
  <2>3. Lenient(u) = Conclude(b)
    BY DEF Lenient, Parse, Built
  <2> HIDE DEF b
  <2>4. Conclude(b).ok /\ \A key \in TextKeys : Conclude(b)[key] = b[key]
    BY <2>2 DEF AsLenient, Conclude, ArgsFields, TextKeys
  <2> QED
    BY <2>2, <2>3, <2>4 DEF AsLenient
<1> QED
  BY <1>1, <1>2, <1>3, Typing, ParsedLast, PTL DEF Spec
============================================================================
