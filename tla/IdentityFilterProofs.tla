------------------------ MODULE IdentityFilterProofs ------------------------
(***************************************************************************)
(* What the loops of IdentityFilter come to, for every number of lines and *)
(* every limit.  LoadInv says that the entries collected are those of the  *)
(* lines read so far and that every source left behind was one the mode    *)
(* accepts; what the properties state without a loop follows at the end.   *)
(***************************************************************************)
EXTENDS IdentityFilter, TLAPS

USE IdentityFilterAssumption DEF IdentityFilterAssumption

(* The entries that the first k lines of a source stand for.               *)
Entries(n, k) ==
    {Entry(source[n].text[i], n = "ca_keys_file", mode) :
        i \in {j \in 1 .. k : source[n].text[j].parses}}

(* What the mode asks of a source it has read.                             *)
Understood(n) ==
    /\ mode = "Strict" =>
          /\ source[n].state \in {"good", "absent"}
          /\ \A i \in DOMAIN source[n].text :
                /\ source[n].text[i].parses
                /\ OptionsSupported(source[n].text[i], n = "ca_keys_file")
          /\ Len(source[n].text) <= MaxEntries
    /\ mode = "Legacy" =>
          \/ source[n].state \in {"good", "untrusted", "absent"}
          \/ n = "file" /\ source[n].state = "missing"

Passed == {Stages[k] : k \in 1 .. stage - 1}

(* The source being read: which of its lines have been.                    *)
ReadSoFar ==
    /\ Loading =>
          /\ line <= Len(Current.text) + 1
          /\ {parsed[i] : i \in DOMAIN parsed} = Entries(Stages[stage], line - 1)
          /\ mode = "Strict" =>
                /\ Len(parsed) = line - 1
                /\ \A i \in 1 .. line - 1 :
                      /\ Current.text[i].parses
                      /\ OptionsSupported(Current.text[i], CaKeys)

(* The sources read.                                                       *)
ReadBefore ==
    /\ \A n \in Passed : Understood(n)
    /\ identities = UNION {Entries(n, Len(source[n].text)) : n \in Passed}

LoadInv ==
    /\ source \in [Names -> Sources]
    /\ source["file"].state # "absent" /\ source["command"].state # "missing"
    /\ ReadSoFar
    /\ ReadBefore
    /\ result = "ok" =>
          stage = 4 /\ keys = OfRole("Key") /\ ca_keys = OfRole("CAKey")
    /\ result # "ok" => keys = {} /\ ca_keys = {}
    /\ result = "error" => FailuresTolerated /\ EntryLimitExact

----------------------------------------------------------------------------
(* There are three sources.                                                *)
LEMMA ThreeStages ==
    /\ Len(Stages) = 3
    /\ \A k \in 1 .. 3 : Stages[k] \in Names
    /\ Stages[1] = "file" /\ Stages[2] = "ca_keys_file" /\ Stages[3] = "command"
BY DEF Stages, Names

(* What the sources may hold, and what they hold that cannot be read.      *)
LEMMA SourceType ==
    ASSUME NEW s \in Sources
    PROVE  /\ s \in [state : SourceStates, text : Seq(Lines)]
           /\ s.state \notin {"good", "untrusted"} => s.text = <<>>
<1>1. \A t \in Texts : t \in Seq(Lines)
  BY DEF Texts
<1>2. <<>> \in Seq(Lines)
  OBVIOUS
<1>3. CASE s \in {[state |-> "good", text |-> t] : t \in Texts}
  BY <1>1, <1>3 DEF SourceStates
<1>4. CASE s \in {[state |-> "untrusted", text |-> t] : t \in Texts}
  BY <1>1, <1>4 DEF SourceStates
<1>5. CASE s \in [state : {"absent", "missing", "unreadable"}, text : {<<>>}]
  BY <1>2, <1>5 DEF SourceStates
<1> QED
  BY <1>3, <1>4, <1>5 DEF Sources

(* An entry of a line is an Authorized value.                              *)
LEMMA EntryType ==
    ASSUME NEW l \in Lines, NEW ca, NEW m PROVE Entry(l, ca, m) \in Authorized
BY DEF Entry, Authorized, Lines

(* The types of IdentityFilter's variables, for any sources.               *)
THEOREM Typing == Spec => []TypeOK
<1> USE ThreeStages
<1>1. Init => TypeOK
  <2> SUFFICES ASSUME Init PROVE TypeOK
    OBVIOUS
  <2>1. \A s \in Sources : s \in [state : SourceStates, text : Seq(Lines)]
    BY SourceType
  <2>2. source \in [Names -> [state : SourceStates, text : Seq(Lines)]]
    BY <2>1 DEF Init, Names
  <2> QED
    BY <2>2 DEF Init, TypeOK, Modes
<1>2. TypeOK /\ [Next]_vars => TypeOK'
  <2> SUFFICES ASSUME TypeOK, [Next]_vars PROVE TypeOK'
    OBVIOUS
  <2> USE DEF TypeOK
  <2>1. CASE SkipSource
    BY <2>1 DEF SkipSource, NextSource, Loading
  <2>2. CASE ReadFails
    BY <2>2 DEF ReadFails, Fail
  <2>3. Unread => Current.text[line] \in Lines /\ Stages[stage] \in Names
    BY DEF Unread, Loading, Current
  <2>4. CASE LegacyLine
    <3>1. CASE Current.text[line].parses
      <4>1. parsed' = Append(parsed, Entry(Current.text[line], CaKeys, "Legacy"))
        BY <2>4, <3>1 DEF LegacyLine, Keep
      <4>2. Entry(Current.text[line], CaKeys, "Legacy") \in Authorized
        BY <2>3, <2>4, EntryType DEF LegacyLine
      <4> QED
        BY <2>4, <3>1, <4>1, <4>2 DEF LegacyLine, Keep
    <3>2. CASE ~Current.text[line].parses
      BY <2>4, <3>2 DEF LegacyLine
    <3> QED
      BY <3>1, <3>2
  <2>5. CASE StrictLine
    <3>1. CASE Fail
      BY <3>1 DEF Fail
    <3>2. CASE ~Fail
      <4>1. Keep(Entry(Current.text[line], CaKeys, "Strict")) /\ Room
        BY <2>5, <3>2 DEF StrictLine
      <4>2. Entry(Current.text[line], CaKeys, "Strict") \in Authorized
        BY <2>3, <2>5, EntryType DEF StrictLine
      <4> QED
        BY <2>5, <4>1, <4>2 DEF Keep, Room
    <3> QED
      BY <3>1, <3>2
  <2>6. CASE EndOfSource
    BY <2>6 DEF EndOfSource, NextSource, Loading
  <2>7. CASE From
    BY <2>7 DEF From, OfRole, Authorized
  <2>8. CASE Finished \/ UNCHANGED vars
    BY <2>8 DEF Finished, vars
  <2> QED
    BY <2>1, <2>2, <2>4, <2>5, <2>6, <2>7, <2>8 DEF Next
<1> QED
  BY <1>1, <1>2, PTL DEF Spec

----------------------------------------------------------------------------
(* A line of a source is a line of Given.                                  *)
LEMMA GivenLine ==
    ASSUME TypeOK, NEW n \in Names, NEW i \in DOMAIN source[n].text
    PROVE  [line |-> source[n].text[i], ca |-> n = "ca_keys_file"] \in Given
BY DEF Given

(* The other way round.                                                    *)
LEMMA LineOf ==
    ASSUME TypeOK, NEW g \in Given
    PROVE  \E n \in Names : \E i \in DOMAIN source[n].text :
              g = [line |-> source[n].text[i], ca |-> n = "ca_keys_file"]
BY DEF Given

(* The next line adds its entry to those of the lines before it.           *)
LEMMA OneMoreLine ==
    ASSUME NEW n \in Names, NEW k \in Nat \ {0}
    PROVE  Entries(n, k) =
              Entries(n, k - 1) \cup
                 IF source[n].text[k].parses
                   THEN {Entry(source[n].text[k], n = "ca_keys_file", mode)}
                   ELSE {}
<1>1. 1 .. k = (1 .. k - 1) \cup {k}
  OBVIOUS
<1> QED
  BY <1>1 DEF Entries

(* Appending adds one value.                                               *)
LEMMA Appended ==
    ASSUME NEW S, NEW s \in Seq(S), NEW x \in S
    PROVE  LET t == Append(s, x) IN
           {t[i] : i \in DOMAIN t} = {s[i] : i \in DOMAIN s} \cup {x}
<1> DEFINE t == Append(s, x)
<1>1. DOMAIN t = 1 .. Len(s) + 1 /\ DOMAIN s = 1 .. Len(s) /\ Len(s) \in Nat
  OBVIOUS
<1>2. t[Len(s) + 1] = x /\ \A i \in 1 .. Len(s) : t[i] = s[i]
  OBVIOUS
<1> HIDE DEF t
<1>3. {t[i] : i \in DOMAIN t} = {s[i] : i \in DOMAIN s} \cup {x}
  BY <1>1, <1>2
<1> QED
  BY <1>3 DEF t

(* The source that is left behind joins those read before.                 *)
LEMMA LeaveSource ==
    ASSUME TypeOK, LoadInv, Loading,
           Understood(Stages[stage]),
           NEW items, NextSource(items),
           items = Entries(Stages[stage], Len(Current.text))
    PROVE  LoadInv'
<1> USE ThreeStages
<1> DEFINE n == Stages[stage]
<1>1. stage \in 1 .. 3 /\ n \in Names /\ stage' = stage + 1
  BY DEF TypeOK, Loading, NextSource
<1>2. Passed' = Passed \cup {n}
  <2>1. 1 .. stage' - 1 = (1 .. stage - 1) \cup {stage}
    BY <1>1
  <2> QED
    BY <2>1 DEF Passed
<1>3. UNCHANGED <<mode, source, result, keys, ca_keys>>
  BY DEF NextSource
<1>4. \A m : Understood(m)' = Understood(m)
  BY <1>3 DEF Understood
<1>5. \A m, k : Entries(m, k)' = Entries(m, k)
  BY <1>3 DEF Entries
<1>6. identities' = identities \cup Entries(n, Len(source[n].text))
  BY DEF NextSource, Current
<1> HIDE DEF n
<1>7. \A m \in Passed' : Understood(m)
  BY <1>2 DEF n, LoadInv, ReadBefore
<1>8. identities' = UNION {Entries(m, Len(source[m].text)) : m \in Passed'}
  BY <1>2, <1>6 DEF LoadInv, ReadBefore
<1>9. ReadBefore'
  BY <1>3, <1>4, <1>5, <1>7, <1>8 DEF ReadBefore
<1>10. ReadSoFar'
  <2>1. line' = 1 /\ parsed' = <<>>
    BY DEF NextSource
  <2>2. {parsed'[i] : i \in DOMAIN parsed'} = {}
    BY <2>1
  <2>3. Entries(Stages[stage'], line' - 1) = {}
    BY <2>1 DEF Entries
  <2>4. Loading' => Len(Current.text)' \in Nat
    <3>1. Loading' => Stages[stage'] \in Names
      BY <1>1, <1>3 DEF Loading
    <3> QED
      BY <1>3, <3>1 DEF Current, TypeOK
  <2>5. Entries(Stages[stage], line - 1)' = {}
    BY <1>5, <2>3
  <2> QED
    BY <2>1, <2>2, <2>4, <2>5 DEF ReadSoFar
<1> QED
  BY <1>3, <1>9, <1>10 DEF LoadInv, Loading

(* What has been read does not change by itself.                           *)
LEMMA SameReadBefore ==
    ASSUME ReadBefore, UNCHANGED <<mode, source, stage, identities>>
    PROVE  ReadBefore'
<1>1. Passed' = Passed
  BY DEF Passed
<1>2. \A m : Understood(m)' = Understood(m)
  BY DEF Understood
<1>3. \A m, k : Entries(m, k)' = Entries(m, k)
  BY DEF Entries
<1> QED
  BY <1>1, <1>2, <1>3 DEF ReadBefore

(* A line that has been kept, or passed over, is read.                     *)
LEMMA LineRead ==
    ASSUME TypeOK, LoadInv, Unread,
           line' = line + 1,
           UNCHANGED <<mode, source, stage, identities, result, keys, ca_keys>>,
           LET l == Current.text[line] IN
           /\ l.parses => parsed' = Append(parsed, Entry(l, CaKeys, mode))
           /\ ~l.parses => parsed' = parsed
           /\ mode = "Strict" => l.parses /\ OptionsSupported(l, CaKeys)
    PROVE  LoadInv'
<1> USE ThreeStages
<1> DEFINE n == Stages[stage]
           l == Current.text[line]
<1>1. n \in Names /\ line \in Nat \ {0} /\ l \in Lines /\ Loading
  BY DEF Unread, Loading, Current, TypeOK
<1>2. l = source[n].text[line] /\ CaKeys = (n = "ca_keys_file")
  BY DEF Current, CaKeys
<1>3. Entry(l, CaKeys, mode) \in Authorized
  BY <1>1, EntryType
<1>4. {parsed'[i] : i \in DOMAIN parsed'} =
        {parsed[i] : i \in DOMAIN parsed} \cup
           IF l.parses THEN {Entry(l, CaKeys, mode)} ELSE {}
  <2>1. CASE l.parses
    <3>1. parsed' = Append(parsed, Entry(l, CaKeys, mode))
      BY <2>1
    <3>2. parsed \in Seq(Authorized)
      BY DEF TypeOK
    <3> QED
      BY <2>1, <3>1, <3>2, <1>3, Appended
  <2>2. CASE ~l.parses
    BY <2>2
  <2> QED
    BY <2>1, <2>2
<1>5. Entries(n, line) =
        Entries(n, line - 1) \cup
           IF l.parses THEN {Entry(l, CaKeys, mode)} ELSE {}
  <2> HIDE DEF n, l
  <2> QED
    BY <1>1, <1>2, OneMoreLine
<1>6. {parsed[i] : i \in DOMAIN parsed} = Entries(n, line - 1)
  BY <1>1 DEF LoadInv, ReadSoFar
<1>7. \A m, k : Entries(m, k)' = Entries(m, k)
  BY DEF Entries
<1>8. {parsed'[i] : i \in DOMAIN parsed'} = Entries(n, line)
  BY <1>4, <1>5, <1>6
<1>9. Entries(Stages[stage], line - 1)' = Entries(n, line)
  BY <1>1, <1>7
<1>10. mode = "Strict" =>
         /\ Len(parsed') = line
         /\ \A i \in 1 .. line :
               Current.text[i].parses /\ OptionsSupported(Current.text[i], CaKeys)
  <2> SUFFICES ASSUME mode = "Strict"
               PROVE  /\ Len(parsed') = line
                      /\ \A i \in 1 .. line :
                            /\ Current.text[i].parses
                            /\ OptionsSupported(Current.text[i], CaKeys)
    OBVIOUS
  <2>1. l.parses /\ OptionsSupported(l, CaKeys)
    OBVIOUS
  <2>2. /\ Len(parsed) = line - 1
        /\ \A i \in 1 .. line - 1 :
              Current.text[i].parses /\ OptionsSupported(Current.text[i], CaKeys)
    BY <1>1 DEF LoadInv, ReadSoFar
  <2>3. Len(parsed') = Len(parsed) + 1
    BY <2>1, <1>3 DEF TypeOK
  <2>4. \A i \in 1 .. line : i \in 1 .. line - 1 \/ i = line
    BY <1>1
  <2> QED
    BY <1>1, <2>1, <2>2, <2>3, <2>4
<1>11. line <= Len(Current.text)
  BY DEF Unread
<1>12. Current' = Current /\ CaKeys' = CaKeys
  BY DEF Current, CaKeys
<1>13. ReadSoFar'
  <2>1. line' <= Len(Current.text)' + 1
    BY <1>1, <1>2, <1>11, <1>12 DEF TypeOK
  <2>2. line' - 1 = line
    BY <1>1
  <2> HIDE DEF n, l
  <2> QED
    BY <1>8, <1>9, <1>10, <1>12, <2>1, <2>2 DEF ReadSoFar, OptionsSupported, IsCa
<1>14. ReadBefore'
  BY SameReadBefore DEF LoadInv
<1> QED
  BY <1>13, <1>14, <1>1 DEF LoadInv, Loading

(* A policy that fails has a source that explains it.                      *)
LEMMA FailureExplained ==
    ASSUME TypeOK, LoadInv, Loading, Fail,
           \/ /\ ~Readable
              /\ Current.state # "absent" /\ ~MissingTolerated
           \/ /\ mode = "Strict"
              /\ Unread
              /\ ~(/\ Current.text[line].parses
                   /\ OptionsSupported(Current.text[line], CaKeys)
                   /\ Room)
    PROVE  LoadInv'
<1> USE ThreeStages
<1> DEFINE n == Stages[stage]
<1>1. n \in Names /\ Current = source[n]
  BY DEF Loading, TypeOK, Current
<1>2. /\ UNCHANGED <<mode, source, stage, line, parsed, identities, keys, ca_keys>>
      /\ result' = "error"
  BY DEF Fail
<1>3. mode = "Legacy" => /\ ~Readable
                         /\ Current.state # "absent" /\ ~MissingTolerated
  BY DEF Loading
<1>4. FailuresTolerated'
  <2> SUFFICES ASSUME mode = "Legacy"
               PROVE  \/ source["file"].state = "unreadable"
                      \/ source["ca_keys_file"].state \in {"missing", "unreadable"}
                      \/ source["command"].state = "unreadable"
    BY <1>2 DEF FailuresTolerated
  <2>1. source[n].state \in {"missing", "unreadable"}
    BY <1>1, <1>3 DEF Readable, TypeOK, SourceStates
  <2>2. n = "file" => source[n].state # "missing"
    BY <1>1, <1>3 DEF MissingTolerated
  <2> QED
    BY <1>1, <2>1, <2>2 DEF Names, LoadInv
<1>5. EntryLimitExact'
  <2> SUFFICES ASSUME mode = "Strict",
                      \A g \in Given : g.line.parses /\ g.line.options = <<>>,
                      source["file"].state = "good",
                      \A m \in Names : source[m].state \in {"good", "absent"}
               PROVE  ~ \A m \in Names : Len(source[m].text) <= MaxEntries
    <3>1. Given' = Given
      BY <1>2 DEF Given
    <3> QED
      BY <1>2, <3>1 DEF EntryLimitExact
  <2>1. Readable \/ Current.state = "absent"
    BY <1>1 DEF Readable
  <2>2. /\ Unread
        /\ ~(/\ Current.text[line].parses
             /\ OptionsSupported(Current.text[line], CaKeys)
             /\ Room)
    BY <2>1
  <2>3. line \in DOMAIN source[n].text
    BY <1>1, <2>2 DEF Unread, TypeOK
  <2>4. Current.text[line].parses /\ Current.text[line].options = <<>>
    <3>1. [line |-> source[n].text[line], ca |-> n = "ca_keys_file"] \in Given
      BY <1>1, <2>3, GivenLine
    <3> QED
      BY <1>1, <3>1
  <2>5. ~Room
    BY <2>2, <2>4 DEF OptionsSupported
  <2>6. Len(parsed) = line - 1
    BY DEF LoadInv, ReadSoFar
  <2>7. Len(source[n].text) > MaxEntries
    BY <1>1, <2>2, <2>5, <2>6 DEF Room, Unread, TypeOK
  <2> QED
    BY <1>1, <2>7 DEF TypeOK
<1>6. ReadBefore'
  BY <1>2, SameReadBefore DEF LoadInv
<1>7. ReadSoFar' /\ result' # "ok"
  BY <1>2 DEF ReadSoFar, Loading
<1> QED
  BY <1>2, <1>4, <1>5, <1>6, <1>7 DEF LoadInv, Loading

(* Every step keeps the loops in line with the sources.                    *)
LEMMA LoadStep ==
    ASSUME TypeOK, LoadInv, [Next]_vars
    PROVE  LoadInv'
<1> USE ThreeStages
<1>1. Loading =>
        /\ Stages[stage] \in Names /\ Current = source[Stages[stage]]
        /\ source[Stages[stage]] \in Sources
        /\ CaKeys = (Stages[stage] = "ca_keys_file")
  BY DEF Loading, TypeOK, Current, CaKeys, LoadInv
<1>2. CASE SkipSource
  <2> DEFINE n == Stages[stage]
  <2>1. /\ Loading /\ NextSource({})
        /\ source[n].state \in {"absent", "missing"}
        /\ source[n].state = "absent" \/ (n = "file" /\ mode = "Legacy")
    BY <1>1, <1>2 DEF SkipSource, MissingTolerated
  <2>2. source[n].text = <<>>
    BY <1>1, <2>1, SourceType
  <2>3. Understood(n)
    BY <2>1, <2>2 DEF Understood
  <2>4. Entries(n, Len(Current.text)) = {}
    BY <1>1, <2>1, <2>2 DEF Entries
  <2> QED
    BY <2>1, <2>3, <2>4, LeaveSource
<1>3. CASE ReadFails
  BY <1>3, FailureExplained DEF ReadFails
<1>4. CASE LegacyLine
  <2>1. Unread /\ mode = "Legacy"
    BY <1>4 DEF LegacyLine
  <2>2. CASE Current.text[line].parses
    <3>1. Keep(Entry(Current.text[line], CaKeys, mode))
      BY <1>4, <2>1, <2>2 DEF LegacyLine
    <3> QED
      BY <2>1, <2>2, <3>1, LineRead DEF Keep
  <2>3. CASE ~Current.text[line].parses
    BY <1>4, <2>1, <2>3, LineRead DEF LegacyLine
  <2> QED
    BY <2>2, <2>3
<1>5. CASE StrictLine
  <2>1. Unread /\ mode = "Strict"
    BY <1>5 DEF StrictLine
  <2>2. CASE /\ Current.text[line].parses
             /\ OptionsSupported(Current.text[line], CaKeys)
             /\ Room
    <3>1. Keep(Entry(Current.text[line], CaKeys, mode))
      BY <1>5, <2>1, <2>2 DEF StrictLine
    <3> QED
      BY <2>1, <2>2, <3>1, LineRead DEF Keep
  <2>3. CASE ~(/\ Current.text[line].parses
               /\ OptionsSupported(Current.text[line], CaKeys)
               /\ Room)
    <3>1. Fail /\ Loading
      BY <1>5, <2>3 DEF StrictLine, Unread
    <3> QED
      BY <2>1, <2>3, <3>1, FailureExplained
  <2> QED
    BY <2>2, <2>3
<1>6. CASE EndOfSource
  <2> DEFINE n == Stages[stage]
  <2>1. /\ Loading /\ Readable /\ line > Len(Current.text)
        /\ NextSource({parsed[i] : i \in DOMAIN parsed})
    BY <1>6 DEF EndOfSource
  <2>2. line - 1 = Len(Current.text) /\ Len(Current.text) \in Nat
    BY <1>1, <2>1 DEF LoadInv, ReadSoFar, TypeOK
  <2>3. {parsed[i] : i \in DOMAIN parsed} = Entries(n, Len(Current.text))
    BY <2>1, <2>2 DEF LoadInv, ReadSoFar
  <2>4. Understood(n)
    <3>1. CASE mode = "Legacy"
      BY <1>1, <2>1, <3>1 DEF Understood, Readable
    <3>2. CASE mode = "Strict"
      <4>1. /\ Len(parsed) = Len(Current.text)
            /\ \A i \in 1 .. Len(Current.text) :
                  /\ Current.text[i].parses
                  /\ OptionsSupported(Current.text[i], CaKeys)
        BY <2>1, <2>2, <3>2 DEF LoadInv, ReadSoFar
      <4>2. Len(parsed) <= MaxEntries /\ source[n].state = "good"
        BY <1>1, <2>1, <3>2 DEF TypeOK, Readable
      <4>3. DOMAIN Current.text = 1 .. Len(Current.text)
        BY <1>1, <2>1 DEF TypeOK
      <4> QED
        BY <1>1, <2>1, <3>2, <4>1, <4>2, <4>3 DEF Understood
    <3> QED
      BY <3>1, <3>2 DEF TypeOK, Modes
  <2> QED
    BY <2>1, <2>3, <2>4, LeaveSource
<1>7. CASE From
  <2>1. /\ UNCHANGED <<mode, source, stage, line, parsed, identities>>
        /\ stage = 4 /\ result' = "ok"
        /\ keys' = OfRole("Key") /\ ca_keys' = OfRole("CAKey")
    BY <1>7 DEF From
  <2>2. keys' = OfRole("Key")' /\ ca_keys' = OfRole("CAKey")'
    BY <2>1 DEF OfRole
  <2>3. ReadSoFar'
    BY <2>1 DEF ReadSoFar, Loading
  <2>4. ReadBefore'
    BY <2>1, SameReadBefore DEF LoadInv
  <2> QED
    BY <2>1, <2>2, <2>3, <2>4 DEF LoadInv
<1>8. CASE Finished \/ UNCHANGED vars
  <2>1. UNCHANGED vars
    BY <1>8 DEF Finished
  <2>2. ReadBefore'
    BY <2>1, SameReadBefore DEF LoadInv, vars
  <2>3. \A m, k : Entries(m, k)' = Entries(m, k)
    BY <2>1 DEF vars, Entries
  <2>4. Current' = Current /\ CaKeys' = CaKeys /\ Loading' = Loading
    BY <2>1 DEF vars, Current, CaKeys, Loading
  <2>5. Entries(Stages[stage], line - 1)' = Entries(Stages[stage], line - 1)
    BY <2>1, <2>3 DEF vars
  <2>6. ReadSoFar'
    BY <2>1, <2>4, <2>5 DEF vars, LoadInv, ReadSoFar
  <2>7. FailuresTolerated' = FailuresTolerated /\ EntryLimitExact' = EntryLimitExact
    BY <2>1 DEF vars, FailuresTolerated, EntryLimitExact, Given
  <2>8. \A role : OfRole(role)' = OfRole(role)
    BY <2>1 DEF vars, OfRole
  <2> QED
    BY <2>1, <2>2, <2>6, <2>7, <2>8 DEF vars, LoadInv
<1> QED
  BY <1>2, <1>3, <1>4, <1>5, <1>6, <1>7, <1>8 DEF Next

(* The strengthening holds in every execution.                             *)
LEMMA Load == Spec => []LoadInv
<1>1. Init => LoadInv
  <2> SUFFICES ASSUME Init PROVE LoadInv
    OBVIOUS
  <2>1. /\ source \in [Names -> Sources]
        /\ source["file"].state # "absent" /\ source["command"].state # "missing"
    BY DEF Init, Names
  <2>2. \A n \in Names : Len(source[n].text) \in Nat
    BY <2>1, SourceType
  <2>3. Passed = {}
    BY DEF Init, Passed
  <2>4. ReadSoFar
    BY <2>2, ThreeStages DEF Init, ReadSoFar, Current, Entries
  <2> QED
    BY <2>1, <2>3, <2>4 DEF Init, LoadInv, ReadBefore
<1>2. TypeOK /\ LoadInv /\ [Next]_vars => LoadInv'
  BY LoadStep
<1> QED
  BY <1>1, <1>2, Typing, PTL DEF Spec

----------------------------------------------------------------------------
(* An accepted policy has passed all three sources.                        *)
LEMMA AllPassed ==
    ASSUME TypeOK, LoadInv, result = "ok"
    PROVE  /\ \A n \in Names : Understood(n)
           /\ identities = UNION {Entries(n, Len(source[n].text)) : n \in Names}
<1>1. 1 .. stage - 1 = {1, 2, 3}
  BY DEF LoadInv
<1>2. Passed = Names
  BY <1>1, ThreeStages DEF Passed, Names
<1> QED
  BY <1>2 DEF LoadInv, ReadBefore

(* Its identities are the entries of the lines that parse.                 *)
LEMMA IdentitiesGiven ==
    ASSUME TypeOK, LoadInv, result = "ok"
    PROVE  identities = {Entry(g.line, g.ca, mode) :
                            g \in {h \in Given : h.line.parses}}
<1> DEFINE E == {Entry(g.line, g.ca, mode) : g \in {h \in Given : h.line.parses}}
<1>1. ASSUME NEW a \in identities PROVE a \in E
  <2>1. PICK n \in Names : a \in Entries(n, Len(source[n].text))
    BY AllPassed
  <2>2. PICK i \in 1 .. Len(source[n].text) :
           /\ source[n].text[i].parses
           /\ a = Entry(source[n].text[i], n = "ca_keys_file", mode)
    BY <2>1 DEF Entries
  <2>3. i \in DOMAIN source[n].text
    BY <2>2 DEF TypeOK
  <2>4. [line |-> source[n].text[i], ca |-> n = "ca_keys_file"] \in Given
    BY <2>3, GivenLine
  <2> QED
    BY <2>2, <2>4
<1>2. ASSUME NEW a \in E PROVE a \in identities
  <2>1. PICK g \in Given : g.line.parses /\ a = Entry(g.line, g.ca, mode)
    OBVIOUS
  <2>2. PICK n \in Names : \E i \in DOMAIN source[n].text :
           g = [line |-> source[n].text[i], ca |-> n = "ca_keys_file"]
    BY LineOf
  <2>3. PICK i \in DOMAIN source[n].text :
           g = [line |-> source[n].text[i], ca |-> n = "ca_keys_file"]
    BY <2>2
  <2>4. /\ i \in 1 .. Len(source[n].text)
        /\ g.line = source[n].text[i] /\ g.ca = (n = "ca_keys_file")
    BY <2>3 DEF TypeOK
  <2>5. a \in Entries(n, Len(source[n].text))
    BY <2>1, <2>4 DEF Entries
  <2> QED
    BY <2>5, AllPassed
<1> QED
  BY <1>1, <1>2

(* To a line strict mode understands legacy mode gives the same meaning.   *)
LEMMA SameMeaning ==
    ASSUME NEW l, NEW ca \in BOOLEAN, OptionsSupported(l, ca)
    PROVE  Entry(l, ca, "Strict") = Entry(l, ca, "Legacy")
<1>1. CASE l.options = <<>>
  BY <1>1 DEF Entry, IsCa, HasOption
<1>2. CASE l.options = <<"cert-authority">>
  <2>1. HasOption(l, "cert-authority")
    BY <1>2 DEF HasOption
  <2> QED
    BY <1>2, <2>1 DEF Entry, IsCa
<1> QED
  BY <1>1, <1>2 DEF OptionsSupported

(* In an accepted strict policy every line parses and is understood.       *)
LEMMA StrictLines ==
    ASSUME TypeOK, LoadInv, result = "ok", mode = "Strict", NEW g \in Given
    PROVE  g.line.parses /\ OptionsSupported(g.line, g.ca) /\ g.ca \in BOOLEAN
<1>1. PICK n \in Names : \E i \in DOMAIN source[n].text :
         g = [line |-> source[n].text[i], ca |-> n = "ca_keys_file"]
  BY LineOf
<1>2. PICK i \in DOMAIN source[n].text :
         g = [line |-> source[n].text[i], ca |-> n = "ca_keys_file"]
  BY <1>1
<1>3. g.line = source[n].text[i] /\ g.ca = (n = "ca_keys_file")
  BY <1>2
<1>4. source[n].text[i].parses /\ OptionsSupported(source[n].text[i], n = "ca_keys_file")
  BY AllPassed DEF Understood
<1> QED
  BY <1>3, <1>4

(* A strict policy is the one legacy mode reads from the same sources, and
   it hides no line that does not parse.                                   *)
THEOREM NeverBroadens == Spec => []StrictNeverBroadens
<1>1. TypeOK /\ LoadInv => StrictNeverBroadens
  <2> SUFFICES ASSUME TypeOK, LoadInv, mode = "Strict", result = "ok"
               PROVE  /\ keys = LegacyPolicy("Key")
                      /\ ca_keys = LegacyPolicy("CAKey")
                      /\ \A g \in Given : g.line.parses
    BY DEF StrictNeverBroadens
  <2>1. \A g \in Given : /\ g.line.parses
                        /\ Entry(g.line, g.ca, mode) = Entry(g.line, g.ca, "Legacy")
    BY StrictLines, SameMeaning
  <2>2. identities = {Entry(g.line, g.ca, "Legacy") : g \in Given}
    BY <2>1, IdentitiesGiven
  <2>3. \A g \in Given : Entry(g.line, g.ca, "Legacy").key = g.line.key
    BY DEF Entry
  <2>4. \A role : OfRole(role) = LegacyPolicy(role)
    BY <2>1, <2>2, <2>3 DEF OfRole, LegacyPolicy
  <2> QED
    BY <2>1, <2>4 DEF LoadInv
<1> QED
  BY <1>1, Typing, Load, PTL

(* Strict mode accepts nothing it may not read or does not understand, and
   legacy mode fails if and only if a source cannot be read.               *)
THEOREM Tolerated == Spec => []FailuresTolerated
<1>1. TypeOK /\ LoadInv => FailuresTolerated
  <2> SUFFICES ASSUME TypeOK, LoadInv, result = "ok"
               PROVE  FailuresTolerated
    BY DEF LoadInv, TypeOK, FailuresTolerated
  <2>0. CASE mode = "Legacy"
    <3>1. \A n \in Names :
             \/ source[n].state \in {"good", "untrusted", "absent"}
             \/ n = "file" /\ source[n].state = "missing"
      BY <2>0, AllPassed DEF Understood
    <3> QED
      BY <2>0, <3>1 DEF FailuresTolerated, Names
  <2> SUFFICES ASSUME mode = "Strict"
               PROVE  /\ source["file"].state = "good"
                      /\ \A n \in Names : source[n].state \in {"good", "absent"}
                      /\ \A g \in Given : ~HasOption(g.line, "other")
    BY <2>0 DEF FailuresTolerated, TypeOK, Modes
  <2>1. \A n \in Names : source[n].state \in {"good", "absent"}
    BY AllPassed DEF Understood
  <2>2. source["file"].state = "good"
    BY <2>1 DEF LoadInv, Names
  <2>3. ASSUME NEW g \in Given PROVE ~HasOption(g.line, "other")
    <3>1. g.line.options = <<>> \/ g.line.options = <<"cert-authority">>
      BY StrictLines DEF OptionsSupported
    <3> QED
      BY <3>1 DEF HasOption
  <2> QED
    BY <2>1, <2>2, <2>3
<1> QED
  BY <1>1, Typing, Load, PTL

(* A key has a role only because some line gives it that role.             *)
THEOREM RolesApart == Spec => []RolesKeptApart
<1>1. TypeOK /\ LoadInv => RolesKeptApart
  <2> SUFFICES ASSUME TypeOK, LoadInv PROVE RolesKeptApart
    OBVIOUS
  <2>1. CASE result = "ok"
    <3>1. ASSUME NEW role, NEW k \in OfRole(role)
          PROVE  \E g \in Given :
                    k = g.line.key /\ Entry(g.line, g.ca, mode).role = role
      <4>1. PICK a \in identities : a.role = role /\ a.key = k
        BY <3>1 DEF OfRole
      <4>2. PICK g \in Given : a = Entry(g.line, g.ca, mode)
        BY <2>1, IdentitiesGiven
      <4> QED
        BY <4>1, <4>2 DEF Entry
    <3>2. ASSUME NEW g \in Given
          PROVE  /\ Entry(g.line, g.ca, mode).role = "Key" =>
                       ~g.ca /\ ~HasOption(g.line, "cert-authority")
                 /\ Entry(g.line, g.ca, mode).role = "CAKey" =>
                       g.ca \/ HasOption(g.line, "cert-authority")
      <4>1. CASE mode = "Legacy"
        BY <4>1 DEF Entry, IsCa
      <4>2. CASE mode = "Strict"
        BY <2>1, <4>2, StrictLines, SameMeaning DEF Entry, IsCa
      <4> QED
        BY <4>1, <4>2 DEF TypeOK, Modes
    <3> QED
      BY <2>1, <3>1, <3>2 DEF RolesKeptApart, LoadInv
  <2>2. CASE result # "ok"
    BY <2>2 DEF LoadInv, RolesKeptApart
  <2> QED
    BY <2>1, <2>2
<1> QED
  BY <1>1, Typing, Load, PTL

(* The limit on the entries of a source is exact.                          *)
THEOREM LimitExact == Spec => []EntryLimitExact
<1>1. TypeOK /\ LoadInv => EntryLimitExact
  <2> SUFFICES ASSUME TypeOK, LoadInv, result = "ok", mode = "Strict"
               PROVE  \A n \in Names : Len(source[n].text) <= MaxEntries
    BY DEF EntryLimitExact, LoadInv, TypeOK
  <2> QED
    BY AllPassed DEF Understood
<1> QED
  BY <1>1, Typing, Load, PTL
============================================================================
