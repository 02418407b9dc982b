------------------------- MODULE AcquisitionProofs -------------------------
(***************************************************************************)
(* Proofs about Acquisition for every text a model may return, every part  *)
(* of the registries that is planned and every threshold of the gates: the *)
(* records account for the calls, a gate is opened by what was observed    *)
(* before it, what is new is new once, and a cluster of values is what its *)
(* readings agree on.                                                      *)
(***************************************************************************)
EXTENDS Acquisition, FiniteFacts

Texts == TextsOf[relation] \cup {Raised}

(***************************************************************************)
(* Sequences                                                               *)
(***************************************************************************)

IsSequence(s) == s \in Seq(Seen(s))

LEMMA AnySequence ==
  ASSUME NEW S, NEW s \in Seq(S)
  PROVE  IsSequence(s) /\ Seen(s) \subseteq S
<1>1. /\ Len(s) \in Nat /\ DOMAIN s = 1..Len(s)
      /\ s = [i \in 1..Len(s) |-> s[i]] /\ \A i \in 1..Len(s) : s[i] \in S /\ s[i] \in Seen(s)
  BY DEF Seen
<1>2. s \in [1..Len(s) -> Seen(s)]
  BY <1>1
<1>3. s \in Seq(Seen(s))
  BY <1>1, <1>2
<1>4. Seen(s) \subseteq S
  BY <1>1 DEF Seen
<1> QED BY <1>3, <1>4 DEF IsSequence

LEMMA SequenceDomain ==
  ASSUME NEW s, IsSequence(s)
  PROVE  Len(s) \in Nat /\ DOMAIN s = 1..Len(s) /\ IsFiniteSet(DOMAIN s)
<1>1. Len(s) \in Nat /\ DOMAIN s = 1..Len(s)
  BY DEF IsSequence
<1>2. IsFiniteSet(1..Len(s))
  BY <1>1, FS_Interval
<1> QED BY <1>1, <1>2

LEMMA EmptySequence == IsSequence(<<>>) /\ Seen(<<>>) = {}
BY DEF IsSequence, Seen

LEMMA OneSequence ==
  ASSUME NEW e
  PROVE  IsSequence(<<e>>) /\ Seen(<<e>>) = {e} /\ Len(<<e>>) = 1 /\ <<e>>[1] = e
<1>1. <<e>> \in Seq({e})
  OBVIOUS
<1>2. IsSequence(<<e>>)
  BY <1>1, AnySequence
<1> QED BY <1>2 DEF Seen

LEMMA ShortSequences ==
  /\ IsSequence(<<>>)
  /\ \A a : IsSequence(<<a>>)
  /\ \A a, b : IsSequence(<<a, b>>)
  /\ \A a, b, c : IsSequence(<<a, b, c>>)
  /\ \A a, b, c, d : IsSequence(<<a, b, c, d>>)
  /\ \A a, b, c, d, e : IsSequence(<<a, b, c, d, e>>)
<1>1. \A a : <<a>> \in Seq({a})
  OBVIOUS
<1>2. \A a, b : <<a, b>> \in Seq({a, b})
  OBVIOUS
<1>3. \A a, b, c : <<a, b, c>> \in Seq({a, b, c})
  OBVIOUS
<1>4. \A a, b, c, d : <<a, b, c, d>> \in Seq({a, b, c, d})
  OBVIOUS
<1>5. \A a, b, c, d, e : <<a, b, c, d, e>> \in Seq({a, b, c, d, e})
  OBVIOUS
<1>6. \A S : \A s \in Seq(S) : IsSequence(s)
  BY AnySequence
<1>7. \A a, b : IsSequence(<<a, b>>)
  BY <1>2, <1>6
<1>8. \A a, b, c : IsSequence(<<a, b, c>>)
  BY <1>3, <1>6
<1>9. \A a, b, c, d : IsSequence(<<a, b, c, d>>)
  BY <1>4, <1>6
<1>10. \A a, b, c, d, e : IsSequence(<<a, b, c, d, e>>)
  BY <1>5, <1>6
<1>11. \A a : IsSequence(<<a>>)
  BY <1>1, <1>6
<1> QED BY <1>7, <1>8, <1>9, <1>10, <1>11, EmptySequence

LEMMA JoinedSequence ==
  ASSUME NEW s, NEW t, IsSequence(s), IsSequence(t)
  PROVE  /\ IsSequence(s \o t) /\ Seen(s \o t) = Seen(s) \cup Seen(t)
         /\ Len(s \o t) = Len(s) + Len(t) /\ Len(s) \in Nat /\ Len(t) \in Nat
         /\ DOMAIN (s \o t) = 1..(Len(s) + Len(t))
         /\ DOMAIN s = 1..Len(s) /\ DOMAIN t = 1..Len(t)
         /\ \A i \in 1..Len(s) : (s \o t)[i] = s[i]
         /\ \A i \in 1..Len(t) : (s \o t)[Len(s) + i] = t[i]
<1> DEFINE S == Seen(s) \cup Seen(t)
           u == s \o t
<1>1. s \in Seq(S) /\ t \in Seq(S)
  BY SeqMonotonic DEF IsSequence
<1> HIDE DEF S
<1>2. /\ u \in Seq(S) /\ Len(u) = Len(s) + Len(t)
      /\ \A i \in 1..(Len(s) + Len(t)) :
           u[i] = IF i <= Len(s) THEN s[i] ELSE t[i - Len(s)]
  BY <1>1, ConcatProperties
<1>3. /\ Len(s) \in Nat /\ Len(t) \in Nat /\ DOMAIN u = 1..(Len(s) + Len(t))
      /\ DOMAIN s = 1..Len(s) /\ DOMAIN t = 1..Len(t)
  BY <1>1, <1>2, LenProperties
<1> HIDE DEF u
<1>4. \A i \in 1..Len(s) : u[i] = s[i]
  BY <1>2, <1>3
<1>5. \A i \in 1..Len(t) : u[Len(s) + i] = t[i]
  BY <1>2, <1>3
<1>6. IsSequence(u)
  BY <1>2, AnySequence
<1>7. Seen(u) = Seen(s) \cup Seen(t)
  <2>1. ASSUME NEW i \in DOMAIN u PROVE u[i] \in Seen(s) \cup Seen(t)
    <3>1. CASE i <= Len(s)
      BY <1>3, <1>4, <3>1 DEF Seen
    <3>2. CASE i > Len(s)
      <4>1. i - Len(s) \in DOMAIN t /\ u[i] = t[i - Len(s)]
        BY <1>2, <1>3, <3>2
      <4> QED BY <4>1 DEF Seen
    <3> QED BY <1>3, <3>1, <3>2
  <2>2. \A i \in DOMAIN s : i \in DOMAIN u /\ u[i] = s[i]
    BY <1>3, <1>4
  <2>3. \A i \in DOMAIN t : Len(s) + i \in DOMAIN u /\ u[Len(s) + i] = t[i]
    BY <1>3, <1>5
  <2> QED BY <2>1, <2>2, <2>3 DEF Seen
<1> QED BY <1>2, <1>3, <1>4, <1>5, <1>6, <1>7 DEF u

LEMMA HeadAndRest ==
  ASSUME NEW s, IsSequence(s), s # <<>>
  PROVE  /\ Len(s) \in Nat /\ Len(s) > 0 /\ DOMAIN s = 1..Len(s)
         /\ Head(s) = s[1] /\ Head(s) \in Seen(s)
         /\ IsSequence(Tail(s)) /\ DOMAIN Tail(s) = 1..(Len(s) - 1)
         /\ \A i \in 1..(Len(s) - 1) : Tail(s)[i] = s[i + 1]
         /\ Seen(s) = {Head(s)} \cup Seen(Tail(s))
<1>1. /\ s \in Seq(Seen(s)) /\ Len(s) \in Nat /\ Len(s) > 0 /\ DOMAIN s = 1..Len(s)
  BY DEF IsSequence
<1>2. /\ Head(s) = s[1] /\ Tail(s) \in Seq(Seen(s)) /\ Len(Tail(s)) = Len(s) - 1
      /\ \A i \in 1..Len(Tail(s)) : Tail(s)[i] = s[i + 1]
  BY <1>1
<1>3. IsSequence(Tail(s)) /\ DOMAIN Tail(s) = 1..(Len(s) - 1)
  <2>1. IsSequence(Tail(s))
    BY <1>2, AnySequence
  <2>2. DOMAIN Tail(s) = 1..Len(Tail(s))
    BY <1>2, LenProperties
  <2> QED BY <1>2, <2>1, <2>2
<1>4. Seen(s) = {Head(s)} \cup Seen(Tail(s))
  <2>1. \A i \in 1..Len(s) : i = 1 \/ (i - 1 \in 1..(Len(s) - 1) /\ (i - 1) + 1 = i)
    BY <1>1
  <2>2. 1 \in DOMAIN s /\ \A i \in 1..(Len(s) - 1) : i + 1 \in DOMAIN s
    BY <1>1
  <2>3. ASSUME NEW i \in DOMAIN s PROVE s[i] \in {Head(s)} \cup Seen(Tail(s))
    <3>1. CASE i = 1
      BY <1>2, <3>1
    <3>2. CASE i # 1
      <4>1. i - 1 \in DOMAIN Tail(s) /\ Tail(s)[i - 1] = s[i]
        BY <1>1, <1>2, <1>3, <2>1, <3>2
      <4> QED BY <4>1 DEF Seen
    <3> QED BY <3>1, <3>2
  <2>4. ASSUME NEW i \in DOMAIN Tail(s) PROVE Tail(s)[i] \in Seen(s)
    <3>1. i + 1 \in DOMAIN s /\ Tail(s)[i] = s[i + 1]
      BY <1>1, <1>2, <1>3, <2>2
    <3> QED BY <3>1 DEF Seen
  <2>5. Head(s) \in Seen(s)
    BY <1>2, <2>2 DEF Seen
  <2> QED BY <2>3, <2>4, <2>5 DEF Seen
<1> QED BY <1>1, <1>2, <1>3, <1>4 DEF Seen

(***************************************************************************)
(* What a parser makes of a text                                           *)
(***************************************************************************)

IsObservation(o, p, s, t) == o = Observe(p, s, o.status, o.kind, o.name, t)

\* The observations of one answer: at least one, all of the probe and the
\* text, and one that says so of a call that raised.
Reply(found, p, s, t) ==
  /\ IsSequence(found) /\ found # <<>>
  /\ \A i \in DOMAIN found :
       IsObservation(found[i], p, s, t) /\ (found[i].status = "RUNTIME_ERROR" <=> t = Raised)
  /\ t = Raised => Len(found) = 1

LEMMA OneReply ==
  ASSUME NEW p, NEW s, NEW t, NEW status, NEW kind, NEW name,
         status = "RUNTIME_ERROR" <=> t = Raised
  PROVE  Reply(<<Observe(p, s, status, kind, name, t)>>, p, s, t)
<1> DEFINE o == Observe(p, s, status, kind, name, t)
<1>1. IsObservation(o, p, s, t) /\ o.status = status
  BY DEF Observe, IsObservation
<1> HIDE DEF o
<1>2. IsSequence(<<o>>) /\ <<o>> # <<>> /\ Len(<<o>>) = 1 /\ DOMAIN <<o>> = {1} /\ <<o>>[1] = o
  BY OneSequence
<1>3. Reply(<<o>>, p, s, t)
  BY <1>1, <1>2 DEF Reply
<1> QED BY <1>3 DEF o

LEMMA ManyReplies ==
  ASSUME NEW p, NEW s, NEW t, t # Raised, NEW found, NEW names, names # <<>>, IsSequence(names),
         found = [i \in DOMAIN names |-> found[i]],
         \A i \in DOMAIN names : IsObservation(found[i], p, s, t) /\ found[i].status # "RUNTIME_ERROR"
  PROVE  Reply(found, p, s, t)
<1>1. Len(names) \in Nat /\ Len(names) > 0 /\ DOMAIN names = 1..Len(names)
  BY DEF IsSequence
<1>2. found \in [1..Len(names) -> Seen(found)] /\ DOMAIN found = 1..Len(names)
  BY <1>1 DEF Seen
<1>3. IsSequence(found) /\ found # <<>>
  BY <1>1, <1>2 DEF IsSequence
<1> QED BY <1>3 DEF Reply

LEMMA TextFacts ==
  ASSUME relation \in Relations, NEW t \in Texts, t # Raised
  PROVE  t \in TextsOf[relation] /\ t.word # "RAISED" /\ IsSequence(t.names)
<1>1. t.word # "RAISED" /\ t.names \in Seq(ToSet(t.names))
  BY TextsAreReturned DEF Texts
<1> QED BY <1>1, AnySequence DEF Texts

LEMMA NumbersReply ==
  ASSUME relation \in Relations, NEW t \in Texts, NEW p, NEW s
  PROVE  Reply(ExtractNumbers(p, s, t), p, s, t)
<1> DEFINE number(r) == Observe(p, s, Canonicalise(r)[2], r.kind,
                                [value |-> Canonicalise(r)[1], unit |-> r.unit], t)
           found == [i \in DOMAIN t.names |-> number(t.names[i])]
           marked == MarkDisagreeingReadings(found)
<1>1. CASE t = Raised
  <2>1. ExtractNumbers(p, s, t) = <<Observe(p, s, "RUNTIME_ERROR", "TARGET", Nothing, t)>>
    BY <1>1 DEF ExtractNumbers
  <2> QED BY <1>1, <2>1, OneReply
<1>2. CASE t # Raised /\ t.word \in Abstentions
  <2>1. ExtractNumbers(p, s, t) = <<Observe(p, s, "ABSTAINED", "TARGET", Nothing, t)>>
    BY <1>2 DEF ExtractNumbers
  <2> QED BY <1>2, <2>1, OneReply
<1>3. CASE t # Raised /\ t.word \notin Abstentions /\ t.names = <<>>
  <2>1. ExtractNumbers(p, s, t) = <<Observe(p, s, "NO_NUMBER", "TARGET", Nothing, t)>>
    BY <1>3 DEF ExtractNumbers
  <2> QED BY <1>3, <2>1, OneReply
<1>4. CASE t # Raised /\ t.word \notin Abstentions /\ t.names # <<>>
  <2>1. ExtractNumbers(p, s, t) = marked
    BY <1>4 DEF ExtractNumbers
  <2>2. \A r : Canonicalise(r)[2] # "RUNTIME_ERROR"
    BY DEF Canonicalise
  <2>3. ASSUME NEW i \in DOMAIN t.names
        PROVE  IsObservation(marked[i], p, s, t) /\ marked[i].status # "RUNTIME_ERROR"
    <3> DEFINE o == number(t.names[i])
    <3>1. found[i] = o /\ DOMAIN found = DOMAIN t.names
      OBVIOUS
    <3>2. IsObservation(o, p, s, t) /\ o.status # "RUNTIME_ERROR"
      BY <2>2 DEF Observe, IsObservation
    <3> HIDE DEF o, found
    <3>3. marked[i] = o \/ marked[i] = [o EXCEPT !.status = "AMBIGUOUS"]
      BY <3>1 DEF MarkDisagreeingReadings
    <3> QED BY <3>2, <3>3 DEF Observe, IsObservation
  <2>4. marked = [i \in DOMAIN t.names |-> marked[i]]
    BY DEF MarkDisagreeingReadings
  <2> HIDE DEF marked
  <2> QED BY <1>4, <2>1, <2>3, <2>4, TextFacts, ManyReplies
<1> QED BY <1>1, <1>2, <1>3, <1>4

LEMMA MentionsReply ==
  ASSUME relation \in Relations, NEW t \in Texts, NEW p, NEW s
  PROVE  Reply(ExtractMentions(p, s, t), p, s, t)
<1> DEFINE found == [i \in DOMAIN t.names |->
                       Observe(p, s, "OK", t.names[i].kind, t.names[i].name, t)]
<1>1. CASE t = Raised
  <2>1. ExtractMentions(p, s, t) = <<Observe(p, s, "RUNTIME_ERROR", Recipient, "", t)>>
    BY <1>1 DEF ExtractMentions, Barren, Raised, Abstentions
  <2> QED BY <1>1, <2>1, OneReply
<1>2. CASE t # Raised /\ t.word = ""
  <2>1. ExtractMentions(p, s, t) = <<Observe(p, s, "EMPTY", Recipient, "", t)>>
    BY <1>2 DEF ExtractMentions, Barren, Abstentions
  <2> QED BY <1>2, <2>1, OneReply
<1>3. CASE t # Raised /\ t.word # "" /\ t.word \in Abstentions
  <2>1. ExtractMentions(p, s, t) = <<Observe(p, s, "ABSTAINED", Recipient, "", t)>>
    BY <1>3 DEF ExtractMentions, Barren
  <2> QED BY <1>3, <2>1, OneReply
<1>4. CASE t # Raised /\ t.word # "" /\ t.word \notin Abstentions /\ t.names = <<>>
  <2>1. ExtractMentions(p, s, t) = <<Observe(p, s, "NO_CANDIDATES", Recipient, "", t)>>
    BY <1>4 DEF ExtractMentions, Barren
  <2> QED BY <1>4, <2>1, OneReply
<1>5. CASE t # Raised /\ t.word # "" /\ t.word \notin Abstentions /\ t.names # <<>>
  <2>1. ExtractMentions(p, s, t) = found
    BY <1>5 DEF ExtractMentions
  <2>2. \A i \in DOMAIN t.names : IsObservation(found[i], p, s, t) /\ found[i].status # "RUNTIME_ERROR"
    BY DEF Observe, IsObservation
  <2>3. found = [i \in DOMAIN t.names |-> found[i]]
    OBVIOUS
  <2> HIDE DEF found
  <2> QED BY <1>5, <2>1, <2>2, <2>3, TextFacts, ManyReplies
<1> QED BY <1>1, <1>2, <1>3, <1>4, <1>5

LEMMA StatusReply ==
  ASSUME relation \in Relations, NEW t \in Texts, NEW p
  PROVE  Reply(StatusObservation(p, t), p, "PROBE", t)
<1>1. ParseDeathStatus(t)[2] = "RUNTIME_ERROR" <=> t = Raised
  BY DEF ParseDeathStatus
<1> QED BY <1>1, OneReply DEF StatusObservation

LEMMA ListingReply ==
  ASSUME relation \in Relations, NEW t \in Texts, NEW p
  PROVE  Reply(ListingObservation(p, t), p, "PROBE", t)
<1>1. ParseListingStatus(t)[2] = "RUNTIME_ERROR" <=> t = Raised
  BY DEF ParseListingStatus
<1> QED BY <1>1, OneReply DEF ListingObservation

LEMMA LocalitiesReply ==
  ASSUME relation \in Relations, NEW t \in Texts, NEW p, NEW s
  PROVE  /\ Reply(LocalityRecords(p, s, t), p, s, t)
         /\ relation = Death =>
              \A o \in Seen(LocalityRecords(p, s, t)) : o.kind \notin {"LIVING", "DECEASED"}
<1> DEFINE names == ExtractLocalities(t)
           found == [i \in DOMAIN names |->
                       Observe(p, s, "OK", names[i].kind, names[i].name, t)]
           R == LocalityRecords(p, s, t)
<1>1. \A status : \A o \in Seen(<<Observe(p, s, status, "TARGET_CITY", "", t)>>) :
        o.kind \notin {"LIVING", "DECEASED"}
  <2> TAKE status
  <2> DEFINE e == Observe(p, s, status, "TARGET_CITY", "", t)
  <2>1. e.kind = "TARGET_CITY"
    BY DEF Observe
  <2> HIDE DEF e
  <2>2. Seen(<<e>>) = {e}
    BY OneSequence
  <2> QED BY <2>1, <2>2 DEF e
<1>2. CASE t = Raised
  <2>1. R = <<Observe(p, s, "RUNTIME_ERROR", "TARGET_CITY", "", t)>>
    BY <1>2 DEF LocalityRecords, Barren, Raised, Abstentions
  <2> QED BY <1>1, <1>2, <2>1, OneReply
<1>3. CASE t # Raised /\ t.word = ""
  <2>1. R = <<Observe(p, s, "EMPTY", "TARGET_CITY", "", t)>>
    BY <1>3 DEF LocalityRecords, Barren, Abstentions
  <2> QED BY <1>1, <1>3, <2>1, OneReply
<1>4. CASE t # Raised /\ t.word # "" /\ t.word \in Abstentions
  <2>1. R = <<Observe(p, s, "ABSTAINED", "TARGET_CITY", "", t)>>
    BY <1>4 DEF LocalityRecords, Barren
  <2> QED BY <1>1, <1>4, <2>1, OneReply
<1>5. CASE t # Raised /\ t.word # "" /\ t.word \notin Abstentions /\ names = <<>>
  <2>1. R = <<Observe(p, s, "NO_LOCALITY", "TARGET_CITY", "", t)>>
    BY <1>5 DEF LocalityRecords, Barren
  <2> QED BY <1>1, <1>5, <2>1, OneReply
<1>6. CASE t # Raised /\ t.word # "" /\ t.word \notin Abstentions /\ names # <<>>
  <2>1. R = found
    BY <1>6 DEF LocalityRecords
  <2>2. \A i \in DOMAIN names : /\ IsObservation(found[i], p, s, t)
                                /\ found[i].status # "RUNTIME_ERROR"
                                /\ found[i].kind = names[i].kind
    BY DEF Observe, IsObservation
  <2>3. found = [i \in DOMAIN names |-> found[i]]
    OBVIOUS
  <2>4. IsSequence(names)
    <3>1. IsSequence(t.names)
      BY <1>6, TextFacts
    <3> QED BY <3>1, EmptySequence, OneSequence DEF ExtractLocalities
  <2>5. relation = Death => \A i \in DOMAIN names : names[i].kind \notin {"LIVING", "DECEASED"}
    <3> SUFFICES ASSUME relation = Death, NEW i \in DOMAIN names
                 PROVE  names[i].kind \notin {"LIVING", "DECEASED"}
      OBVIOUS
    <3>1. CASE t.names # <<>>
      <4>1. names[i] \in ToSet(t.names)
        BY <3>1 DEF ExtractLocalities, ToSet
      <4>2. t \in TextsOf[Death] /\ Death \in Relations
        BY <1>6, TextFacts
      <4>3. names[i].kind \in {"TARGET_CITY"} \cup ToSet(LocalityNearMisses)
        BY <4>1, <4>2, LocalitiesAreClassified
      <4> QED BY <4>3 DEF ToSet, LocalityNearMisses
    <3>2. CASE t.names = <<>>
      <4>1. names = <<[name |-> t.word, kind |-> "TARGET_CITY"]>>
        BY <1>6, <3>2 DEF ExtractLocalities
      <4>2. names[i] \in Seen(names)
        BY DEF Seen
      <4> HIDE DEF names
      <4> QED BY <4>1, <4>2, OneSequence
    <3> QED BY <3>1, <3>2
  <2> HIDE DEF found, names
  <2>6. Reply(R, p, s, t)
    BY <1>6, <2>1, <2>2, <2>3, <2>4, ManyReplies
  <2> QED BY <2>1, <2>2, <2>3, <2>5, <2>6 DEF Seen
<1> QED BY <1>2, <1>3, <1>4, <1>5, <1>6

LEMMA Enumerated ==
  ASSUME NEW S, IsFiniteSet(S)
  PROVE  IsSequence(SetToSeq(S)) /\ Seen(SetToSeq(S)) \subseteq S /\ (SetToSeq(S) = <<>> <=> S = {})
<1> DEFINE n == Cardinality(S)
<1>1. n \in Nat /\ \E f \in [1..n -> S] : IsInjective(f)
  BY FS_CardinalityType DEF ExistsBijection, Bijection, Injection, IsInjective
<1>2. SetToSeq(S) \in [1..n -> S]
  BY <1>1 DEF SetToSeq
<1> HIDE DEF n
<1>3. SetToSeq(S) \in Seq(S) /\ Len(SetToSeq(S)) = n
  BY <1>1, <1>2
<1>4. n = 0 <=> S = {}
  BY FS_EmptySet DEF n
<1> QED BY <1>3, <1>4, AnySequence

LEMMA CandidatesReply ==
  ASSUME relation \in Relations, NEW t \in Texts, NEW p, NEW s
  PROVE  /\ Reply(ExtractCandidates(p, s, t), p, s, t)
         /\ \A o \in Seen(ExtractCandidates(p, s, t)) :
              o.status = "OK" => t # Raised /\ \E n \in ToSet(t.names) : o.kind = n.kind
<1> DEFINE names == SetToSeq(Seen(t.names))
           found == [i \in DOMAIN names |->
                       Observe(p, s, "OK", names[i].kind, names[i].name, t)]
           R == ExtractCandidates(p, s, t)
<1>1. \A status : \A o \in Seen(<<Observe(p, s, status, TargetKind, "", t)>>) : o.status = status
  <2> TAKE status
  <2> DEFINE e == Observe(p, s, status, TargetKind, "", t)
  <2>1. e.status = status
    BY DEF Observe
  <2> HIDE DEF e
  <2>2. Seen(<<e>>) = {e}
    BY OneSequence
  <2> QED BY <2>1, <2>2 DEF e
<1>2. CASE t = Raised
  <2>1. R = <<Observe(p, s, "RUNTIME_ERROR", TargetKind, "", t)>>
    BY <1>2 DEF ExtractCandidates, Barren, Raised, Abstentions
  <2> QED BY <1>1, <1>2, <2>1, OneReply
<1>3. CASE t # Raised /\ t.word = ""
  <2>1. R = <<Observe(p, s, "EMPTY", TargetKind, "", t)>>
    BY <1>3 DEF ExtractCandidates, Barren, Abstentions
  <2> QED BY <1>1, <1>3, <2>1, OneReply
<1>4. CASE t # Raised /\ t.word # "" /\ t.word \in Abstentions
  <2>1. R = <<Observe(p, s, "ABSTAINED", TargetKind, "", t)>>
    BY <1>4 DEF ExtractCandidates, Barren
  <2> QED BY <1>1, <1>4, <2>1, OneReply
<1>5. CASE t # Raised /\ t.word # "" /\ t.word \notin Abstentions /\ names = <<>>
  <2>1. R = <<Observe(p, s, "NO_CANDIDATES", TargetKind, "", t)>>
    BY <1>5 DEF ExtractCandidates, Barren
  <2> QED BY <1>1, <1>5, <2>1, OneReply
<1>6. CASE t # Raised /\ t.word # "" /\ t.word \notin Abstentions /\ names # <<>>
  <2>1. R = found
    BY <1>6 DEF ExtractCandidates
  <2>2. \A i \in DOMAIN names : /\ IsObservation(found[i], p, s, t)
                                /\ found[i].status # "RUNTIME_ERROR"
                                /\ found[i].kind = names[i].kind
    BY DEF Observe, IsObservation
  <2>3. found = [i \in DOMAIN names |-> found[i]]
    OBVIOUS
  <2>4. IsSequence(t.names)
    BY <1>6, TextFacts
  <2>5. IsFiniteSet(Seen(t.names))
    <3>1. Len(t.names) \in Nat /\ DOMAIN t.names = 1..Len(t.names)
      BY <2>4 DEF IsSequence
    <3>2. IsFiniteSet(DOMAIN t.names)
      BY <3>1, FS_Interval
    <3> QED BY <3>2, FiniteImage DEF Seen
  <2>6. IsSequence(names) /\ Seen(names) \subseteq Seen(t.names)
    BY <2>5, Enumerated
  <2> HIDE DEF found, names
  <2>7. Reply(R, p, s, t)
    BY <1>6, <2>1, <2>2, <2>3, <2>6, ManyReplies
  <2>8. \A o \in Seen(R) : \E n \in ToSet(t.names) : o.kind = n.kind
    BY <2>1, <2>2, <2>3, <2>6 DEF Seen, ToSet
  <2> QED BY <1>6, <2>7, <2>8
<1> QED BY <1>2, <1>3, <1>4, <1>5, <1>6

(***************************************************************************)
(* What Module 11 leaves to mine                                           *)
(***************************************************************************)

LEMMA StrungSequence ==
  ASSUME NEW N \in Nat, NEW seqs, seqs = [i \in 1..N |-> seqs[i]],
         \A i \in 1..N : IsSequence(seqs[i])
  PROVE  /\ IsSequence(FlattenSeq(seqs))
         /\ \A o \in Seen(FlattenSeq(seqs)) : \E i \in 1..N : o \in Seen(seqs[i])
         /\ \A i \in 1..N : Seen(seqs[i]) \subseteq Seen(FlattenSeq(seqs))
<1> DEFINE T == UNION {Seen(seqs[i]) : i \in 1..N}
<1>1. \A i \in 1..N : seqs[i] \in Seq(T)
  <2> TAKE i \in 1..N
  <2>1. Seen(seqs[i]) \subseteq T /\ seqs[i] \in Seq(Seen(seqs[i]))
    BY DEF IsSequence
  <2> HIDE DEF T
  <2> QED BY <2>1, SeqMonotonic
<1> HIDE DEF T
<1>2. seqs \in [1..N -> Seq(T)]
  BY <1>1
<1>3. FlattenSeq(seqs) \in Seq(T) /\ Strings(FlattenSeq(seqs), seqs, N)
  BY <1>2, FlattenFacts
<1> DEFINE u == FlattenSeq(seqs)
<1>4. IsSequence(u)
  BY <1>3, AnySequence
<1>5. Strings(u, seqs, N)
  BY <1>3
<1> HIDE DEF u
<1>6. ASSUME NEW k \in DOMAIN u PROVE \E i \in 1..N : u[k] \in Seen(seqs[i])
  BY <1>5 DEF Strings, Seen
<1>7. ASSUME NEW i \in 1..N, NEW b \in DOMAIN seqs[i] PROVE seqs[i][b] \in Seen(u)
  BY <1>5 DEF Strings, Seen
<1>8. \A o \in Seen(u) : \E i \in 1..N : o \in Seen(seqs[i])
  BY <1>6 DEF Seen
<1>9. \A i \in 1..N : Seen(seqs[i]) \subseteq Seen(u)
  BY <1>7 DEF Seen
<1> QED BY <1>4, <1>8, <1>9 DEF u

\* A record of Module 11 says that its call raised when it did.
MemoryInv ==
  \A i \in DOMAIN memory :
    /\ memory[i].text \in Texts /\ memory[i].probe \in Seen(RetrievalPlan)
    /\ ~Minable(memory[i]) <=> memory[i].text = Raised

\* What a specialist reads off the records, one text at a time.
LEMMA MinedFrom ==
  ASSUME IsSequence(memory), MemoryInv, NEW F, NEW seqs, F = FlattenSeq(seqs),
         seqs = [i \in DOMAIN memory |-> seqs[i]],
         \A i \in DOMAIN memory :
           IF Minable(memory[i])
           THEN IsSequence(seqs[i])
           ELSE seqs[i] = <<>>
  PROVE  /\ IsSequence(F)
         /\ \A o \in Seen(F) : \E i \in DOMAIN memory :
              Minable(memory[i]) /\ o \in Seen(seqs[i])
         /\ \A i \in DOMAIN memory : Seen(seqs[i]) \subseteq Seen(F)
<1>1. Len(memory) \in Nat /\ DOMAIN memory = 1..Len(memory)
  BY DEF IsSequence
<1>2. \A i \in DOMAIN memory : IsSequence(seqs[i])
  BY EmptySequence
<1>3. /\ IsSequence(F)
      /\ \A o \in Seen(F) : \E i \in DOMAIN memory : o \in Seen(seqs[i])
      /\ \A i \in DOMAIN memory : Seen(seqs[i]) \subseteq Seen(F)
  BY <1>1, <1>2, StrungSequence
<1> QED BY <1>3, EmptySequence

(***************************************************************************)
(* The plans                                                               *)
(***************************************************************************)

\* Every element of a sequence stands in R to every later one.
Orderly(s, R) ==
  IsSequence(s) /\ \A k, l \in DOMAIN s : k < l => <<s[k], s[l]>> \in R

\* A part of e, one element or none at each place.
PartOf(seqs, e, N) ==
  /\ seqs = [i \in 1..N |-> seqs[i]]
  /\ \A i \in 1..N : seqs[i] = <<>> \/ seqs[i] = <<e[i]>>

Ascends(e, N, R) == \A i, j \in 1..N : i < j => <<e[i], e[j]>> \in R

\* Leaving elements out keeps the order of the rest.
LEMMA KeptFacts ==
  ASSUME NEW N \in Nat, NEW e, NEW R, Ascends(e, N, R),
         NEW seqs, PartOf(seqs, e, N)
  PROVE  /\ Orderly(FlattenSeq(seqs), R)
         /\ \A x \in Seen(FlattenSeq(seqs)) : \E i \in 1..N : seqs[i] # <<>> /\ x = e[i]
         /\ \A i \in 1..N : seqs[i] # <<>> => e[i] \in Seen(FlattenSeq(seqs))
<1> DEFINE T == {e[i] : i \in 1..N}
           u == FlattenSeq(seqs)
<1> USE DEF PartOf, Ascends
<1>1. \A i \in 1..N : seqs[i] \in Seq(T)
  <2> TAKE i \in 1..N
  <2>1. e[i] \in T
    OBVIOUS
  <2> HIDE DEF T
  <2>2. <<e[i]>> \in Seq(T) /\ <<>> \in Seq(T)
    BY <2>1
  <2> QED BY <2>2
<1>2. \A i \in 1..N : \A b \in DOMAIN seqs[i] : b = 1 /\ seqs[i][b] = e[i] /\ seqs[i] # <<>>
  OBVIOUS
<1>3. \A i \in 1..N : seqs[i] # <<>> => 1 \in DOMAIN seqs[i] /\ seqs[i][1] = e[i]
  OBVIOUS
<1> HIDE DEF T
<1>4. seqs \in [1..N -> Seq(T)]
  BY <1>1
<1>5. u \in Seq(T) /\ Strings(u, seqs, N)
  BY <1>4, FlattenFacts
<1>6. IsSequence(u)
  BY <1>5, AnySequence
<1> HIDE DEF u
<1>7. ASSUME NEW k \in DOMAIN u PROVE \E i \in 1..N : seqs[i] # <<>> /\ u[k] = e[i]
  BY <1>2, <1>5 DEF Strings
<1>8. ASSUME NEW i \in 1..N, seqs[i] # <<>> PROVE e[i] \in Seen(u)
  BY <1>3, <1>5, <1>8 DEF Strings, Seen
<1>9. ASSUME NEW k \in DOMAIN u, NEW l \in DOMAIN u, k < l PROVE <<u[k], u[l]>> \in R
  <2>1. \E a, c \in 1..N : \E b \in DOMAIN seqs[a] : \E d \in DOMAIN seqs[c] :
          u[k] = seqs[a][b] /\ u[l] = seqs[c][d] /\ (a < c \/ (a = c /\ b < d))
    <3>1. InStringOrder(u, seqs, N, k, l)
      BY <1>5, <1>9 DEF Strings
    <3> QED BY <3>1 DEF InStringOrder
  <2>2. \E a, c \in 1..N : u[k] = e[a] /\ u[l] = e[c] /\ a < c
    BY <1>2, <2>1
  <2> QED BY <2>2
<1>10. \A x \in Seen(u) : \E i \in 1..N : seqs[i] # <<>> /\ x = e[i]
  BY <1>7 DEF Seen
<1> QED BY <1>6, <1>8, <1>9, <1>10 DEF u, Orderly

LEMMA PlannedFacts ==
  ASSUME NEW probes, NEW R, Orderly(probes, R)
  PROVE  /\ Orderly(Planned(probes), R)
         /\ Seen(Planned(probes)) = {p \in Seen(probes) : p.facet \in Considered}
<1> DEFINE N == Len(probes)
           seqs == [i \in DOMAIN probes |->
                      IF probes[i].facet \in Considered THEN <<probes[i]>> ELSE <<>>]
<1>1. N \in Nat /\ DOMAIN probes = 1..N
  BY DEF Orderly, IsSequence
<1>2. /\ PartOf(seqs, probes, N)
      /\ \A i \in 1..N : seqs[i] # <<>> <=> probes[i].facet \in Considered
  BY <1>1 DEF PartOf
<1>3. Planned(probes) = FlattenSeq(seqs)
  BY DEF Planned
<1>4. Ascends(probes, N, R)
  BY <1>1 DEF Orderly, Ascends
<1> HIDE DEF seqs, N
<1>5. /\ Orderly(Planned(probes), R)
      /\ \A x \in Seen(Planned(probes)) : \E i \in 1..N : seqs[i] # <<>> /\ x = probes[i]
      /\ \A i \in 1..N : seqs[i] # <<>> => probes[i] \in Seen(Planned(probes))
  BY <1>1, <1>2, <1>3, <1>4, KeptFacts
<1>6. Seen(probes) = {probes[i] : i \in 1..N}
  BY <1>1 DEF Seen
<1>7. \A x \in Seen(Planned(probes)) : x \in Seen(probes) /\ x.facet \in Considered
  BY <1>2, <1>5, <1>6
<1>8. \A x \in Seen(probes) : x.facet \in Considered => x \in Seen(Planned(probes))
  BY <1>2, <1>5, <1>6
<1> QED BY <1>5, <1>7, <1>8

\* No two probes of a plan share a facet.
FacetsApart(s) ==
  IsSequence(s) /\ \A k, l \in DOMAIN s : k < l => s[k].facet # s[l].facet

LEMMA PlannedApart ==
  ASSUME NEW probes, FacetsApart(probes)
  PROVE  /\ FacetsApart(Planned(probes))
         /\ Seen(Planned(probes)) = {p \in Seen(probes) : p.facet \in Considered}
<1> DEFINE R == {q \in Seen(probes) \X Seen(probes) : q[1].facet # q[2].facet}
<1>1. Orderly(probes, R)
  BY DEF Orderly, FacetsApart, Seen
<1>2. \A a, b : <<a, b>> \in R => a.facet # b.facet
  OBVIOUS
<1> HIDE DEF R
<1>3. /\ Orderly(Planned(probes), R)
      /\ Seen(Planned(probes)) = {p \in Seen(probes) : p.facet \in Considered}
  BY <1>1, PlannedFacts
<1> QED BY <1>2, <1>3 DEF Orderly, FacetsApart

LEMMA PlanOfFacts ==
  ASSUME NEW families, IsSequence(families),
         \A i, j \in DOMAIN families : i < j => families[i] # families[j]
  PROVE  /\ FacetsApart(PlanOf(families))
         /\ \A p \in Seen(PlanOf(families)) :
              p.facet \in Seen(families) /\ p = Probe(p.facet, p.facet, p.facet)
<1> DEFINE probes == [i \in DOMAIN families |-> Probe(families[i], families[i], families[i])]
<1>1. Len(families) \in Nat /\ DOMAIN families = 1..Len(families)
  BY DEF IsSequence
<1>2. /\ probes \in [1..Len(families) -> Seen(probes)] /\ DOMAIN probes = DOMAIN families
      /\ \A i \in DOMAIN families :
           probes[i].facet = families[i]
             /\ probes[i] = Probe(probes[i].facet, probes[i].facet, probes[i].facet)
  BY <1>1 DEF Seen, Probe
<1>3. PlanOf(families) = Planned(probes)
  BY DEF PlanOf
<1> HIDE DEF probes
<1>4. FacetsApart(probes)
  BY <1>1, <1>2 DEF FacetsApart, IsSequence
<1>5. FacetsApart(PlanOf(families)) /\ Seen(PlanOf(families)) \subseteq Seen(probes)
  BY <1>3, <1>4, PlannedApart
<1> QED BY <1>2, <1>5 DEF Seen

LEMMA FacetPlanFacts ==
  ASSUME NEW templates, IsSequence(templates),
         \A i, j \in DOMAIN templates : i < j => templates[i].facet # templates[j].facet
  PROVE  /\ FacetsApart(FacetPlan(templates))
         /\ \A p \in Seen(FacetPlan(templates)) : \E i \in DOMAIN templates :
              p = Probe(templates[i].facet, templates[i].facet, templates[i].family)
<1> DEFINE N == Len(templates)
           e == [i \in 1..N |-> Probe(templates[i].facet, templates[i].facet, templates[i].family)]
           seqs == [i \in DOMAIN templates |->
                      LET t == templates[i]
                      IN IF t.facet \in DisabledFacets \ EnableFacets THEN <<>>
                         ELSE <<Probe(t.facet, t.facet, t.family)>>]
           R == {q \in Seen(e) \X Seen(e) : q[1].facet # q[2].facet}
           u == FlattenSeq(seqs)
<1>1. N \in Nat /\ DOMAIN templates = 1..N
  BY DEF IsSequence
<1>2. PartOf(seqs, e, N)
  BY <1>1 DEF PartOf
<1>3. Ascends(e, N, R)
  BY <1>1 DEF Seen, Probe, Ascends
<1>4. \A a, b : <<a, b>> \in R => a.facet # b.facet
  OBVIOUS
<1>5. FacetPlan(templates) = Planned(u)
  BY DEF FacetPlan
<1>6. \A i \in 1..N : e[i] = Probe(templates[i].facet, templates[i].facet, templates[i].family)
  OBVIOUS
<1> HIDE DEF seqs, N, e, R
<1>7. Orderly(u, R) /\ \A x \in Seen(u) : \E i \in 1..N : seqs[i] # <<>> /\ x = e[i]
  BY <1>1, <1>2, <1>3, KeptFacts
<1> HIDE DEF u
<1>8. FacetsApart(u)
  BY <1>4, <1>7 DEF Orderly, FacetsApart
<1>9. FacetsApart(FacetPlan(templates)) /\ Seen(FacetPlan(templates)) \subseteq Seen(u)
  BY <1>5, <1>8, PlannedApart
<1> QED BY <1>1, <1>6, <1>7, <1>9

Missing == "missingness_uncovered"
MissingRecipients == Probe(Missing, Missing, "missingness")
SliceRank(f) ==
  IF f = "temporal_early" THEN 1 ELSE IF f = "temporal_middle" THEN 2
  ELSE IF f = "temporal_recent" THEN 3 ELSE IF f = "recipient_person" THEN 4
  ELSE IF f = "recipient_group" THEN 5 ELSE IF f = "recipient_organisation" THEN 6
  ELSE IF f = "recipient_project" THEN 7 ELSE IF f = "category_dimension" THEN 8
  ELSE IF f = Missing THEN 9 ELSE 0

LEMMA SliceRanks ==
  /\ SliceRank("temporal_early") = 1 /\ SliceRank("temporal_middle") = 2
  /\ SliceRank("temporal_recent") = 3 /\ SliceRank("recipient_person") = 4
  /\ SliceRank("recipient_group") = 5 /\ SliceRank("recipient_organisation") = 6
  /\ SliceRank("recipient_project") = 7 /\ SliceRank("category_dimension") = 8
  /\ SliceRank(Missing) = 9 /\ SliceRank("seed") = 0
  /\ \A f : SliceRank(f) \in 0..9
BY DEF SliceRank, Missing

LEMMA ProbeFields ==
  ASSUME NEW f, NEW g
  PROVE  Probe(f, f, g).op = f /\ Probe(f, f, g).facet = f /\ Probe(f, f, g).group = g
BY DEF Probe

\* The seed comes first, the missingness slice last, and no slice twice.
LEMMA LargeSetPlanFacts ==
  /\ FacetsApart(LargeSetPlan) /\ LargeSetPlan # <<>>
  /\ LargeSetPlan[Len(LargeSetPlan)] = MissingRecipients
  /\ \A p \in Seen(LargeSetPlan) : /\ p.op = p.facet /\ p.group # "cross_family_recall"
                                   /\ p.group = "missingness" <=> p.facet = Missing
<1> DEFINE F == LargeSetFacets
           slices(i) == IF F[i].enabled
                        THEN [k \in DOMAIN F[i].slices |->
                                Probe(F[i].slices[k], F[i].slices[k], F[i].kind)]
                        ELSE <<>>
           seqs == [i \in 1..5 |-> slices(i)]
           Fits(p) == /\ p.op = p.facet /\ p.group # "cross_family_recall"
                      /\ p.group = "missingness" <=> p.facet = Missing
                      /\ p.facet = Missing => p = MissingRecipients
           T == UNION {Seen(seqs[i]) : i \in 1..5}
           R == {q \in T \X T : SliceRank(q[1].facet) < SliceRank(q[2].facet)}
           low(i) == IF i = 1 THEN 1 ELSE IF i = 2 THEN 4 ELSE IF i = 3 THEN 8 ELSE 9
           Placed(p, i, k) == /\ k \in 1..4 /\ i # 4 /\ (i = 1 => k <= 3) /\ (i \in {3, 5} => k = 1)
                              /\ SliceRank(p.facet) = low(i) + k - 1
                              /\ Fits(p)
<1>1. ASSUME NEW i \in 1..5, NEW k \in DOMAIN slices(i) PROVE Placed(slices(i)[k], i, k)
  <2>1. CASE i = 1
    <3>1. F[1].enabled /\ F[1].kind = "temporal"
          /\ F[1].slices = <<"temporal_early", "temporal_middle", "temporal_recent">>
      BY DEF LargeSetFacets, Facet, Missing
    <3> HIDE DEF F
    <3>2. DOMAIN slices(1) = 1..3 /\ \A l \in 1..3 :
            slices(1)[l] = Probe(F[1].slices[l], F[1].slices[l], "temporal")
      BY <3>1
    <3>3. k \in {1, 2, 3} /\ slices(1)[k] = Probe(F[1].slices[k], F[1].slices[k], "temporal")
      BY <2>1, <3>2
    <3>4. CASE k = 1
      <4>1. slices(1)[k] = Probe("temporal_early", "temporal_early", "temporal")
        BY <3>1, <3>3, <3>4
      <4> HIDE DEF slices
      <4> QED BY <2>1, <3>4, <4>1, ProbeFields, SliceRanks DEF Missing, MissingRecipients
    <3>5. CASE k = 2
      <4>1. slices(1)[k] = Probe("temporal_middle", "temporal_middle", "temporal")
        BY <3>1, <3>3, <3>5
      <4> HIDE DEF slices
      <4> QED BY <2>1, <3>5, <4>1, ProbeFields, SliceRanks DEF Missing, MissingRecipients
    <3>6. CASE k = 3
      <4>1. slices(1)[k] = Probe("temporal_recent", "temporal_recent", "temporal")
        BY <3>1, <3>3, <3>6
      <4> HIDE DEF slices
      <4> QED BY <2>1, <3>6, <4>1, ProbeFields, SliceRanks DEF Missing, MissingRecipients
    <3> HIDE DEF slices, Placed
    <3> QED BY <3>3, <3>4, <3>5, <3>6
  <2>2. CASE i = 2
    <3>1. F[2].enabled /\ F[2].kind = "recipient_type"
          /\ F[2].slices = <<"recipient_person", "recipient_group", "recipient_organisation", "recipient_project">>
      BY DEF LargeSetFacets, Facet, Missing
    <3> HIDE DEF F
    <3>2. DOMAIN slices(2) = 1..4 /\ \A l \in 1..4 :
            slices(2)[l] = Probe(F[2].slices[l], F[2].slices[l], "recipient_type")
      BY <3>1
    <3>3. k \in {1, 2, 3, 4} /\ slices(2)[k] = Probe(F[2].slices[k], F[2].slices[k], "recipient_type")
      BY <2>2, <3>2
    <3>4. CASE k = 1
      <4>1. slices(2)[k] = Probe("recipient_person", "recipient_person", "recipient_type")
        BY <3>1, <3>3, <3>4
      <4> HIDE DEF slices
      <4> QED BY <2>2, <3>4, <4>1, ProbeFields, SliceRanks DEF Missing, MissingRecipients
    <3>5. CASE k = 2
      <4>1. slices(2)[k] = Probe("recipient_group", "recipient_group", "recipient_type")
        BY <3>1, <3>3, <3>5
      <4> HIDE DEF slices
      <4> QED BY <2>2, <3>5, <4>1, ProbeFields, SliceRanks DEF Missing, MissingRecipients
    <3>6. CASE k = 3
      <4>1. slices(2)[k] = Probe("recipient_organisation", "recipient_organisation", "recipient_type")
        BY <3>1, <3>3, <3>6
      <4> HIDE DEF slices
      <4> QED BY <2>2, <3>6, <4>1, ProbeFields, SliceRanks DEF Missing, MissingRecipients
    <3>7. CASE k = 4
      <4>1. slices(2)[k] = Probe("recipient_project", "recipient_project", "recipient_type")
        BY <3>1, <3>3, <3>7
      <4> HIDE DEF slices
      <4> QED BY <2>2, <3>7, <4>1, ProbeFields, SliceRanks DEF Missing, MissingRecipients
    <3> HIDE DEF slices, Placed
    <3> QED BY <3>3, <3>4, <3>5, <3>6, <3>7
  <2>3. CASE i = 3
    <3>1. F[3].enabled /\ F[3].kind = "category"
          /\ F[3].slices = <<"category_dimension">>
      BY DEF LargeSetFacets, Facet, Missing
    <3> HIDE DEF F
    <3>2. DOMAIN slices(3) = 1..1 /\ \A l \in 1..1 :
            slices(3)[l] = Probe(F[3].slices[l], F[3].slices[l], "category")
      BY <3>1
    <3>3. k \in {1} /\ slices(3)[k] = Probe(F[3].slices[k], F[3].slices[k], "category")
      BY <2>3, <3>2
    <3>4. CASE k = 1
      <4>1. slices(3)[k] = Probe("category_dimension", "category_dimension", "category")
        BY <3>1, <3>3, <3>4
      <4> HIDE DEF slices
      <4> QED BY <2>3, <3>4, <4>1, ProbeFields, SliceRanks DEF Missing, MissingRecipients
    <3> HIDE DEF slices, Placed
    <3> QED BY <3>3, <3>4
  <2>4. CASE i = 4
    <3>1. slices(4) = <<>>
      BY DEF LargeSetFacets, Facet
    <3> HIDE DEF slices
    <3> QED BY <2>4, <3>1
  <2>5. CASE i = 5
    <3>1. F[5].enabled /\ F[5].kind = "missingness"
          /\ F[5].slices = <<Missing>>
      BY DEF LargeSetFacets, Facet, Missing
    <3> HIDE DEF F
    <3>2. DOMAIN slices(5) = 1..1 /\ \A l \in 1..1 :
            slices(5)[l] = Probe(F[5].slices[l], F[5].slices[l], "missingness")
      BY <3>1
    <3>3. k \in {1} /\ slices(5)[k] = Probe(F[5].slices[k], F[5].slices[k], "missingness")
      BY <2>5, <3>2
    <3>4. CASE k = 1
      <4>1. slices(5)[k] = Probe(Missing, Missing, "missingness")
        BY <3>1, <3>3, <3>4
      <4> HIDE DEF slices
      <4> QED BY <2>5, <3>4, <4>1, ProbeFields, SliceRanks DEF Missing, MissingRecipients
    <3> HIDE DEF slices, Placed
    <3> QED BY <3>3, <3>4
  <2> HIDE DEF slices, Placed
  <2> QED BY <2>1, <2>2, <2>3, <2>4, <2>5
<1>21. \A i \in 1..5 : \A k \in DOMAIN seqs[i] : Placed(seqs[i][k], i, k)
  <2>1. \A i \in 1..5 : seqs[i] = slices(i)
    OBVIOUS
  <2> HIDE DEF seqs, slices, Placed
  <2> QED BY <1>1, <2>1
<1>2. FacetProbes = FlattenSeq(seqs)
  <2>1. DOMAIN LargeSetFacets = 1..5
    BY DEF LargeSetFacets
  <2> QED BY <2>1 DEF FacetProbes
<1>3. seqs = [i \in 1..5 |-> seqs[i]] /\ \A i \in 1..5 : IsSequence(seqs[i])
  <2>1. ASSUME NEW i \in 1..5 PROVE IsSequence(slices(i))
    <3>1. IsSequence(F[i].slices)
      <4>1. /\ F[1].slices = <<"temporal_early", "temporal_middle", "temporal_recent">>
            /\ F[2].slices = <<"recipient_person", "recipient_group",
                               "recipient_organisation", "recipient_project">>
            /\ F[3].slices = <<"category_dimension">> /\ F[4].slices = <<>>
            /\ F[5].slices = <<Missing>>
        BY DEF LargeSetFacets, Facet, Missing
      <4>2. i \in {1, 2, 3, 4, 5}
        OBVIOUS
      <4> HIDE DEF F
      <4> QED BY <4>1, <4>2, ShortSequences
    <3>2. Len(F[i].slices) \in Nat /\ DOMAIN F[i].slices = 1..Len(F[i].slices)
      BY <3>1 DEF IsSequence
    <3> DEFINE u == [k \in DOMAIN F[i].slices |->
                       Probe(F[i].slices[k], F[i].slices[k], F[i].kind)]
    <3>3. u \in [1..Len(F[i].slices) -> Seen(u)]
      BY <3>2 DEF Seen
    <3>4. IsSequence(u)
      BY <3>2, <3>3 DEF IsSequence
    <3> QED BY <3>4, EmptySequence
  <2> QED BY <2>1
<1>4. 1 \in DOMAIN seqs[5] /\ seqs[5][1] = MissingRecipients
  BY DEF LargeSetFacets, Facet, Probe, Missing, MissingRecipients
<1> HIDE DEF seqs
<1>5. \A i \in 1..5 : seqs[i] \in Seq(T)
  <2> TAKE i \in 1..5
  <2>1. Seen(seqs[i]) \subseteq T /\ seqs[i] \in Seq(Seen(seqs[i]))
    BY <1>3 DEF IsSequence
  <2> HIDE DEF T
  <2> QED BY <2>1, SeqMonotonic
<1>6. FacetProbes \in Seq(T) /\ Strings(FacetProbes, seqs, 5)
  <2> HIDE DEF T
  <2>1. seqs \in [1..5 -> Seq(T)]
    BY <1>3, <1>5
  <2> QED BY <1>2, <2>1, FlattenFacts
<1>7. Orderly(FacetProbes, R)
  <2>1. IsSequence(FacetProbes)
    BY <1>6, AnySequence
  <2>2. ASSUME NEW k \in DOMAIN FacetProbes, NEW l \in DOMAIN FacetProbes, k < l
        PROVE  SliceRank(FacetProbes[k].facet) < SliceRank(FacetProbes[l].facet)
    <3>0. \E a, c \in 1..5 : \E b \in DOMAIN seqs[a] : \E d \in DOMAIN seqs[c] :
            /\ FacetProbes[k] = seqs[a][b] /\ FacetProbes[l] = seqs[c][d]
            /\ a < c \/ (a = c /\ b < d)
      <4> HIDE DEF R, T, low, slices, F, Placed, Fits
      <4>1. InStringOrder(FacetProbes, seqs, 5, k, l)
        BY <1>6, <2>2 DEF Strings
      <4> QED BY <4>1 DEF InStringOrder
    <3>1. PICK a \in 1..5, c \in 1..5 : \E b \in DOMAIN seqs[a] : \E d \in DOMAIN seqs[c] :
            /\ FacetProbes[k] = seqs[a][b] /\ FacetProbes[l] = seqs[c][d]
            /\ a < c \/ (a = c /\ b < d)
      BY <3>0, Zenon
    <3>2. PICK b \in DOMAIN seqs[a], d \in DOMAIN seqs[c] :
            /\ FacetProbes[k] = seqs[a][b] /\ FacetProbes[l] = seqs[c][d]
            /\ a < c \/ (a = c /\ b < d)
      BY <3>1
    <3>3. low(a) + b < low(c) + d
      BY <1>21, <3>2
    <3> QED BY <1>21, <3>2, <3>3
  <2>3. \A k \in DOMAIN FacetProbes : FacetProbes[k] \in T
    BY <1>6
  <2> HIDE DEF T
  <2> QED BY <2>1, <2>2, <2>3 DEF Orderly
<1>8. /\ \A p \in Seen(FacetProbes) : Fits(p) /\ SliceRank(p.facet) \in 1..9
      /\ MissingRecipients \in Seen(FacetProbes)
  <2>1. \A p \in Seen(FacetProbes) : \E i \in 1..5 : \E k \in DOMAIN seqs[i] : p = seqs[i][k]
    BY <1>6 DEF Strings, Seen
  <2>2. MissingRecipients \in Seen(FacetProbes)
    BY <1>4, <1>6 DEF Strings, Seen
  <2>3. ASSUME NEW i \in 1..5, NEW k \in DOMAIN seqs[i]
        PROVE Fits(seqs[i][k]) /\ SliceRank(seqs[i][k].facet) \in 1..9
    BY <1>21
  <2> HIDE DEF Fits
  <2> QED BY <2>1, <2>2, <2>3
<1>9. \A a, b : <<a, b>> \in R => SliceRank(a.facet) < SliceRank(b.facet)
  OBVIOUS
<1> DEFINE P == Planned(FacetProbes)
           seed == Probe("seed", "seed", "seed")
<1> HIDE DEF R, T
<1>10. Orderly(P, R) /\ Seen(P) = {p \in Seen(FacetProbes) : p.facet \in Considered}
  BY <1>7, PlannedFacts
<1>11. MissingRecipients \in Seen(P) /\ \A p \in Seen(P) : Fits(p) /\ SliceRank(p.facet) \in 1..9
  BY <1>8, <1>10, MissingnessIsPlanned DEF MissingRecipients, Missing, Probe
<1>12. LargeSetPlan = <<seed>> \o P
  BY DEF LargeSetPlan
<1>13. Fits(seed) /\ SliceRank(seed.facet) = 0
  BY DEF Probe, SliceRank, Missing
<1>14. /\ IsSequence(<<seed>>) /\ Seen(<<seed>>) = {seed} /\ Len(<<seed>>) = 1 /\ <<seed>>[1] = seed
       /\ IsSequence(P)
  BY <1>10, OneSequence DEF Orderly
<1> HIDE DEF P, seed
<1>15. /\ IsSequence(LargeSetPlan) /\ Seen(LargeSetPlan) = {seed} \cup Seen(P)
       /\ Len(LargeSetPlan) = 1 + Len(P) /\ Len(P) \in Nat
       /\ DOMAIN LargeSetPlan = 1..(1 + Len(P)) /\ DOMAIN P = 1..Len(P)
       /\ LargeSetPlan[1] = seed
       /\ \A i \in 1..Len(P) : LargeSetPlan[1 + i] = P[i]
  BY <1>12, <1>14, JoinedSequence
<1>16. \A k, l \in DOMAIN P : k < l => SliceRank(P[k].facet) < SliceRank(P[l].facet)
  BY <1>9, <1>10 DEF Orderly
<1>17. \A k, l \in DOMAIN LargeSetPlan : k < l =>
         SliceRank(LargeSetPlan[k].facet) < SliceRank(LargeSetPlan[l].facet)
  <2> SUFFICES ASSUME NEW k \in DOMAIN LargeSetPlan, NEW l \in DOMAIN LargeSetPlan, k < l
               PROVE SliceRank(LargeSetPlan[k].facet) < SliceRank(LargeSetPlan[l].facet)
    OBVIOUS
  <2>1. l - 1 \in 1..Len(P) /\ LargeSetPlan[l] = P[l - 1] /\ P[l - 1] \in Seen(P)
    <3>1. l - 1 \in 1..Len(P) /\ 1 + (l - 1) = l
      BY <1>15
    <3> QED BY <1>15, <3>1 DEF Seen
  <2>2. CASE k = 1
    BY <1>11, <1>13, <1>15, <2>1, <2>2
  <2>3. CASE k # 1
    <3>1. k - 1 \in 1..Len(P) /\ LargeSetPlan[k] = P[k - 1] /\ k - 1 < l - 1
      <4>1. k - 1 \in 1..Len(P) /\ 1 + (k - 1) = k /\ k - 1 < l - 1
        BY <1>15, <2>3
      <4> QED BY <1>15, <4>1
    <3> QED BY <1>15, <1>16, <2>1, <3>1
  <2> QED BY <2>2, <2>3
<1>18. \A p \in Seen(LargeSetPlan) : Fits(p) /\ SliceRank(p.facet) \in 0..9
  BY <1>11, <1>13, <1>15
<1>19. FacetsApart(LargeSetPlan)
  <2>1. \A k, l \in DOMAIN LargeSetPlan : k < l => LargeSetPlan[k].facet # LargeSetPlan[l].facet
    <3> SUFFICES ASSUME NEW k \in DOMAIN LargeSetPlan, NEW l \in DOMAIN LargeSetPlan, k < l
                 PROVE LargeSetPlan[k].facet # LargeSetPlan[l].facet
      OBVIOUS
    <3>1. SliceRank(LargeSetPlan[k].facet) < SliceRank(LargeSetPlan[l].facet)
      BY <1>17
    <3>2. SliceRank(LargeSetPlan[k].facet) \in Int
      BY <1>18 DEF Seen
    <3> QED BY <3>1, <3>2
  <2> QED BY <1>15, <2>1 DEF FacetsApart
<1>20. LargeSetPlan # <<>> /\ LargeSetPlan[Len(LargeSetPlan)] = MissingRecipients
  <2> DEFINE n == Len(LargeSetPlan)
  <2>1. n \in DOMAIN LargeSetPlan
    BY <1>15
  <2>2. PICK k \in DOMAIN LargeSetPlan : LargeSetPlan[k] = MissingRecipients
    BY <1>11, <1>15 DEF Seen
  <2>3. SliceRank(LargeSetPlan[k].facet) = 9 /\ SliceRank(LargeSetPlan[n].facet) \in 0..9
    <3>1. MissingRecipients.facet = Missing
      BY ProbeFields DEF MissingRecipients
    <3> QED BY <2>2, <3>1, SliceRanks
  <2>4. k = n
    <3>1. k < n => SliceRank(LargeSetPlan[k].facet) < SliceRank(LargeSetPlan[n].facet)
      BY <1>17, <2>1
    <3> QED BY <1>15, <2>3, <3>1
  <2> QED BY <1>15, <2>1, <2>2, <2>4
<1> QED BY <1>18, <1>19, <1>20

NotCrossing(p) == p.group # "cross_family_recall"

LEMMA NumericPlanFacts ==
  ASSUME IsNumeric
  PROVE  FacetsApart(NumericPlan) /\ \A p \in Seen(NumericPlan) : NotCrossing(p)
<1> DEFINE F == NumericFamilies[relation]
<1>1. relation \in {Area, Capacity} /\ Area # Capacity
  BY DEF IsNumeric, OfficialNumeric, Area, Capacity
<1>2. F \in {<<"exact_quantity_direct", "contrastive_definition", "cross_unit_format",
               "historical_current_configuration", "candidate_free_reelicitation">>,
             <<"exact_quantity_direct", "contrastive_definition", "cross_unit_format",
               "candidate_free_reelicitation">>}
  BY <1>1 DEF NumericFamilies, OfficialNumeric, Direct, Contrast
<1>3. NumericPlan = PlanOf(F)
  BY DEF NumericPlan
<1> HIDE DEF F
<1>4. /\ IsSequence(F) /\ "cross_family_recall" \notin Seen(F)
      /\ \A i, j \in DOMAIN F : i < j => F[i] # F[j]
  <2>1. CASE F = <<"exact_quantity_direct", "contrastive_definition", "cross_unit_format",
                   "candidate_free_reelicitation">>
    <3>1. DOMAIN F = {1, 2, 3, 4} /\ IsSequence(F)
      BY <2>1, ShortSequences
    <3> QED BY <2>1, <3>1 DEF Seen
  <2>2. CASE F = <<"exact_quantity_direct", "contrastive_definition", "cross_unit_format",
                   "historical_current_configuration", "candidate_free_reelicitation">>
    <3>1. DOMAIN F = {1, 2, 3, 4, 5} /\ IsSequence(F)
      BY <2>2, ShortSequences
    <3> QED BY <2>2, <3>1 DEF Seen
  <2> QED BY <1>2, <2>1, <2>2
<1>5. FacetsApart(NumericPlan) /\ \A p \in Seen(NumericPlan) :
        p.facet \in Seen(F) /\ p = Probe(p.facet, p.facet, p.facet)
  BY <1>3, <1>4, PlanOfFacts
<1> QED BY <1>4, <1>5, ProbeFields DEF NotCrossing

LEMMA DeathPlanFacts ==
  /\ FacetsApart(StageA) /\ FacetsApart(StageB)
  /\ \A p \in Seen(StageA) : NotCrossing(p) /\ p \notin Seen(StageB) /\ p # CrossProbe
  /\ \A p \in Seen(StageB) : NotCrossing(p) /\ p # CrossProbe
                            /\ p.facet # CrossProbe.facet
<1>1. /\ IsSequence(DeathStageA) /\ DOMAIN DeathStageA = {1, 2, 3}
      /\ Seen(DeathStageA) = {"direct_life_status", "death_event_existence",
                              "life_dates_recollection"}
      /\ \A i, j \in DOMAIN DeathStageA : i < j => DeathStageA[i] # DeathStageA[j]
  <2>1. DOMAIN DeathStageA = {1, 2, 3} /\ IsSequence(DeathStageA)
    BY ShortSequences DEF DeathStageA
  <2> QED BY <2>1 DEF DeathStageA, Seen
<1>2. /\ IsSequence(DeathStageB)
      /\ Seen(DeathStageB) = {"direct_locality", "biography_locality",
                              "birth_residence_contrast", "candidate_free_recall"}
      /\ \A i, j \in DOMAIN DeathStageB : i < j => DeathStageB[i] # DeathStageB[j]
  <2>1. DOMAIN DeathStageB = {1, 2, 3, 4} /\ IsSequence(DeathStageB)
    BY ShortSequences DEF DeathStageB
  <2> QED BY <2>1 DEF DeathStageB, Seen
<1>3. FacetsApart(StageA) /\ \A p \in Seen(StageA) :
        p.facet \in Seen(DeathStageA) /\ p = Probe(p.facet, p.facet, p.facet)
  BY <1>1, PlanOfFacts DEF StageA
<1>4. FacetsApart(StageB) /\ \A p \in Seen(StageB) :
        p.facet \in Seen(DeathStageB) /\ p = Probe(p.facet, p.facet, p.facet)
  BY <1>2, PlanOfFacts DEF StageB
<1>5. CrossProbe.facet = "cross_family_recall"
  BY ProbeFields DEF CrossProbe
<1> QED BY <1>1, <1>2, <1>3, <1>4, <1>5, ProbeFields DEF NotCrossing

\* The facets of the small sets' plans.
GateFacets == {"stock_listing_gate", "stock_listing_existence"}
StockFacets == {"stock_primary", "stock_secondary_dual", "stock_temporal", "stock_company_itself"}
BorderFacets == {"border_direct", "border_geographic"}
MissingFacets == {"border_missingness", "stock_missingness"}

LEMMA TemplateFields ==
  ASSUME NEW f, NEW g
  PROVE  Template(f, g).facet = f /\ Template(f, g).family = g
BY DEF Template

LEMMA StockPlanFacts ==
  /\ FacetsApart(GatePlan) /\ FacetsApart(StockPlan) /\ FacetsApart(CrossPlan)
  /\ \A p \in Seen(GatePlan) : NotCrossing(p) /\ p.facet \in GateFacets
  /\ \A p \in Seen(StockPlan) : NotCrossing(p) /\ p.facet \in StockFacets
  /\ \A p \in Seen(CrossPlan) : p = Probe("stock_cross_family", "stock_cross_family",
                                          "cross_family_recall")
<1>1. /\ IsSequence(StockGate) /\ DOMAIN StockGate = {1, 2}
      /\ \A i \in DOMAIN StockGate : StockGate[i].facet \in GateFacets
                                    /\ StockGate[i].family # "cross_family_recall"
      /\ \A i, j \in DOMAIN StockGate : i < j => StockGate[i].facet # StockGate[j].facet
  <2>1. IsSequence(StockGate) /\ DOMAIN StockGate = {1, 2}
    BY ShortSequences DEF StockGate
  <2> QED BY <2>1, TemplateFields DEF StockGate, GateFacets
<1>2. /\ IsSequence(StockAcquisition) /\ DOMAIN StockAcquisition = {1, 2, 3, 4}
      /\ \A i \in DOMAIN StockAcquisition :
           StockAcquisition[i].facet \in StockFacets
             /\ StockAcquisition[i].family # "cross_family_recall"
      /\ \A i, j \in DOMAIN StockAcquisition :
           i < j => StockAcquisition[i].facet # StockAcquisition[j].facet
  <2>1. IsSequence(StockAcquisition) /\ DOMAIN StockAcquisition = {1, 2, 3, 4}
    BY ShortSequences DEF StockAcquisition
  <2> QED BY <2>1, TemplateFields DEF StockAcquisition, StockFacets
<1>3. /\ IsSequence(StockFreshness) /\ DOMAIN StockFreshness = {1}
      /\ StockFreshness[1].facet = "stock_cross_family"
      /\ StockFreshness[1].family = "cross_family_recall"
  <2>1. IsSequence(StockFreshness) /\ DOMAIN StockFreshness = {1}
    BY ShortSequences DEF StockFreshness
  <2> QED BY <2>1, TemplateFields DEF StockFreshness
<1>4. FacetsApart(GatePlan) /\ \A p \in Seen(GatePlan) : NotCrossing(p) /\ p.facet \in GateFacets
  <2>1. FacetsApart(GatePlan) /\ \A p \in Seen(GatePlan) : \E i \in DOMAIN StockGate :
          p = Probe(StockGate[i].facet, StockGate[i].facet, StockGate[i].family)
    BY <1>1, FacetPlanFacts DEF GatePlan
  <2> QED BY <1>1, <2>1, ProbeFields DEF NotCrossing
<1>5. FacetsApart(StockPlan) /\ \A p \in Seen(StockPlan) : NotCrossing(p) /\ p.facet \in StockFacets
  <2>1. FacetsApart(StockPlan) /\ \A p \in Seen(StockPlan) : \E i \in DOMAIN StockAcquisition :
          p = Probe(StockAcquisition[i].facet, StockAcquisition[i].facet, StockAcquisition[i].family)
    BY <1>2, FacetPlanFacts DEF StockPlan
  <2> QED BY <1>2, <2>1, ProbeFields DEF NotCrossing
<1>6. FacetsApart(CrossPlan) /\ \A p \in Seen(CrossPlan) : \E i \in DOMAIN StockFreshness :
        p = Probe(StockFreshness[i].facet, StockFreshness[i].facet, StockFreshness[i].family)
  <2>1. \A i, j \in DOMAIN StockFreshness : i < j => StockFreshness[i].facet # StockFreshness[j].facet
    BY <1>3
  <2> QED BY <1>3, <2>1, FacetPlanFacts DEF CrossPlan
<1> QED BY <1>3, <1>4, <1>5, <1>6

LEMMA BorderPlanFacts ==
  /\ FacetsApart(BorderPlan) /\ FacetsApart(MissingPlan)
  /\ \A p \in Seen(BorderPlan) : NotCrossing(p) /\ p.facet \in BorderFacets
  /\ \A p \in Seen(MissingPlan) : NotCrossing(p) /\ p.facet \in MissingFacets
<1>1. /\ IsSequence(BorderAcquisition) /\ DOMAIN BorderAcquisition = {1, 2}
      /\ \A i \in DOMAIN BorderAcquisition :
           BorderAcquisition[i].facet \in BorderFacets
             /\ BorderAcquisition[i].family # "cross_family_recall"
      /\ \A i, j \in DOMAIN BorderAcquisition :
           i < j => BorderAcquisition[i].facet # BorderAcquisition[j].facet
  <2>1. IsSequence(BorderAcquisition) /\ DOMAIN BorderAcquisition = {1, 2}
    BY ShortSequences DEF BorderAcquisition
  <2> QED BY <2>1, TemplateFields DEF BorderAcquisition, BorderFacets
<1> DEFINE M == IF relation = Stock THEN StockMissingness ELSE BorderMissingness
<1>2. /\ IsSequence(M) /\ DOMAIN M = {1}
      /\ M[1].facet \in MissingFacets /\ M[1].family = "missingness"
  <2>1. M = <<Template("stock_missingness", "missingness")>>
          \/ M = <<Template("border_missingness", "missingness")>>
    BY DEF StockMissingness, BorderMissingness
  <2> HIDE DEF M
  <2>2. IsSequence(M) /\ DOMAIN M = {1}
    BY <2>1, ShortSequences
  <2> QED BY <2>1, <2>2, TemplateFields DEF MissingFacets
<1>3. MissingPlan = FacetPlan(M)
  BY DEF MissingPlan
<1> HIDE DEF M
<1>4. FacetsApart(BorderPlan) /\ \A p \in Seen(BorderPlan) : NotCrossing(p) /\ p.facet \in BorderFacets
  <2>1. FacetsApart(BorderPlan) /\ \A p \in Seen(BorderPlan) : \E i \in DOMAIN BorderAcquisition :
          p = Probe(BorderAcquisition[i].facet, BorderAcquisition[i].facet, BorderAcquisition[i].family)
    BY <1>1, FacetPlanFacts DEF BorderPlan
  <2> QED BY <1>1, <2>1, ProbeFields DEF NotCrossing
<1>5. FacetsApart(MissingPlan) /\ \A p \in Seen(MissingPlan) : \E i \in DOMAIN M :
        p = Probe(M[i].facet, M[i].facet, M[i].family)
  <2>1. \A i, j \in DOMAIN M : i < j => M[i].facet # M[j].facet
    BY <1>2
  <2> QED BY <1>2, <1>3, <2>1, FacetPlanFacts
<1> QED BY <1>2, <1>4, <1>5, ProbeFields DEF NotCrossing

(***************************************************************************)
(* The invariant                                                           *)
(***************************************************************************)

\* The probes the specialist has asked.
Asked == {o.probe : o \in {x \in Seen(log) : IsSpecialistProbe(x)}}

\* The probes of the stage that runs, and of those that are over.
StagePlan ==
  IF step = "numbers" THEN Seen(NumericPlan)
  ELSE IF step = "facets" THEN Seen(LargeSetPlan)
  ELSE IF step = "stageA" THEN Seen(StageA)
  ELSE IF step = "stageB" THEN Seen(StageB) \cup IF CrossFamilyOn THEN {CrossProbe} ELSE {}
  ELSE IF step = "listing" THEN Seen(GatePlan)
  ELSE IF step = "acquisition" THEN IF relation = Stock THEN Seen(StockPlan) ELSE Seen(BorderPlan)
  ELSE IF step = "cross" THEN IF relation = Stock THEN Seen(CrossPlan) ELSE {}
  ELSE IF step = "missingness" THEN Seen(MissingPlan) ELSE {}

EarlierPlans ==
  IF step = "stageB" THEN Seen(StageA)
  ELSE IF step = "acquisition" THEN IF relation = Stock THEN Seen(GatePlan) ELSE {}
  ELSE IF step = "cross"
  THEN IF relation = Stock THEN Seen(GatePlan) \cup Seen(StockPlan) ELSE Seen(BorderPlan)
  ELSE IF step = "missingness"
  THEN IF relation = Stock THEN Seen(GatePlan) \cup Seen(StockPlan) \cup Seen(CrossPlan)
       ELSE Seen(BorderPlan)
  ELSE {}

WholePlan ==
  IF IsNumeric THEN Seen(NumericPlan)
  ELSE IF relation = Award THEN Seen(LargeSetPlan)
  ELSE IF relation = Death
  THEN Seen(StageA) \cup Seen(StageB) \cup IF CrossFamilyOn THEN {CrossProbe} ELSE {}
  ELSE IF relation = Stock
  THEN Seen(GatePlan) \cup Seen(StockPlan) \cup Seen(CrossPlan) \cup Seen(MissingPlan)
  ELSE Seen(BorderPlan) \cup Seen(MissingPlan)

StepInv ==
  \/ step = "memory" /\ log = <<>> /\ gate = "NONE" /\ stated = <<>>
  \/ step = "numbers" /\ IsNumeric
  \/ step = "facets" /\ relation = Award
  \/ step \in {"stageA", "stageB"} /\ relation = Death
  \/ step = "listing" /\ relation = Stock
  \/ step \in {"acquisition", "cross", "missingness"} /\ IsSmallSet
  \/ step = "specialist done" /\ todo = <<>>

FrameInv ==
  /\ relation \in Relations /\ calls \in Nat
  /\ IsSequence(todo) /\ IsSequence(memory) /\ IsSequence(log) /\ IsSequence(stated)
  /\ errors \in Seq(Seen(errors))
  /\ step = "memory" => Seen(todo) \subseteq Seen(RetrievalPlan)

LogInv ==
  \A o \in Seen(log) :
    /\ IsObservation(o, o.probe, o.source, o.text) /\ o.text \in Texts
    /\ o.status = "RUNTIME_ERROR" <=> o.text = Raised
    /\ \/ o.source = "PROBE"
       \/ o.source = "MEMORY" /\ o.probe \in Seen(RetrievalPlan) /\ o.text # Raised

\* Every probe is of the plan and asked at most once.
PlanInv ==
  step # "memory" =>
  /\ FacetsApart(todo) /\ Seen(todo) \subseteq StagePlan /\ Seen(todo) \cap Asked = {}
  /\ Asked \subseteq WholePlan
  /\ step # "specialist done" => Asked \subseteq EarlierPlans \cup StagePlan

\* All observations of one probe read one text.
OneTextInv ==
  \A o, p \in Seen(log) :
    IsSpecialistProbe(o) /\ IsSpecialistProbe(p) /\ o.probe = p.probe => o.text = p.text

ReadsDead ==
  StatusGroups("LIVING") = {} /\ Cardinality(StatusGroups("DECEASED")) >= MinGroups

SaysNoPlace(o) ==
  "noKnownLocality" \in o.text.cues \/ (o.text.word = "NONE" /\ SentinelDefined(o.probe))

\* Module 14: stage B follows the gate, and no absence is made up.
DeathInv ==
  relation = Death =>
  /\ step = "stageB" \/ Asked \cap Seen(StageB) # {} => ReadsDead
  /\ \A o \in Seen(log) : o.status = "OK" /\ o.kind = "LIVING" =>
       o.text.word = "LIVING" \/ "living" \in o.text.cues
  /\ \A s \in Seen(stated) : \E o \in Seen(log) : o.probe.group = s[2] /\ SaysNoPlace(o)

ReadsListed ==
  ListingGroups("NOT_LISTED") = {} /\ Cardinality(ListingGroups("LISTED")) >= MinListingGroups

\* Module 15: an acquisition follows the gate, the recall its doubt.
StockInv ==
  relation = Stock =>
  /\ step \in {"memory", "listing"} => gate = "NONE"
  /\ gate = "LISTED_PLAUSIBLE" => ReadsListed
  /\ (step \in {"acquisition", "missingness"} /\ todo # <<>>)
       \/ Asked \cap (Seen(StockPlan) \cup Seen(MissingPlan)) # {} => gate = "LISTED_PLAUSIBLE"
  /\ (step = "cross" /\ todo # <<>>) \/ Asked \cap Seen(CrossPlan) # {} =>
       gate \in {"UNRESOLVED", "LISTED_PLAUSIBLE"}
  /\ \A o \in Seen(log) : o.status = "OK" /\ o.name # "" =>
       o.kind \in {"TARGET_EXCHANGE"} \cup ToSet(StockNearMisses)

\* Module 15: what the missingness stage adds to what was held.
HeldInv ==
  /\ step \notin {"missingness", "specialist done"} => fresh = {}
  /\ IsSmallSet /\ step \in {"missingness", "specialist done"} => Held = before \cup fresh

\* Module 13: the missingness slice is asked last, of what was held then.
AwardInv ==
  relation = Award /\ step # "memory" =>
  IF MissingRecipients \in Asked
  THEN todo = <<>> /\ Recipients(Seen(log)) \ shown \subseteq
                        Recipients({o \in Seen(log) : o.probe.group = "missingness"})
  ELSE todo # <<>> /\ todo[Len(todo)] = MissingRecipients

\* Module 12: an observation is what the parser reads in its text.
NumberInv ==
  IsNumeric =>
  \A o \in Seen(log) : o \in Seen(ExtractNumbers(o.probe, o.source, o.text))

\* What the five specialists share.
BaseInv ==
  FrameInv /\ StepInv /\ MemoryInv /\ LogInv /\ EveryCallLeavesARecord /\ PlanInv /\ OneTextInv

IInv == BaseInv /\ DeathInv /\ StockInv /\ HeldInv /\ AwardInv /\ NumberInv

(***************************************************************************)
(* The records and the calls                                               *)
(***************************************************************************)

Failed(s) == {i \in DOMAIN s : s[i].status = "RUNTIME_ERROR"}

LEMMA FailedIsFinite ==
  ASSUME NEW s, IsSequence(s)
  PROVE  IsFiniteSet(Failed(s)) /\ Cardinality(Failed(s)) \in Nat
<1>1. Len(s) \in Nat /\ DOMAIN s = 1..Len(s)
  BY DEF IsSequence
<1>2. IsFiniteSet(1..Len(s)) /\ Failed(s) \subseteq 1..Len(s)
  BY <1>1, FS_Interval DEF Failed
<1> QED BY <1>2, FS_Subset, FS_CardinalityType

LEMMA FailedJoin ==
  ASSUME NEW s, NEW t, IsSequence(s), IsSequence(t)
  PROVE  /\ Failed(t) = {} => Cardinality(Failed(s \o t)) = Cardinality(Failed(s))
         /\ Len(t) = 1 /\ Failed(t) # {} => Cardinality(Failed(s \o t)) = Cardinality(Failed(s)) + 1
<1> DEFINE u == s \o t
<1>1. /\ Len(s) \in Nat /\ Len(t) \in Nat /\ DOMAIN u = 1..(Len(s) + Len(t))
      /\ DOMAIN s = 1..Len(s) /\ DOMAIN t = 1..Len(t)
      /\ \A i \in 1..Len(s) : u[i] = s[i]
      /\ \A i \in 1..Len(t) : u[Len(s) + i] = t[i]
  BY JoinedSequence
<1> HIDE DEF u
<1>2. \A i \in DOMAIN u : \/ i \in DOMAIN s /\ u[i] = s[i]
                          \/ i - Len(s) \in DOMAIN t /\ u[i] = t[i - Len(s)]
  <2> TAKE i \in DOMAIN u
  <2>1. CASE i <= Len(s)
    BY <1>1, <2>1
  <2>2. CASE i > Len(s)
    <3>1. i - Len(s) \in 1..Len(t) /\ Len(s) + (i - Len(s)) = i
      BY <1>1, <2>2
    <3> QED BY <1>1, <3>1
  <2> QED BY <1>1, <2>1, <2>2
<1>3. \A i \in Failed(s) : i \in Failed(u)
  BY <1>1 DEF Failed
<1>4. ASSUME Failed(t) = {} PROVE Failed(u) = Failed(s)
  <2>1. \A i \in Failed(u) : i \in Failed(s)
    BY <1>1, <1>2, <1>4 DEF Failed
  <2> QED BY <1>3, <2>1
<1>5. ASSUME Len(t) = 1, Failed(t) # {}
      PROVE  Cardinality(Failed(u)) = Cardinality(Failed(s)) + 1
  <2> DEFINE n == Len(s) + 1
  <2>1. 1 \in Failed(t) /\ \A i \in Failed(t) : i = 1
    BY <1>1, <1>5 DEF Failed
  <2>2. n \in Failed(u) /\ n \notin Failed(s)
    BY <1>1, <1>5, <2>1 DEF Failed
  <2>3. \A i \in Failed(u) : i \in Failed(s) \/ i = n
    BY <1>1, <1>2, <2>1 DEF Failed
  <2> HIDE DEF n
  <2>4. Failed(u) = Failed(s) \cup {n}
    BY <1>3, <2>2, <2>3
  <2> QED BY <2>2, <2>4, FailedIsFinite, FS_AddElement
<1> QED BY <1>4, <1>5 DEF u

LEMMA AppendedIsJoined ==
  ASSUME NEW s, NEW e, IsSequence(s)
  PROVE  Append(s, e) = s \o <<e>>
<1> DEFINE S == Seen(s) \cup {e}
<1>1. s \in Seq(S) /\ e \in S
  BY SeqMonotonic DEF IsSequence
<1> HIDE DEF S
<1> QED BY <1>1

LEMMA AppendedSequence ==
  ASSUME NEW s, NEW e, IsSequence(s)
  PROVE  /\ IsSequence(Append(s, e)) /\ Seen(Append(s, e)) = Seen(s) \cup {e}
         /\ Len(Append(s, e)) = Len(s) + 1 /\ Len(s) \in Nat
<1>1. IsSequence(<<e>>) /\ Seen(<<e>>) = {e} /\ Len(<<e>>) = 1
  BY OneSequence
<1>2. Append(s, e) = s \o <<e>>
  BY AppendedIsJoined
<1> DEFINE t == <<e>>
<1> HIDE DEF t
<1>3. IsSequence(s \o t) /\ Seen(s \o t) = Seen(s) \cup Seen(t) /\ Len(s \o t) = Len(s) + Len(t) /\ Len(s) \in Nat
  BY <1>1, JoinedSequence DEF t
<1> QED BY <1>1, <1>2, <1>3 DEF t

\* The accounts of a state.
Accounts ==
  /\ Cardinality(Failed(memory)) + Cardinality(Failed(log)) = Len(errors)
  /\ calls >= Len(memory) + Cardinality(Asked) - Len(errors)
  /\ calls <= Len(memory) + Cardinality(Asked)

LEMMA AccountsAreTheProperty == EveryCallLeavesARecord <=> Accounts
BY DEF EveryCallLeavesARecord, Accounts, Failed, Asked

LEMMA AskedIsFinite == ASSUME IsSequence(log) PROVE IsFiniteSet(Asked) /\ Cardinality(Asked) \in Nat
<1> DEFINE p == [i \in DOMAIN log |-> log[i].probe]
<1>1. Len(log) \in Nat /\ DOMAIN log = 1..Len(log)
  BY DEF IsSequence
<1>2. IsFiniteSet(DOMAIN log) /\ DOMAIN p = DOMAIN log
  BY <1>1, FS_Interval
<1>3. Asked \subseteq {p[i] : i \in DOMAIN log}
  BY DEF Asked, Seen
<1>4. IsFiniteSet({p[i] : i \in DOMAIN log})
  <2> DEFINE S == DOMAIN log
  <2>1. IsFiniteSet(S) /\ DOMAIN p = S
    BY <1>2
  <2> HIDE DEF p, S
  <2>2. IsFiniteSet({p[i] : i \in S})
    BY <2>1, FiniteImage
  <2> QED BY <2>2 DEF S
<1> HIDE DEF p
<1> QED BY <1>3, <1>4, FS_Subset, FS_CardinalityType

\* The stages of a relation make up its plan.
LEMMA PlansAreWhole ==
  ASSUME StepInv, step # "memory"
  PROVE  StagePlan \subseteq WholePlan /\ EarlierPlans \subseteq WholePlan
<1> USE DEF StagePlan, EarlierPlans, WholePlan
<1>1. /\ IsNumeric => relation \notin {Award, Death, Borders, Stock}
      /\ IsSmallSet <=> relation \in {Borders, Stock}
  BY DEF IsNumeric, OfficialNumeric, IsSmallSet, Area, Capacity, Award, Death, Borders, Stock
<1>2. Award # Death /\ Award \notin {Borders, Stock} /\ Death \notin {Borders, Stock} /\ Borders # Stock
  BY DEF Award, Death, Borders, Stock
<1>3. CASE step = "numbers" /\ IsNumeric
  BY <1>3
<1>4. CASE step = "facets" /\ relation = Award
  BY <1>1, <1>4
<1>5. CASE step \in {"stageA", "stageB"} /\ relation = Death
  BY <1>1, <1>2, <1>5
<1>6. CASE step = "listing" /\ relation = Stock
  BY <1>1, <1>2, <1>6
<1>7. CASE step \in {"acquisition", "cross", "missingness"} /\ IsSmallSet
  BY <1>1, <1>2, <1>7
<1>8. CASE step = "specialist done"
  BY <1>8
<1> QED BY <1>3, <1>4, <1>5, <1>6, <1>7, <1>8 DEF StepInv

(***************************************************************************)
(* A call of the specialist                                                *)
(***************************************************************************)

Asks(text, found) ==
  /\ step # "memory" /\ todo # <<>> /\ todo' = Tail(todo) /\ log' = log \o found
  /\ text \in Texts /\ Reply(found, Head(todo), "PROBE", text)
  /\ calls' \in {calls, calls + 1} /\ (text # Raised => calls' = calls + 1)
  /\ errors' = IF text = Raised THEN Append(errors, Head(todo).op) ELSE errors
  /\ UNCHANGED <<relation, memory, step, gate>>

LEMMA ObservationFields ==
  ASSUME NEW o, NEW p, NEW s, NEW t, IsObservation(o, p, s, t)
  PROVE  o.probe = p /\ o.source = s /\ o.text = t
<1> DEFINE a == o.status
           b == o.kind
           c == o.name
<1>1. o = Observe(p, s, a, b, c, t)
  BY DEF IsObservation
<1> HIDE DEF a, b, c
<1> QED BY <1>1 DEF Observe

LEMMA AskedFacts ==
  ASSUME FrameInv, NEW text, NEW found, Asks(text, found)
  PROVE  /\ Seen(log') = Seen(log) \cup Seen(found) /\ Seen(found) # {}
         /\ IsSequence(log') /\ IsSequence(todo') /\ IsSequence(found)
         /\ \A o \in Seen(found) :
              /\ IsObservation(o, Head(todo), "PROBE", text)
              /\ o.probe = Head(todo) /\ o.source = "PROBE" /\ o.text = text
              /\ o.status = "RUNTIME_ERROR" <=> text = Raised
         /\ Asked' = Asked \cup {Head(todo)}
         /\ Seen(todo) = {Head(todo)} \cup Seen(todo') /\ Head(todo) = todo[1]
<1>1. /\ IsSequence(todo) /\ IsSequence(log) /\ todo # <<>> /\ todo' = Tail(todo) /\ log' = log \o found
      /\ Reply(found, Head(todo), "PROBE", text)
  BY DEF FrameInv, Asks
<1>2. IsSequence(found) /\ found # <<>>
  BY <1>1 DEF Reply
<1>3. \A o \in Seen(found) :
        /\ IsObservation(o, Head(todo), "PROBE", text)
        /\ o.status = "RUNTIME_ERROR" <=> text = Raised
  BY <1>1 DEF Reply, Seen
<1>4. \A o \in Seen(found) : o.probe = Head(todo) /\ o.source = "PROBE" /\ o.text = text
  BY <1>3, ObservationFields
<1>5. Seen(found) # {}
  BY <1>2, HeadAndRest
<1>6. Seen(log') = Seen(log) \cup Seen(found) /\ IsSequence(log')
  BY <1>1, <1>2, JoinedSequence
<1>7. Asked' = Asked \cup {Head(todo)}
  BY <1>4, <1>5, <1>6 DEF Asked, IsSpecialistProbe
<1>8. IsSequence(todo') /\ Seen(todo) = {Head(todo)} \cup Seen(todo') /\ Head(todo) = todo[1]
  BY <1>1, HeadAndRest
<1> QED BY <1>2, <1>3, <1>4, <1>5, <1>6, <1>7, <1>8

LEMMA AsksKeepsFrame ==
  ASSUME FrameInv, IsSequence(stated'), NEW text, NEW found, Asks(text, found)
  PROVE  FrameInv'
<1>1. IsSequence(log') /\ IsSequence(todo')
  BY AskedFacts
<1>2. errors' \in Seq(Seen(errors'))
  <2>1. IsSequence(errors)
    BY DEF FrameInv, IsSequence
  <2>2. IsSequence(Append(errors, Head(todo).op))
    BY <2>1, AppendedSequence
  <2> QED BY <2>1, <2>2 DEF Asks, IsSequence
<1>3. calls' \in Nat
  BY DEF FrameInv, Asks
<1> QED BY <1>1, <1>2, <1>3 DEF FrameInv, Asks

LEMMA AsksKeepsLog ==
  ASSUME FrameInv, LogInv, MemoryInv, NEW text, NEW found, Asks(text, found)
  PROVE  LogInv' /\ MemoryInv'
<1>1. relation' = relation /\ memory' = memory /\ Texts' = Texts /\ text \in Texts
  BY DEF Asks, Texts
<1>2. MemoryInv'
  BY <1>1 DEF MemoryInv, Minable
<1>3. ASSUME NEW o \in Seen(log')
      PROVE  /\ IsObservation(o, o.probe, o.source, o.text) /\ o.text \in Texts
             /\ o.status = "RUNTIME_ERROR" <=> o.text = Raised
             /\ \/ o.source = "PROBE"
                \/ o.source = "MEMORY" /\ o.probe \in Seen(RetrievalPlan) /\ o.text # Raised
  <2>1. CASE o \in Seen(log)
    BY <2>1 DEF LogInv
  <2>2. CASE o \in Seen(found)
    BY <1>1, <2>2, AskedFacts
  <2> QED BY <2>1, <2>2, AskedFacts
<1> QED BY <1>1, <1>2, <1>3 DEF LogInv

LEMMA AsksKeepsOneText ==
  ASSUME FrameInv, OneTextInv, PlanInv, NEW text, NEW found, Asks(text, found)
  PROVE  OneTextInv'
<1>1. Head(todo) \notin Asked
  BY AskedFacts DEF PlanInv, Asks
<1>2. \A o \in Seen(log) : IsSpecialistProbe(o) => o.probe \in Asked
  BY DEF Asked
<1>3. ASSUME NEW o \in Seen(log'), NEW p \in Seen(log'),
             IsSpecialistProbe(o), IsSpecialistProbe(p), o.probe = p.probe
      PROVE  o.text = p.text
  <2>1. CASE o \in Seen(log) /\ p \in Seen(log)
    BY <1>3, <2>1 DEF OneTextInv
  <2>2. CASE o \in Seen(found) /\ p \in Seen(found)
    BY <2>2, AskedFacts
  <2>3. CASE o \in Seen(log) /\ p \in Seen(found)
    BY <1>1, <1>2, <1>3, <2>3, AskedFacts
  <2>4. CASE o \in Seen(found) /\ p \in Seen(log)
    BY <1>1, <1>2, <1>3, <2>4, AskedFacts
  <2> QED BY <2>1, <2>2, <2>3, <2>4, AskedFacts
<1> QED BY <1>3 DEF OneTextInv

LEMMA AsksKeepsAccounts ==
  ASSUME FrameInv, PlanInv, Accounts, NEW text, NEW found, Asks(text, found)
  PROVE  Accounts'
<1>1. Cardinality(Asked') = Cardinality(Asked) + 1 /\ Cardinality(Asked) \in Nat
  <2>1. Head(todo) \notin Asked
    BY AskedFacts DEF PlanInv, Asks
  <2>2. IsFiniteSet(Asked) /\ Cardinality(Asked) \in Nat
    BY AskedIsFinite DEF FrameInv
  <2> QED BY <2>1, <2>2, AskedFacts, FS_AddElement
<1>2. memory' = memory /\ log' = log \o found /\ IsSequence(log) /\ IsSequence(found) /\ IsSequence(memory)
  BY AskedFacts DEF Asks, FrameInv
<1>3. /\ Cardinality(Failed(memory)) \in Nat /\ Cardinality(Failed(log)) \in Nat
      /\ Len(memory) \in Nat /\ calls \in Nat /\ errors \in Seq(Seen(errors))
  BY <1>2, FailedIsFinite DEF FrameInv, IsSequence
<1>4. Len(errors) \in Nat /\ Len(Append(errors, Head(todo).op)) = Len(errors) + 1
  <2>1. IsSequence(errors)
    BY <1>3 DEF IsSequence
  <2> QED BY <1>3, <2>1, AppendedSequence
<1>7. Cardinality(Failed(memory')) = Cardinality(Failed(memory)) /\ Len(memory') = Len(memory)
  BY <1>2
<1>8. Accounts' <=>
        /\ Cardinality(Failed(memory')) + Cardinality(Failed(log')) = Len(errors')
        /\ calls' >= Len(memory') + Cardinality(Asked') - Len(errors')
        /\ calls' <= Len(memory') + Cardinality(Asked')
  BY DEF Accounts
<1>9. /\ Cardinality(Failed(memory)) + Cardinality(Failed(log)) = Len(errors)
      /\ calls >= Len(memory) + Cardinality(Asked) - Len(errors)
      /\ calls <= Len(memory) + Cardinality(Asked)
  BY DEF Accounts
<1>5. CASE text = Raised
  <2>1. Len(found) = 1 /\ Failed(found) # {}
    <3>1. Len(found) = 1
      BY <1>5 DEF Asks, Reply
    <3>2. 1 \in DOMAIN found /\ found[1].status = "RUNTIME_ERROR"
      BY <1>2, <1>5, <3>1 DEF Asks, Reply, IsSequence
    <3> QED BY <3>1, <3>2 DEF Failed
  <2>2. Cardinality(Failed(log')) = Cardinality(Failed(log)) + 1
    BY <1>2, <2>1, FailedJoin
  <2>3. errors' = Append(errors, Head(todo).op) /\ calls' \in {calls, calls + 1}
    BY <1>5 DEF Asks
  <2>4. Len(errors') = Len(errors) + 1 /\ calls' \in Nat
    BY <1>3, <1>4, <2>3
  <2>5. Cardinality(Failed(memory')) + Cardinality(Failed(log')) = Len(errors')
    BY <1>3, <1>4, <1>7, <1>9, <2>2, <2>4
  <2> DEFINE m == Len(memory)
             a == Cardinality(Asked)
             e == Len(errors)
  <2>8. /\ m \in Nat /\ a \in Nat /\ e \in Nat /\ calls \in Nat
        /\ calls >= m + a - e /\ calls <= m + a
        /\ Len(memory') = m /\ Cardinality(Asked') = a + 1 /\ e = Len(errors)
    BY <1>1, <1>3, <1>4, <1>7, <1>9
  <2> HIDE DEF m, a, e
  <2>6. calls' >= Len(memory') + Cardinality(Asked') - Len(errors')
    BY <2>3, <2>4, <2>8
  <2>7. calls' <= Len(memory') + Cardinality(Asked')
    BY <2>3, <2>4, <2>8
  <2> QED BY <1>8, <2>5, <2>6, <2>7
<1>6. CASE text # Raised
  <2>1. Failed(found) = {}
    BY <1>6 DEF Asks, Reply, Failed
  <2>2. Cardinality(Failed(log')) = Cardinality(Failed(log))
    BY <1>2, <2>1, FailedJoin
  <2>3. errors' = errors /\ calls' = calls + 1
    BY <1>6 DEF Asks
  <2>4. Len(errors') = Len(errors) + 0 /\ calls' \in Nat
    BY <1>3, <1>4, <2>3
  <2>5. Cardinality(Failed(memory')) + Cardinality(Failed(log')) = Len(errors')
    BY <1>3, <1>4, <1>7, <1>9, <2>2, <2>4
  <2> DEFINE m == Len(memory)
             a == Cardinality(Asked)
             e == Len(errors)
  <2>8. /\ m \in Nat /\ a \in Nat /\ e \in Nat /\ calls \in Nat
        /\ calls >= m + a - e /\ calls <= m + a
        /\ Len(memory') = m /\ Cardinality(Asked') = a + 1 /\ e = Len(errors)
    BY <1>1, <1>3, <1>4, <1>7, <1>9
  <2> HIDE DEF m, a, e
  <2>6. calls' >= Len(memory') + Cardinality(Asked') - Len(errors')
    BY <2>3, <2>4, <2>8
  <2>7. calls' <= Len(memory') + Cardinality(Asked')
    BY <2>3, <2>4, <2>8
  <2> QED BY <1>8, <2>5, <2>6, <2>7
<1> QED BY <1>5, <1>6

LEMMA AsksKeepsPlan ==
  ASSUME FrameInv, StepInv, PlanInv, NEW text, NEW found, Asks(text, found)
  PROVE  PlanInv' /\ StepInv'
<1>1. step # "memory" /\ relation' = relation /\ step' = step /\ todo # <<>> /\ IsSequence(todo)
  BY DEF Asks, FrameInv
<1>2. StagePlan' = StagePlan /\ EarlierPlans' = EarlierPlans /\ WholePlan' = WholePlan
  BY <1>1 DEF StagePlan, EarlierPlans, WholePlan, MissingPlan, NumericPlan, IsNumeric
<1>3. FacetsApart(todo')
  <2>1. /\ todo' = Tail(todo) /\ Len(todo) \in Nat /\ DOMAIN todo = 1..Len(todo)
        /\ DOMAIN Tail(todo) = 1..(Len(todo) - 1)
        /\ \A i \in 1..(Len(todo) - 1) : Tail(todo)[i] = todo[i + 1]
    BY <1>1, HeadAndRest DEF Asks
  <2>2. \A k, l \in 1..Len(todo) : k < l => todo[k].facet # todo[l].facet
    BY <1>1, <2>1 DEF PlanInv, FacetsApart
  <2>3. \A k \in 1..(Len(todo) - 1) : k + 1 \in 1..Len(todo)
    BY <2>1
  <2>4. \A k, l \in DOMAIN todo' : k < l => todo'[k].facet # todo'[l].facet
    <3> SUFFICES ASSUME NEW k \in 1..(Len(todo) - 1), NEW l \in 1..(Len(todo) - 1), k < l
                 PROVE todo'[k].facet # todo'[l].facet
      BY <2>1
    <3>1. k + 1 < l + 1 /\ k + 1 \in 1..Len(todo) /\ l + 1 \in 1..Len(todo)
      BY <2>1
    <3> QED BY <2>1, <2>2, <3>1
  <2> QED BY <2>4, AskedFacts DEF FacetsApart
<1>4. Head(todo) \notin Seen(todo')
  <2>1. /\ todo' = Tail(todo) /\ Len(todo) \in Nat /\ DOMAIN todo = 1..Len(todo) /\ Len(todo) > 0
        /\ DOMAIN Tail(todo) = 1..(Len(todo) - 1) /\ Head(todo) = todo[1]
        /\ \A i \in 1..(Len(todo) - 1) : Tail(todo)[i] = todo[i + 1]
    BY <1>1, HeadAndRest DEF Asks
  <2>2. \A k \in 1..(Len(todo) - 1) : k + 1 \in 1..Len(todo) /\ 1 < k + 1 /\ 1 \in 1..Len(todo)
    BY <2>1
  <2>3. \A k \in 1..(Len(todo) - 1) : todo[1].facet # todo[k + 1].facet
    BY <1>1, <2>1, <2>2 DEF PlanInv, FacetsApart
  <2> QED BY <2>1, <2>3 DEF Seen
<1>5. StepInv'
  BY <1>1 DEF StepInv, IsNumeric, IsSmallSet
<1>6. step # "specialist done"
  BY <1>1 DEF StepInv
<1>7. /\ FacetsApart(todo) /\ Seen(todo) \subseteq StagePlan /\ Seen(todo) \cap Asked = {}
      /\ Asked \subseteq WholePlan /\ Asked \subseteq EarlierPlans \cup StagePlan
  BY <1>1, <1>6 DEF PlanInv
<1>8. Asked' = Asked \cup {Head(todo)} /\ Seen(todo) = {Head(todo)} \cup Seen(todo')
  BY AskedFacts
<1>9. StagePlan \subseteq WholePlan
  BY <1>1, <1>6, PlansAreWhole
<1>10. PlanInv'
  <2>1. Seen(todo') \cap Asked' = {}
    BY <1>4, <1>7, <1>8
  <2>2. Head(todo) \in StagePlan /\ Seen(todo') \subseteq StagePlan
    BY <1>7, <1>8
  <2> QED BY <1>2, <1>3, <1>7, <1>8, <1>9, <2>1, <2>2 DEF PlanInv
<1> QED BY <1>5, <1>10

(***************************************************************************)
(* A record of Module 11, the mining of the records, the turn to a stage   *)
(***************************************************************************)

LEMMA EmptyLog ==
  ASSUME log = <<>>
  PROVE  Seen(log) = {} /\ Asked = {} /\ Failed(log) = {}
BY EmptySequence DEF Asked, Failed

LEMMA MemoryStep ==
  ASSUME StepInv, step = "memory"
  PROVE  log = <<>> /\ gate = "NONE" /\ stated = <<>>
BY DEF StepInv

LEMMA RetrievalFacts ==
  ASSUME NEW p, NEW text
  PROVE  /\ MemoryRecord(p, text).probe = p /\ MemoryRecord(p, text).text = text
         /\ MemoryRecord(p, text).status = "RUNTIME_ERROR" <=> text = Raised
BY DEF MemoryRecord, ClassifyOutput

LEMMA RetrieveKeeps ==
  ASSUME FrameInv, StepInv, MemoryInv, LogInv, Accounts, Retrieve, stated' = stated
  PROVE  FrameInv' /\ StepInv' /\ MemoryInv' /\ LogInv' /\ Accounts' /\ PlanInv' /\ OneTextInv'
<1>1. /\ step = "memory" /\ step' = "memory" /\ log' = <<>> /\ log = <<>> /\ gate' = gate
      /\ gate = "NONE" /\ stated = <<>> /\ relation' = relation
      /\ todo # <<>> /\ todo' = Tail(todo) /\ IsSequence(todo)
  BY MemoryStep DEF Retrieve, FrameInv
<1>2. PICK text :
        /\ text \in Texts /\ memory' = Append(memory, MemoryRecord(Head(todo), text))
        /\ calls' \in {calls, calls + 1} /\ (text # Raised => calls' = calls + 1)
        /\ errors' = IF text = Raised THEN Append(errors, Head(todo).op) ELSE errors
  <2>1. CASE \E text \in TextsOf[relation] :
               /\ memory' = Append(memory, MemoryRecord(Head(todo), text))
               /\ calls' = calls + 1 /\ UNCHANGED errors
    <3>1. relation \in Relations
      BY DEF FrameInv
    <3>2. \A text \in TextsOf[relation] : text # Raised
      BY <3>1, TextsAreReturned DEF Raised
    <3> QED BY <2>1, <3>2 DEF Texts
  <2>2. CASE \E spent \in {0, 1} :
               /\ memory' = Append(memory, MemoryRecord(Head(todo), Raised))
               /\ calls' = calls + spent /\ errors' = Append(errors, Head(todo).op)
    <3>1. calls \in Nat
      BY DEF FrameInv
    <3> QED BY <2>2, <3>1 DEF Texts
  <2> QED BY <2>1, <2>2 DEF Retrieve, Call
<1> DEFINE r == MemoryRecord(Head(todo), text)
<1>3. /\ r.probe = Head(todo) /\ r.text = text
      /\ r.status = "RUNTIME_ERROR" <=> text = Raised
  BY RetrievalFacts
<1>4. memory' = Append(memory, r)
  BY <1>2
<1> HIDE DEF r
<1>5. IsSequence(memory) /\ memory' = memory \o <<r>> /\ IsSequence(<<r>>) /\ Len(<<r>>) = 1
      /\ <<r>>[1] = r /\ IsSequence(memory')
  BY <1>4, AppendedIsJoined, AppendedSequence, OneSequence DEF FrameInv
<1>6. IsSequence(todo') /\ Seen(todo') \subseteq Seen(todo) /\ Head(todo) \in Seen(todo)
  BY <1>1, HeadAndRest
<1>7. Seen(todo) \subseteq Seen(RetrievalPlan)
  BY <1>1 DEF FrameInv
<1>8. /\ IsSequence(errors) /\ IsSequence(Append(errors, Head(todo).op)) /\ Len(errors) \in Nat
      /\ Len(Append(errors, Head(todo).op)) = Len(errors) + 1
  <2>1. IsSequence(errors)
    BY DEF FrameInv, IsSequence
  <2> QED BY <2>1, AppendedSequence
<1>9. FrameInv'
  <2>1. errors' \in Seq(Seen(errors')) /\ calls' \in Nat
    <3>1. IsSequence(errors')
      BY <1>2, <1>8
    <3>2. calls' \in Nat
      BY <1>2 DEF FrameInv
    <3> QED BY <3>1, <3>2 DEF IsSequence
  <2>2. IsSequence(log') /\ IsSequence(stated')
    BY <1>1, EmptySequence
  <2>3. Seen(todo') \subseteq Seen(RetrievalPlan)'
    BY <1>6, <1>7 DEF RetrievalPlan
  <2> QED BY <1>1, <1>5, <1>6, <2>1, <2>2, <2>3 DEF FrameInv
<1>10. StepInv'
  BY <1>1 DEF StepInv
<1>11. MemoryInv'
  <2>1. Texts' = Texts /\ RetrievalPlan' = RetrievalPlan
    BY <1>1 DEF Texts, RetrievalPlan
  <2>2. \A i \in DOMAIN memory' : memory'[i] \in Seen(memory) \cup {r}
    <3>1. Seen(memory') = Seen(memory) \cup {r}
      BY <1>4, <1>5, AppendedSequence
    <3> QED BY <3>1 DEF Seen
  <2>3. \A x \in Seen(memory) : /\ x.text \in Texts /\ x.probe \in Seen(RetrievalPlan)
                                /\ ~Minable(x) <=> x.text = Raised
    BY DEF MemoryInv, Seen
  <2>4. r.text \in Texts /\ r.probe \in Seen(RetrievalPlan) /\ (~Minable(r) <=> r.text = Raised)
    BY <1>2, <1>3, <1>6, <1>7 DEF Minable
  <2>6. \A x \in Seen(memory) \cup {r} :
          /\ x.text \in Texts /\ x.probe \in Seen(RetrievalPlan)
          /\ ~Minable(x) <=> x.text = Raised
    <3> TAKE x \in Seen(memory) \cup {r}
    <3>1. CASE x \in Seen(memory)
      BY <2>3, <3>1
    <3>2. CASE x = r
      BY <2>4, <3>2
    <3> QED BY <3>1, <3>2
  <2>5. ASSUME NEW i \in DOMAIN memory'
        PROVE  /\ memory'[i].text \in Texts' /\ memory'[i].probe \in Seen(RetrievalPlan')
               /\ ~Minable(memory'[i]) <=> memory'[i].text = Raised
    BY <2>1, <2>2, <2>6
  <2> QED BY <2>5 DEF MemoryInv
<1>12. LogInv' /\ OneTextInv' /\ PlanInv'
  <2>1. Seen(log') = {}
    BY <1>1, EmptySequence
  <2> QED BY <1>1, <2>1 DEF LogInv, OneTextInv, PlanInv
<1>13. Accounts'
  <2>1. Cardinality(Asked') = 0 /\ Cardinality(Asked) = 0
    <3>1. Seen(log) = {} /\ Seen(log') = {}
      BY <1>1, EmptySequence
    <3> QED BY <3>1, FS_EmptySet DEF Asked
  <2>2. log' = log
    BY <1>1
  <2>3. Cardinality(Failed(memory')) = Cardinality(Failed(memory)) + IF text = Raised THEN 1 ELSE 0
    <3> DEFINE t == <<r>>
    <3>1. memory' = memory \o t /\ IsSequence(memory) /\ IsSequence(t) /\ Len(t) = 1 /\ t[1] = r
      BY <1>5
    <3>2. Failed(t) = {} <=> text # Raised
      BY <1>3, <3>1 DEF Failed, IsSequence
    <3> HIDE DEF t
    <3>3. Cardinality(Failed(memory)) \in Nat
      BY <3>1, FailedIsFinite
    <3> QED BY <3>1, <3>2, <3>3, FailedJoin
  <2>4. Len(memory') = Len(memory) + 1 /\ Len(memory) \in Nat
    BY <1>4, <1>5, AppendedSequence
  <2>5. Len(errors') = Len(errors) + IF text = Raised THEN 1 ELSE 0
    BY <1>2, <1>8
  <2>6. Cardinality(Failed(memory)) \in Nat /\ Cardinality(Failed(log)) \in Nat
    BY FailedIsFinite DEF FrameInv
  <2> DEFINE m == Len(memory)
             e == Len(errors)
             f == Cardinality(Failed(memory))
             g == Cardinality(Failed(log))
             spent == IF text = Raised THEN 1 ELSE 0
  <2>7. /\ m \in Nat /\ e \in Nat /\ f \in Nat /\ g \in Nat /\ f + g = e
        /\ calls >= m + 0 - e /\ calls <= m + 0 /\ spent \in {0, 1} /\ calls \in Nat
        /\ (spent = 0 => calls' = calls + 1) /\ calls' \in {calls, calls + 1}
    BY <1>2, <1>8, <2>1, <2>4, <2>6 DEF Accounts, FrameInv
  <2>8. /\ Cardinality(Failed(memory')) = f + spent /\ Cardinality(Failed(log')) = g
        /\ Len(memory') = m + 1 /\ Len(errors') = e + spent
    BY <2>2, <2>3, <2>4, <2>5
  <2> HIDE DEF m, e, f, g, spent
  <2>9. Cardinality(Failed(memory')) + Cardinality(Failed(log')) = Len(errors')
    BY <2>7, <2>8
  <2>10. calls' >= Len(memory') + Cardinality(Asked') - Len(errors')
    BY <2>1, <2>7, <2>8
  <2>11. calls' <= Len(memory') + Cardinality(Asked')
    BY <2>1, <2>7, <2>8
  <2> QED BY <2>9, <2>10, <2>11 DEF Accounts
<1> QED BY <1>9, <1>10, <1>11, <1>12, <1>13

\* What a specialist makes of a record.
MinedObservation(o) ==
  \E i \in DOMAIN memory :
    /\ Minable(memory[i]) /\ o.status # "RUNTIME_ERROR"
    /\ IsObservation(o, memory[i].probe, "MEMORY", memory[i].text)

Mines ==
  /\ step = "memory" /\ step' \notin {"memory", "specialist done"}
  /\ IsSequence(log') /\ IsSequence(stated') /\ \A o \in Seen(log') : MinedObservation(o)
  /\ FacetsApart(todo') /\ Seen(todo') \subseteq StagePlan'
  /\ UNCHANGED <<relation, memory, calls, errors, gate>>

LEMMA MinesKeeps ==
  ASSUME FrameInv, StepInv, MemoryInv, Accounts, Mines
  PROVE  /\ FrameInv' /\ MemoryInv' /\ LogInv' /\ Accounts' /\ PlanInv' /\ OneTextInv'
         /\ Asked' = {}
<1>1. /\ log = <<>> /\ step' # "memory" /\ step' # "specialist done"
      /\ relation' = relation /\ memory' = memory /\ calls' = calls /\ errors' = errors
      /\ IsSequence(log') /\ IsSequence(stated') /\ FacetsApart(todo') /\ Seen(todo') \subseteq StagePlan'
  BY MemoryStep DEF Mines
<1>2. ASSUME NEW o \in Seen(log')
      PROVE  /\ IsObservation(o, o.probe, o.source, o.text) /\ o.text \in Texts
             /\ o.status # "RUNTIME_ERROR" /\ o.text # Raised /\ o.source = "MEMORY"
             /\ o.probe \in Seen(RetrievalPlan)
  <2>1. PICK i \in DOMAIN memory :
          /\ Minable(memory[i]) /\ o.status # "RUNTIME_ERROR"
          /\ IsObservation(o, memory[i].probe, "MEMORY", memory[i].text)
    BY DEF Mines, MinedObservation
  <2>2. o.probe = memory[i].probe /\ o.source = "MEMORY" /\ o.text = memory[i].text
    BY <2>1, ObservationFields
  <2> QED BY <2>1, <2>2 DEF MemoryInv
<1>3. Asked' = {}
  BY <1>2 DEF Asked, IsSpecialistProbe
<1>4. MemoryInv' /\ LogInv'
  <2>1. Texts' = Texts /\ RetrievalPlan' = RetrievalPlan
    BY <1>1 DEF Texts, RetrievalPlan
  <2>2. MemoryInv'
    BY <1>1, <2>1 DEF MemoryInv
  <2> QED BY <1>2, <2>1, <2>2 DEF LogInv
<1>5. FrameInv'
  BY <1>1 DEF FrameInv, FacetsApart
<1>6. PlanInv' /\ OneTextInv'
  BY <1>1, <1>2, <1>3 DEF PlanInv, OneTextInv, IsSpecialistProbe
<1>7. Accounts'
  <2>1. Failed(log') = {} /\ Failed(log) = {} /\ Asked = {}
    BY <1>1, <1>2, EmptyLog DEF Failed, Seen
  <2> QED BY <1>1, <1>3, <2>1 DEF Accounts
<1> QED BY <1>3, <1>4, <1>5, <1>6, <1>7

\* A stage is over and the next one is planned.
Turns ==
  /\ step \notin {"memory", "specialist done"} /\ step' # "memory"
  /\ FacetsApart(todo') /\ Seen(todo') \subseteq StagePlan' /\ Seen(todo') \cap Asked = {}
  /\ step' # "specialist done" => Asked \subseteq EarlierPlans' \cup StagePlan'
  /\ UNCHANGED <<relation, memory, log, calls, errors>>

LEMMA TurnsKeeps ==
  ASSUME FrameInv, MemoryInv, LogInv, Accounts, PlanInv, OneTextInv, IsSequence(stated'), Turns
  PROVE  /\ FrameInv' /\ MemoryInv' /\ LogInv' /\ Accounts' /\ PlanInv' /\ OneTextInv'
         /\ Asked' = Asked
<1>1. /\ relation' = relation /\ memory' = memory /\ log' = log /\ calls' = calls
      /\ errors' = errors /\ step # "memory" /\ step' # "memory"
  BY DEF Turns
<1>2. /\ Asked' = Asked /\ WholePlan' = WholePlan /\ Texts' = Texts
      /\ RetrievalPlan' = RetrievalPlan
  BY <1>1 DEF Asked, WholePlan, IsNumeric, NumericPlan, MissingPlan, Texts, RetrievalPlan
<1>3. FrameInv' /\ MemoryInv' /\ LogInv' /\ OneTextInv'
  BY <1>1, <1>2 DEF Turns, FacetsApart, FrameInv, MemoryInv, LogInv, OneTextInv
<1>4. Accounts'
  BY <1>1, <1>2 DEF Accounts
<1>5. PlanInv'
  BY <1>1, <1>2 DEF PlanInv, Turns
<1> QED BY <1>2, <1>3, <1>4, <1>5

(***************************************************************************)
(* The steps of all five specialists keep what they share                  *)
(***************************************************************************)

LEMMA RelationFacts ==
  /\ IsNumeric => relation \notin {Award, Death, Borders, Stock}
  /\ IsSmallSet <=> relation \in {Borders, Stock}
  /\ Award # Death /\ Award \notin {Borders, Stock} /\ Death \notin {Borders, Stock}
  /\ Borders # Stock
BY DEF IsNumeric, OfficialNumeric, IsSmallSet, Area, Capacity, Award, Death, Borders, Stock

LEMMA AsksKeeps ==
  ASSUME BaseInv, IsSequence(stated'), NEW text, NEW found, Asks(text, found)
  PROVE  BaseInv'
<1>1. Accounts'
  BY AsksKeepsAccounts, AccountsAreTheProperty DEF BaseInv
<1>2. EveryCallLeavesARecord'
  BY <1>1 DEF EveryCallLeavesARecord, Accounts, Failed, Asked
<1>3. FrameInv'
  BY AsksKeepsFrame DEF BaseInv
<1>4. LogInv' /\ MemoryInv' /\ OneTextInv' /\ PlanInv' /\ StepInv'
  BY AsksKeepsLog, AsksKeepsOneText, AsksKeepsPlan DEF BaseInv
<1> QED BY <1>2, <1>3, <1>4 DEF BaseInv

LEMMA MiningKeeps ==
  ASSUME BaseInv, Mines, StepInv'
  PROVE  BaseInv' /\ Asked' = {}
<1>1. FrameInv' /\ MemoryInv' /\ LogInv' /\ Accounts' /\ PlanInv' /\ OneTextInv' /\ Asked' = {}
  BY MinesKeeps, AccountsAreTheProperty DEF BaseInv
<1>2. EveryCallLeavesARecord'
  BY <1>1 DEF EveryCallLeavesARecord, Accounts, Failed, Asked
<1> QED BY <1>1, <1>2 DEF BaseInv

LEMMA TurningKeeps ==
  ASSUME BaseInv, Turns, StepInv', IsSequence(stated')
  PROVE  BaseInv' /\ Asked' = Asked
<1>1. FrameInv' /\ MemoryInv' /\ LogInv' /\ Accounts' /\ PlanInv' /\ OneTextInv' /\ Asked' = Asked
  BY TurnsKeeps, AccountsAreTheProperty DEF BaseInv
<1>2. EveryCallLeavesARecord'
  BY <1>1 DEF EveryCallLeavesARecord, Accounts, Failed, Asked
<1> QED BY <1>1, <1>2 DEF BaseInv

\* A stage that leaves nothing to ask.
LEMMA StageOver ==
  ASSUME step \notin {"memory", "specialist done"}, step' # "memory", todo' = <<>>,
         step' # "specialist done" => Asked \subseteq EarlierPlans' \cup StagePlan',
         UNCHANGED <<relation, memory, log, calls, errors>>
  PROVE  Turns
<1>1. FacetsApart(<<>>) /\ Seen(<<>>) = {}
  <2>1. IsSequence(<<>>) /\ Seen(<<>>) = {}
    BY EmptySequence
  <2>2. \A k \in DOMAIN <<>> : FALSE
    BY <2>1 DEF Seen
  <2> QED BY <2>1, <2>2 DEF FacetsApart
<1>2. FacetsApart(todo') /\ Seen(todo') = {}
  BY <1>1
<1> QED BY <1>2 DEF Turns

\* A call that returned or raised is an Asks.
CallReturns(text) ==
  \/ text \in TextsOf[relation] /\ calls' = calls + 1 /\ errors' = errors
  \/ text = Raised /\ calls' \in {calls + 0, calls + 1} /\ errors' = Append(errors, Head(todo).op)

LEMMA CallIsOfATextFacts ==
  ASSUME FrameInv, NEW text, CallReturns(text)
  PROVE  /\ relation \in Relations /\ text \in Texts
         /\ calls' \in {calls, calls + 1} /\ (text # Raised => calls' = calls + 1)
         /\ errors' = IF text = Raised THEN Append(errors, Head(todo).op) ELSE errors
<1>1. relation \in Relations /\ calls \in Nat
  BY DEF FrameInv
<1>2. \A t \in TextsOf[relation] : t # Raised
  BY <1>1, TextsAreReturned DEF Raised
<1> QED BY <1>1, <1>2 DEF CallReturns, Texts

LEMMA CallIsAnAsk ==
  ASSUME FrameInv, NEW text, NEW found, CallReturns(text), Reply(found, Head(todo), "PROBE", text),
         step # "memory", todo # <<>>, todo' = Tail(todo), log' = log \o found,
         UNCHANGED <<relation, memory, step, gate>>
  PROVE  Asks(text, found)
BY CallIsOfATextFacts DEF Asks

\* What a specialist reads off one record.
Readings(s, p, t) ==
  IsSequence(s) /\ \A o \in Seen(s) : IsObservation(o, p, "MEMORY", t) /\ o.status # "RUNTIME_ERROR"

LEMMA ReplyIsReadings ==
  ASSUME NEW s, NEW p, NEW t, Reply(s, p, "MEMORY", t), t # Raised
  PROVE  Readings(s, p, t) /\ Seen(s) # {}
<1>1. Seen(s) # {}
  BY HeadAndRest DEF Reply
<1> QED BY <1>1 DEF Reply, Readings, Seen

LEMMA MinedFacts ==
  ASSUME FrameInv, MemoryInv, NEW seqs, seqs = [i \in DOMAIN memory |-> seqs[i]],
         \A i \in DOMAIN memory :
           IF Minable(memory[i]) THEN Readings(seqs[i], memory[i].probe, memory[i].text)
           ELSE seqs[i] = <<>>
  PROVE  /\ IsSequence(FlattenSeq(seqs))
         /\ \A o \in Seen(FlattenSeq(seqs)) : MinedObservation(o)
         /\ \A o \in Seen(FlattenSeq(seqs)) : \E i \in DOMAIN memory :
              Minable(memory[i]) /\ o \in Seen(seqs[i])
         /\ \A i \in DOMAIN memory : Seen(seqs[i]) \subseteq Seen(FlattenSeq(seqs))
<1>1. /\ IsSequence(FlattenSeq(seqs))
      /\ \A o \in Seen(FlattenSeq(seqs)) : \E i \in DOMAIN memory :
           Minable(memory[i]) /\ o \in Seen(seqs[i])
      /\ \A i \in DOMAIN memory : Seen(seqs[i]) \subseteq Seen(FlattenSeq(seqs))
  <2>1. \A i \in DOMAIN memory :
          IF Minable(memory[i]) THEN IsSequence(seqs[i]) ELSE seqs[i] = <<>>
    BY DEF Readings
  <2>2. IsSequence(memory)
    BY DEF FrameInv
  <2> QED BY <2>1, <2>2, MinedFrom
<1>2. ASSUME NEW o \in Seen(FlattenSeq(seqs)) PROVE MinedObservation(o)
  <2>1. PICK i \in DOMAIN memory : Minable(memory[i]) /\ o \in Seen(seqs[i])
    BY <1>1
  <2>2. Readings(seqs[i], memory[i].probe, memory[i].text)
    BY <2>1
  <2> QED BY <2>1, <2>2 DEF Readings, MinedObservation
<1> QED BY <1>1, <1>2

LEMMA MinedTexts ==
  ASSUME FrameInv, MemoryInv, NEW i \in DOMAIN memory, Minable(memory[i])
  PROVE  relation \in Relations /\ memory[i].text \in Texts /\ memory[i].text # Raised
BY DEF FrameInv, MemoryInv

(***************************************************************************)
(* Module 12                                                               *)
(***************************************************************************)

LEMMA NumbersStay ==
  ASSUME relation' = relation
  PROVE  \A p, s, t : ExtractNumbers(p, s, t)' = ExtractNumbers(p, s, t)
BY DEF ExtractNumbers, Canonicalise

LEMMA NumericKeeps ==
  ASSUME IInv, NumericNext, UNCHANGED <<stated, shown, smallSetVars>>
  PROVE  IInv'
<1>1. IsNumeric /\ relation' = relation /\ step \notin {"missingness", "specialist done"}
      /\ fresh' = fresh /\ stated' = stated
  BY DEF NumericNext, MineNumbers, ProbeNumber, NumbersDone, Ask, IInv, BaseInv, StepInv, smallSetVars
<1>2. relation \notin {Award, Death, Borders, Stock}
  BY <1>1, RelationFacts
<1>3. DeathInv' /\ StockInv' /\ AwardInv' /\ HeldInv'
  BY <1>1, <1>2, RelationFacts DEF DeathInv, StockInv, AwardInv, HeldInv, IsSmallSet, IInv
<1>4. IsNumeric' /\ NumericPlan' = NumericPlan
  BY <1>1 DEF IsNumeric, NumericPlan
<1>5. IsSequence(stated')
  BY <1>1 DEF IInv, BaseInv, FrameInv
<1>6. CASE MineNumbers
  <2> DEFINE seqs == [i \in DOMAIN memory |->
                        IF Minable(memory[i])
                        THEN ExtractNumbers(memory[i].probe, "MEMORY", memory[i].text) ELSE <<>>]
  <2>1. log' = FlattenSeq(seqs) /\ step = "memory" /\ step' = "numbers" /\ todo' = NumericPlan
        /\ UNCHANGED <<memory, calls, errors, gate>>
    BY <1>6 DEF MineNumbers, Mined
  <2>2. \A i \in DOMAIN memory :
          IF Minable(memory[i])
          THEN seqs[i] = ExtractNumbers(memory[i].probe, "MEMORY", memory[i].text) ELSE seqs[i] = <<>>
    OBVIOUS
  <2>3. seqs = [i \in DOMAIN memory |-> seqs[i]]
    OBVIOUS
  <2> HIDE DEF seqs
  <2>4. \A i \in DOMAIN memory :
          IF Minable(memory[i]) THEN Readings(seqs[i], memory[i].probe, memory[i].text)
          ELSE seqs[i] = <<>>
    BY <2>2, MinedTexts, NumbersReply, ReplyIsReadings DEF IInv, BaseInv
  <2>5. /\ IsSequence(log') /\ \A o \in Seen(log') : MinedObservation(o)
        /\ \A o \in Seen(log') : \E i \in DOMAIN memory : Minable(memory[i]) /\ o \in Seen(seqs[i])
    BY <2>1, <2>3, <2>4, MinedFacts DEF IInv, BaseInv
  <2>6. FacetsApart(todo') /\ Seen(todo') \subseteq StagePlan'
    BY <1>1, <1>4, <2>1, NumericPlanFacts DEF StagePlan
  <2>7. StepInv'
    BY <1>4, <2>1 DEF StepInv
  <2>8. Mines
    BY <1>1, <1>5, <2>1, <2>5, <2>6 DEF Mines
  <2>9. BaseInv'
    BY <2>7, <2>8, MiningKeeps DEF IInv
  <2>10. NumberInv'
    <3>1. ASSUME NEW o \in Seen(log') PROVE o \in Seen(ExtractNumbers(o.probe, o.source, o.text))
      <4>1. PICK i \in DOMAIN memory : Minable(memory[i]) /\ o \in Seen(seqs[i])
        BY <2>5
      <4>2. IsObservation(o, memory[i].probe, "MEMORY", memory[i].text)
        BY <2>4, <4>1 DEF Readings
      <4> QED BY <2>2, <4>1, <4>2, ObservationFields
    <3> QED BY <1>1, <3>1, NumbersStay DEF NumberInv
  <2> QED BY <1>3, <2>9, <2>10 DEF IInv
<1>7. CASE ProbeNumber
  <2>1. PICK text : CallReturns(text) /\ log' = log \o ExtractNumbers(Head(todo), "PROBE", text)
    BY <1>7 DEF ProbeNumber, Ask, Call, CallReturns
  <2>2. step = "numbers" /\ todo # <<>> /\ todo' = Tail(todo) /\ UNCHANGED <<memory, step, gate>>
    BY <1>7 DEF ProbeNumber, Ask
  <2> DEFINE found == ExtractNumbers(Head(todo), "PROBE", text)
  <2>3. Reply(found, Head(todo), "PROBE", text)
    BY <2>1, CallIsOfATextFacts, NumbersReply DEF IInv, BaseInv
  <2>4. log' = log \o found
    BY <2>1
  <2> HIDE DEF found
  <2>5. Asks(text, found)
    BY <1>1, <2>1, <2>2, <2>3, <2>4, CallIsAnAsk DEF IInv, BaseInv
  <2>6. BaseInv'
    BY <1>5, <2>5, AsksKeeps DEF IInv
  <2>7. NumberInv'
    <3>1. ASSUME NEW o \in Seen(log') PROVE o \in Seen(ExtractNumbers(o.probe, o.source, o.text))
      <4>1. CASE o \in Seen(log)
        BY <1>1, <4>1 DEF IInv, NumberInv
      <4>2. CASE o \in Seen(found)
        <5>1. o.probe = Head(todo) /\ o.source = "PROBE" /\ o.text = text
          BY <2>5, <4>2, AskedFacts DEF IInv, BaseInv
        <5> QED BY <4>2, <5>1 DEF found
      <4> QED BY <2>5, <4>1, <4>2, AskedFacts DEF IInv, BaseInv
    <3> QED BY <1>1, <3>1, NumbersStay DEF NumberInv
  <2> QED BY <1>3, <2>6, <2>7 DEF IInv
<1>8. CASE NumbersDone
  <2>1. /\ step = "numbers" /\ step' = "specialist done" /\ todo = <<>>
        /\ UNCHANGED <<relation, todo, memory, log, calls, errors, gate>>
    BY <1>8 DEF NumbersDone
  <2>2. StepInv'
    BY <2>1 DEF StepInv
  <2>3. Turns
    BY <2>1, StageOver
  <2>4. BaseInv'
    BY <1>5, <2>2, <2>3, TurningKeeps DEF IInv
  <2>5. NumberInv'
    BY <1>1, <2>1, NumbersStay DEF IInv, NumberInv, IsNumeric
  <2> QED BY <1>3, <2>4, <2>5 DEF IInv
<1> QED BY <1>6, <1>7, <1>8 DEF NumericNext

(***************************************************************************)
(* Module 13                                                               *)
(***************************************************************************)

LEMMA AwardKeeps ==
  ASSUME IInv, LargeSetNext, UNCHANGED <<stated, smallSetVars>>
  PROVE  IInv'
<1>1. relation = Award /\ relation' = relation /\ step \notin {"missingness", "specialist done"}
      /\ fresh' = fresh /\ stated' = stated
  BY DEF LargeSetNext, MineRecipients, ProbeFacet, FacetsDone, Ask, IInv, BaseInv, StepInv, smallSetVars
<1>2. relation \notin {Death, Borders, Stock} /\ ~IsNumeric /\ ~IsSmallSet
  BY <1>1, RelationFacts
<1>3. DeathInv' /\ StockInv' /\ NumberInv' /\ HeldInv'
  <2>1. step' # "memory" /\ ~IsNumeric' /\ ~IsSmallSet'
    BY <1>1, <1>2 DEF IsNumeric, IsSmallSet, LargeSetNext, MineRecipients, ProbeFacet, FacetsDone, Ask
  <2> QED BY <1>1, <1>2, <2>1 DEF DeathInv, StockInv, NumberInv, HeldInv, IInv
<1>4. IsSequence(stated')
  BY <1>1 DEF IInv, BaseInv, FrameInv
<1>5. LargeSetPlan' = LargeSetPlan
  BY DEF LargeSetPlan
<1>6. CASE MineRecipients
  <2> DEFINE seqs == [i \in DOMAIN memory |->
                        IF Minable(memory[i])
                        THEN ExtractMentions(memory[i].probe, "MEMORY", memory[i].text) ELSE <<>>]
  <2>1. log' = FlattenSeq(seqs) /\ step = "memory" /\ step' = "facets" /\ todo' = LargeSetPlan
        /\ UNCHANGED <<memory, calls, errors, gate>>
    BY <1>6 DEF MineRecipients, Mined
  <2>2. \A i \in DOMAIN memory :
          IF Minable(memory[i])
          THEN seqs[i] = ExtractMentions(memory[i].probe, "MEMORY", memory[i].text) ELSE seqs[i] = <<>>
    OBVIOUS
  <2>3. seqs = [i \in DOMAIN memory |-> seqs[i]]
    OBVIOUS
  <2> HIDE DEF seqs
  <2>4. \A i \in DOMAIN memory :
          IF Minable(memory[i]) THEN Readings(seqs[i], memory[i].probe, memory[i].text)
          ELSE seqs[i] = <<>>
    BY <2>2, MinedTexts, MentionsReply, ReplyIsReadings DEF IInv, BaseInv
  <2>5. IsSequence(log') /\ \A o \in Seen(log') : MinedObservation(o)
    BY <2>1, <2>3, <2>4, MinedFacts DEF IInv, BaseInv
  <2>6. FacetsApart(todo') /\ Seen(todo') \subseteq StagePlan'
    BY <2>1, LargeSetPlanFacts DEF StagePlan
  <2>7. StepInv'
    BY <1>1, <2>1 DEF StepInv
  <2>8. Mines
    BY <1>1, <1>4, <2>1, <2>5, <2>6 DEF Mines
  <2>9. BaseInv' /\ Asked' = {}
    BY <2>7, <2>8, MiningKeeps DEF IInv
  <2>10. AwardInv'
    BY <2>1, <2>9, LargeSetPlanFacts DEF AwardInv
  <2> QED BY <1>3, <2>9, <2>10 DEF IInv
<1>7. CASE ProbeFacet
  <2>1. PICK text : CallReturns(text) /\ log' = log \o ExtractMentions(Head(todo), "PROBE", text)
    BY <1>7 DEF ProbeFacet, Ask, Call, CallReturns
  <2>2. /\ step = "facets" /\ todo # <<>> /\ todo' = Tail(todo) /\ UNCHANGED <<memory, step, gate>>
        /\ shown' = IF Head(todo).group = "missingness" THEN Recipients(Seen(log)) ELSE shown
    BY <1>7 DEF ProbeFacet, Ask
  <2> DEFINE found == ExtractMentions(Head(todo), "PROBE", text)
  <2>3. Reply(found, Head(todo), "PROBE", text)
    BY <2>1, CallIsOfATextFacts, MentionsReply DEF IInv, BaseInv
  <2>4. log' = log \o found
    BY <2>1
  <2> HIDE DEF found
  <2>5. Asks(text, found)
    BY <1>1, <2>1, <2>2, <2>3, <2>4, CallIsAnAsk DEF IInv, BaseInv
  <2>6. BaseInv'
    BY <1>4, <2>5, AsksKeeps DEF IInv
  <2>7. AwardInv'
    <3>1. MissingRecipients \notin Asked /\ todo[Len(todo)] = MissingRecipients
      BY <1>1, <2>2 DEF IInv, AwardInv
    <3>2. /\ Asked' = Asked \cup {Head(todo)} /\ Seen(log') = Seen(log) \cup Seen(found)
          /\ \A o \in Seen(found) : o.probe = Head(todo)
      BY <2>5, AskedFacts DEF IInv, BaseInv
    <3>3. /\ Len(todo) \in Nat /\ Len(todo) > 0 /\ DOMAIN todo = 1..Len(todo)
          /\ Head(todo) = todo[1] /\ IsSequence(todo') /\ DOMAIN todo' = 1..(Len(todo) - 1)
          /\ \A i \in 1..(Len(todo) - 1) : todo'[i] = todo[i + 1]
      BY <2>2, HeadAndRest DEF IInv, BaseInv, FrameInv
    <3>4. FacetsApart(todo)
      BY <2>2 DEF IInv, BaseInv, PlanInv
    <3>5. Len(todo') = Len(todo) - 1
      <4>1. todo \in Seq(Seen(todo))
        BY DEF IInv, BaseInv, FrameInv, IsSequence
      <4> QED BY <2>2, <4>1
    <3>6. CASE Len(todo) = 1
      <4>1. Head(todo) = MissingRecipients /\ MissingRecipients.group = "missingness"
        BY <3>1, <3>3, <3>6, ProbeFields DEF MissingRecipients
      <4>2. todo' = <<>>
        BY <3>3, <3>5, <3>6 DEF IsSequence
      <4>3. shown' = Recipients(Seen(log))
        BY <2>2, <4>1
      <4>4. \A o \in Seen(log') : o \in Seen(log) \/ o.probe.group = "missingness"
        BY <3>2, <4>1
      <4>5. Recipients(Seen(log')) \ shown' \subseteq
              Recipients({o \in Seen(log') : o.probe.group = "missingness"})
        BY <4>3, <4>4 DEF Recipients
      <4> QED BY <3>2, <4>1, <4>2, <4>5 DEF AwardInv
    <3>7. CASE Len(todo) # 1
      <4>1. /\ 1 \in DOMAIN todo /\ Len(todo) \in DOMAIN todo /\ 1 < Len(todo)
            /\ Len(todo) - 1 \in 1..(Len(todo) - 1) /\ (Len(todo) - 1) + 1 = Len(todo)
        BY <3>3, <3>7
      <4>2. Head(todo) # MissingRecipients
        BY <3>1, <3>3, <3>4, <4>1 DEF FacetsApart
      <4>3. MissingRecipients \notin Asked'
        BY <3>1, <3>2, <4>2
      <4>4. todo'[Len(todo')] = MissingRecipients
        BY <3>1, <3>3, <3>5, <4>1
      <4>5. todo' # <<>>
        BY <3>5, <4>1
      <4> QED BY <4>3, <4>4, <4>5 DEF AwardInv
    <3> QED BY <3>6, <3>7
  <2> QED BY <1>3, <2>6, <2>7 DEF IInv
<1>8. CASE FacetsDone
  <2>1. /\ step = "facets" /\ step' = "specialist done" /\ todo = <<>>
        /\ UNCHANGED <<relation, todo, memory, log, calls, errors, gate, shown>>
    BY <1>8 DEF FacetsDone
  <2>2. StepInv'
    BY <2>1 DEF StepInv
  <2>3. Turns
    BY <2>1, StageOver
  <2>4. BaseInv' /\ Asked' = Asked
    BY <1>4, <2>2, <2>3, TurningKeeps DEF IInv
  <2>5. AwardInv'
    BY <1>1, <2>1, <2>4 DEF IInv, AwardInv
  <2> QED BY <1>3, <2>4, <2>5 DEF IInv
<1> QED BY <1>6, <1>7, <1>8 DEF LargeSetNext

(***************************************************************************)
(* Module 14                                                               *)
(***************************************************************************)

LEMMA StatusFacts ==
  ASSUME NEW t
  PROVE  ParseDeathStatus(t)[1] = "LIVING" => t.word = "LIVING" \/ "living" \in t.cues
BY DEF ParseDeathStatus

LEMMA StatedFacts ==
  ASSUME NEW p, NEW t, NEW sentinel
  PROVE  /\ IsSequence(Stated(p, t, sentinel))
         /\ \A s \in Seen(Stated(p, t, sentinel)) : s[2] = p.group /\ AssertsAbsence(t, sentinel)
<1> DEFINE e == <<p.op, p.group>>
<1>1. e[2] = p.group
  OBVIOUS
<1>2. Stated(p, t, sentinel) = IF AssertsAbsence(t, sentinel) THEN <<e>> ELSE <<>>
  BY DEF Stated
<1> HIDE DEF e
<1>3. IsSequence(<<e>>) /\ Seen(<<e>>) = {e}
  BY OneSequence
<1> QED BY <1>1, <1>2, <1>3, EmptySequence

LEMMA ApartJoined ==
  ASSUME NEW s, NEW e, FacetsApart(s), \A p \in Seen(s) : p.facet # e.facet
  PROVE  FacetsApart(s \o <<e>>) /\ Seen(s \o <<e>>) = Seen(s) \cup {e}
<1> DEFINE t == <<e>>
           u == s \o t
<1>1. IsSequence(t) /\ Seen(t) = {e} /\ Len(t) = 1 /\ t[1] = e
  BY OneSequence
<1> HIDE DEF t
<1>2. /\ IsSequence(u) /\ Seen(u) = Seen(s) \cup Seen(t) /\ Len(s) \in Nat
      /\ DOMAIN u = 1..(Len(s) + Len(t)) /\ DOMAIN s = 1..Len(s)
      /\ \A i \in 1..Len(s) : u[i] = s[i]
      /\ \A i \in 1..Len(t) : u[Len(s) + i] = t[i]
  <2>1. IsSequence(s) /\ IsSequence(t)
    BY <1>1 DEF FacetsApart
  <2>2. /\ IsSequence(u) /\ Seen(u) = Seen(s) \cup Seen(t) /\ Len(s) \in Nat
        /\ DOMAIN u = 1..(Len(s) + Len(t)) /\ DOMAIN s = 1..Len(s)
    BY <2>1, JoinedSequence
  <2>3. \A i \in 1..Len(s) : u[i] = s[i]
    BY <2>1, JoinedSequence
  <2>4. \A i \in 1..Len(t) : u[Len(s) + i] = t[i]
    BY <2>1, JoinedSequence
  <2> QED BY <2>2, <2>3, <2>4
<1> HIDE DEF u
<1>3. u[Len(s) + 1] = e /\ DOMAIN u = 1..(Len(s) + 1)
  BY <1>1, <1>2
<1>4. ASSUME NEW k \in DOMAIN u, NEW l \in DOMAIN u, k < l PROVE u[k].facet # u[l].facet
  <2>1. k \in 1..Len(s) /\ k \in DOMAIN s /\ (l \in 1..Len(s) \/ l = Len(s) + 1)
    BY <1>2, <1>3, <1>4
  <2>2. CASE l \in 1..Len(s)
    BY <1>2, <1>4, <2>1, <2>2 DEF FacetsApart
  <2>3. CASE l = Len(s) + 1
    <3>1. u[k] \in Seen(s)
      BY <1>2, <2>1 DEF Seen
    <3> QED BY <1>3, <2>3, <3>1
  <2> QED BY <2>1, <2>2, <2>3
<1> QED BY <1>1, <1>2, <1>4 DEF FacetsApart, t, u

LEMMA GateReadsDead ==
  ASSUME ReadDeathGate = "DECEASED_PLAUSIBLE"
  PROVE  ReadsDead
<1> DEFINE deceased == StatusGroups("DECEASED")
           living == StatusGroups("LIVING")
<1>1. ReadDeathGate = IF deceased # {} /\ living # {} THEN "UNRESOLVED"
                      ELSE IF Cardinality(deceased) >= MinGroups THEN "DECEASED_PLAUSIBLE"
                      ELSE IF Cardinality(living) >= MinGroups THEN "NULL_PLAUSIBLE"
                      ELSE "UNRESOLVED"
  BY DEF ReadDeathGate
<1> HIDE DEF deceased, living
<1>2. Cardinality(deceased) >= MinGroups /\ (deceased = {} \/ living = {})
  BY <1>1
<1>3. deceased # {}
  <2> SUFFICES ASSUME deceased = {} PROVE FALSE
    OBVIOUS
  <2>1. Cardinality(deceased) = 0
    BY FS_EmptySet
  <2> QED BY <1>2, <2>1, GateNeedsASource
<1> QED BY <1>2, <1>3 DEF ReadsDead, deceased, living

LEMMA DeathKeeps ==
  ASSUME IInv, NullTemporalNext, UNCHANGED <<shown, smallSetVars>>
  PROVE  IInv'
<1>1. relation = Death /\ relation' = relation /\ step \notin {"missingness", "specialist done"}
      /\ fresh' = fresh
  BY DEF NullTemporalNext, MineDeath, ProbeStatus, OpenGate, ProbeLocality, LocalitiesDone, Ask,
         IInv, BaseInv, StepInv, smallSetVars
<1>2. relation \notin {Award, Borders, Stock} /\ ~IsNumeric /\ ~IsSmallSet
  BY <1>1, RelationFacts
<1>3. AwardInv' /\ StockInv' /\ NumberInv' /\ HeldInv'
  <2>1. ~IsNumeric' /\ ~IsSmallSet'
    BY <1>1, <1>2 DEF IsNumeric, IsSmallSet
  <2> QED BY <1>1, <1>2, <2>1 DEF AwardInv, StockInv, NumberInv, HeldInv, IInv
<1>4. FrameInv /\ IsSequence(stated) /\ MemoryInv /\ PlanInv /\ DeathInv
  BY DEF IInv, BaseInv, FrameInv
<1>5. step # "memory" => Asked \subseteq EarlierPlans \cup StagePlan
  BY <1>1, <1>4 DEF PlanInv
<1>6. CASE MineDeath
  <2> DEFINE status(p, t) == IF ParseDeathStatus(t)[2] = "OK"
                             THEN <<Observe(p, "MEMORY", "OK", ParseDeathStatus(t)[1], "", t)>>
                             ELSE <<>>
             a == [i \in DOMAIN memory |->
                     IF Minable(memory[i]) THEN status(memory[i].probe, memory[i].text) ELSE <<>>]
             b == [i \in DOMAIN memory |->
                     IF Minable(memory[i])
                     THEN LocalityRecords(memory[i].probe, "MEMORY", memory[i].text) ELSE <<>>]
             c == [i \in DOMAIN memory |->
                     IF Minable(memory[i])
                     THEN Stated(memory[i].probe, memory[i].text, SentinelDefined(memory[i].probe))
                     ELSE <<>>]
             A == FlattenSeq(a)
             B == FlattenSeq(b)
             C == FlattenSeq(c)
  <2>1. /\ log' = A \o B /\ stated' = C
        /\ step = "memory" /\ step' = "stageA" /\ todo' = StageA
        /\ UNCHANGED <<memory, calls, errors, gate>>
    BY <1>6 DEF MineDeath, Mined
  <2>2. \A i \in DOMAIN memory :
          IF Minable(memory[i])
          THEN /\ a[i] = status(memory[i].probe, memory[i].text)
               /\ b[i] = LocalityRecords(memory[i].probe, "MEMORY", memory[i].text)
               /\ c[i] = Stated(memory[i].probe, memory[i].text, SentinelDefined(memory[i].probe))
          ELSE a[i] = <<>> /\ b[i] = <<>> /\ c[i] = <<>>
    OBVIOUS
  <2>3. /\ a = [i \in DOMAIN memory |-> a[i]] /\ b = [i \in DOMAIN memory |-> b[i]]
        /\ c = [i \in DOMAIN memory |-> c[i]]
    OBVIOUS
  <2>4. ASSUME NEW p, NEW t
        PROVE  /\ Readings(status(p, t), p, t)
               /\ \A o \in Seen(status(p, t)) :
                    o.kind = "LIVING" => o.text.word = "LIVING" \/ "living" \in o.text.cues
    <3> DEFINE e == Observe(p, "MEMORY", "OK", ParseDeathStatus(t)[1], "", t)
    <3>1. e.kind = ParseDeathStatus(t)[1] /\ e.text = t /\ e.status = "OK"
          /\ IsObservation(e, p, "MEMORY", t)
      BY DEF Observe, IsObservation
    <3>2. status(p, t) = <<e>> \/ status(p, t) = <<>>
      OBVIOUS
    <3> HIDE DEF e, status
    <3>3. IsSequence(<<e>>) /\ Seen(<<e>>) = {e}
      BY OneSequence
    <3> QED BY <3>1, <3>2, <3>3, EmptySequence, StatusFacts DEF Readings
  <2> HIDE DEF a, b, c, status
  <2>5. \A i \in DOMAIN memory :
          /\ IF Minable(memory[i]) THEN Readings(a[i], memory[i].probe, memory[i].text)
             ELSE a[i] = <<>>
          /\ \A o \in Seen(a[i]) :
               o.kind = "LIVING" => o.text.word = "LIVING" \/ "living" \in o.text.cues
    BY <2>2, <2>4, EmptySequence
  <2>6. \A i \in DOMAIN memory :
          /\ IF Minable(memory[i])
             THEN Readings(b[i], memory[i].probe, memory[i].text) /\ Seen(b[i]) # {}
             ELSE b[i] = <<>>
          /\ \A o \in Seen(b[i]) : o.kind # "LIVING"
    <3> TAKE i \in DOMAIN memory
    <3>1. CASE Minable(memory[i])
      <4>1. relation \in Relations /\ memory[i].text \in Texts /\ memory[i].text # Raised
        BY <1>4, <3>1, MinedTexts
      <4>2. /\ Reply(b[i], memory[i].probe, "MEMORY", memory[i].text)
            /\ \A o \in Seen(b[i]) : o.kind \notin {"LIVING", "DECEASED"}
        BY <1>1, <2>2, <3>1, <4>1, LocalitiesReply
      <4> QED BY <3>1, <4>1, <4>2, ReplyIsReadings
    <3>2. CASE ~Minable(memory[i])
      BY <2>2, <3>2, EmptySequence
    <3> QED BY <3>1, <3>2
  <2>7. \A i \in DOMAIN memory : IF Minable(memory[i]) THEN IsSequence(c[i]) ELSE c[i] = <<>>
    BY <2>2, StatedFacts
  <2>8. /\ IsSequence(A) /\ \A o \in Seen(A) : MinedObservation(o)
        /\ \A o \in Seen(A) : \E i \in DOMAIN memory : Minable(memory[i]) /\ o \in Seen(a[i])
    BY <1>4, <2>3, <2>5, MinedFacts
  <2>9. /\ IsSequence(B) /\ \A o \in Seen(B) : MinedObservation(o)
        /\ \A o \in Seen(B) : \E i \in DOMAIN memory : Minable(memory[i]) /\ o \in Seen(b[i])
        /\ \A i \in DOMAIN memory : Seen(b[i]) \subseteq Seen(B)
    BY <1>4, <2>3, <2>6, MinedFacts
  <2>10. IsSequence(C) /\ \A s \in Seen(C) : \E i \in DOMAIN memory :
           Minable(memory[i]) /\ s \in Seen(c[i])
    <3>1. IsSequence(memory)
      BY <1>4 DEF FrameInv
    <3> QED BY <1>4, <2>3, <2>7, <3>1, MinedFrom
  <2> HIDE DEF A, B, C
  <2>11. IsSequence(log') /\ Seen(log') = Seen(A) \cup Seen(B) /\ IsSequence(stated')
    BY <2>1, <2>8, <2>9, <2>10, JoinedSequence
  <2>12. FacetsApart(todo') /\ Seen(todo') \subseteq StagePlan'
    BY <2>1, DeathPlanFacts DEF StagePlan
  <2>13. StepInv'
    BY <1>1, <2>1 DEF StepInv
  <2>14. Mines
    BY <1>1, <2>1, <2>8, <2>9, <2>11, <2>12 DEF Mines
  <2>15. BaseInv' /\ Asked' = {}
    BY <2>13, <2>14, MiningKeeps DEF IInv
  <2>16. \A o \in Seen(log') : o.kind = "LIVING" => o.text.word = "LIVING" \/ "living" \in o.text.cues
    BY <2>5, <2>6, <2>8, <2>9, <2>11
  <2>17. ASSUME NEW s \in Seen(stated')
         PROVE  \E o \in Seen(log') : o.probe.group = s[2] /\ SaysNoPlace(o)
    <3>1. PICK i \in DOMAIN memory : Minable(memory[i]) /\ s \in Seen(c[i])
      BY <2>1, <2>10
    <3>2. /\ s[2] = memory[i].probe.group
          /\ AssertsAbsence(memory[i].text, SentinelDefined(memory[i].probe))
      BY <2>2, <3>1, StatedFacts
    <3>3. PICK o \in Seen(b[i]) : IsObservation(o, memory[i].probe, "MEMORY", memory[i].text)
      BY <2>6, <3>1 DEF Readings
    <3>4. o \in Seen(log') /\ o.probe = memory[i].probe /\ o.text = memory[i].text
      BY <2>9, <2>11, <3>3, ObservationFields
    <3> QED BY <3>2, <3>4 DEF SaysNoPlace, AssertsAbsence
  <2>18. DeathInv'
    BY <2>1, <2>15, <2>16, <2>17 DEF DeathInv, SaysNoPlace, SentinelDefined
  <2> QED BY <1>3, <2>15, <2>18 DEF IInv
<1>7. CASE ProbeStatus
  <2>1. PICK text : CallReturns(text) /\ log' = log \o StatusObservation(Head(todo), text)
    BY <1>7 DEF ProbeStatus, Ask, Call, CallReturns
  <2>2. /\ step = "stageA" /\ todo # <<>> /\ todo' = Tail(todo)
        /\ UNCHANGED <<memory, step, gate, stated>>
    BY <1>7 DEF ProbeStatus, Ask
  <2> DEFINE found == StatusObservation(Head(todo), text)
             e == Observe(Head(todo), "PROBE", ParseDeathStatus(text)[2], ParseDeathStatus(text)[1], "", text)
  <2>3. Reply(found, Head(todo), "PROBE", text)
    BY <1>4, <2>1, CallIsOfATextFacts, StatusReply
  <2>4. log' = log \o found /\ found = <<e>>
    BY <2>1 DEF StatusObservation
  <2>5. e.kind = "LIVING" => e.text.word = "LIVING" \/ "living" \in e.text.cues
    <3>1. e.kind = ParseDeathStatus(text)[1] /\ e.text = text
      BY DEF Observe
    <3> HIDE DEF e
    <3> QED BY <3>1, StatusFacts
  <2> HIDE DEF found, e
  <2>6. Asks(text, found)
    BY <1>1, <1>4, <2>1, <2>2, <2>3, <2>4, CallIsAnAsk
  <2>7. BaseInv'
    BY <1>4, <2>2, <2>6, AsksKeeps DEF IInv
  <2>8. Seen(log') = Seen(log) \cup {e}
    BY <1>4, <2>4, <2>6, AskedFacts, OneSequence
  <2>9. Asked' \subseteq Seen(StageA)
    <3>1. step' = "stageA"
      BY <2>2
    <3>2. EarlierPlans' = {} /\ StagePlan' = Seen(StageA)
      BY <3>1 DEF EarlierPlans, StagePlan, StageA, PlanOf, Planned
    <3> QED BY <2>7, <3>1, <3>2 DEF BaseInv, PlanInv
  <2>10. Asked' \cap Seen(StageB)' = {}
    BY <2>9, DeathPlanFacts
  <2>11. DeathInv'
    BY <1>1, <1>4, <2>2, <2>5, <2>8, <2>10 DEF DeathInv, SaysNoPlace, SentinelDefined
  <2> QED BY <1>3, <2>7, <2>11 DEF IInv
<1>8. CASE OpenGate
  <2>1. /\ step = "stageA" /\ todo = <<>> /\ gate' = ReadDeathGate
        /\ UNCHANGED <<relation, memory, log, calls, errors, stated>>
    BY <1>8 DEF OpenGate
  <2>2. Asked \subseteq Seen(StageA)
    BY <1>5, <2>1 DEF EarlierPlans, StagePlan
  <2>3. CASE gate' = "DECEASED_PLAUSIBLE"
    <3> DEFINE plan == StageB \o IF CrossFamilyOn THEN <<CrossProbe>> ELSE <<>>
    <3>1. step' = "stageB" /\ todo' = plan
      BY <1>8, <2>3 DEF OpenGate
    <3>2. /\ FacetsApart(plan)
          /\ Seen(plan) = Seen(StageB) \cup IF CrossFamilyOn THEN {CrossProbe} ELSE {}
      <4>1. CASE CrossFamilyOn
        BY <4>1, DeathPlanFacts, ApartJoined
      <4>2. CASE ~CrossFamilyOn
        <5>1. StageB \in Seq(Seen(StageB))
          BY DeathPlanFacts DEF FacetsApart, IsSequence
        <5>2. plan = StageB
          BY <4>2, <5>1
        <5> HIDE DEF plan
        <5> QED BY <4>2, <5>2, DeathPlanFacts
      <4> QED BY <4>1, <4>2
    <3> HIDE DEF plan
    <3>3. Seen(todo') = StagePlan' /\ EarlierPlans' = Seen(StageA)
      BY <3>1, <3>2 DEF StagePlan, EarlierPlans, StageA, StageB, PlanOf, Planned
    <3>4. Seen(todo') \cap Asked = {}
      BY <2>2, <3>1, <3>2, DeathPlanFacts
    <3>5. Turns
      BY <2>1, <2>2, <3>1, <3>2, <3>3, <3>4 DEF Turns
    <3>6. StepInv'
      BY <1>1, <2>1, <3>1 DEF StepInv
    <3>7. BaseInv'
      BY <1>4, <2>1, <3>5, <3>6, TurningKeeps DEF IInv
    <3>8. ReadsDead'
      <4>1. ReadsDead
        BY <2>1, <2>3, GateReadsDead
      <4> QED BY <2>1, <4>1 DEF ReadsDead, StatusGroups
    <3>9. DeathInv'
      BY <1>1, <1>4, <2>1, <3>8 DEF DeathInv, SaysNoPlace, SentinelDefined
    <3> QED BY <1>3, <3>7, <3>9 DEF IInv
  <2>4. CASE gate' # "DECEASED_PLAUSIBLE"
    <3>1. step' = "specialist done" /\ todo' = <<>>
      BY <1>8, <2>4 DEF OpenGate
    <3>2. Turns
      BY <2>1, <3>1, StageOver
    <3>3. StepInv'
      BY <3>1 DEF StepInv
    <3>4. BaseInv' /\ Asked' = Asked
      BY <1>4, <2>1, <3>2, <3>3, TurningKeeps DEF IInv
    <3>5. Asked' \cap Seen(StageB)' = {}
      BY <2>2, <3>4, DeathPlanFacts
    <3>6. DeathInv'
      BY <1>1, <1>4, <2>1, <3>1, <3>5 DEF DeathInv, SaysNoPlace, SentinelDefined
    <3> QED BY <1>3, <3>4, <3>6 DEF IInv
  <2> QED BY <2>3, <2>4
<1>9. CASE ProbeLocality
  <2>1. PICK text : /\ CallReturns(text)
                    /\ log' = log \o LocalityRecords(Head(todo), "PROBE", text)
                    /\ stated' = stated \o Stated(Head(todo), text, FALSE)
    BY <1>9 DEF ProbeLocality, Call, CallReturns
  <2>2. /\ step = "stageB" /\ todo # <<>> /\ todo' = Tail(todo)
        /\ UNCHANGED <<memory, step, gate>>
    BY <1>9 DEF ProbeLocality
  <2> DEFINE found == LocalityRecords(Head(todo), "PROBE", text)
             claim == Stated(Head(todo), text, FALSE)
  <2>3. /\ Reply(found, Head(todo), "PROBE", text)
        /\ \A o \in Seen(found) : o.kind \notin {"LIVING", "DECEASED"}
    BY <1>1, <1>4, <2>1, CallIsOfATextFacts, LocalitiesReply
  <2>4. log' = log \o found /\ stated' = stated \o claim
    BY <2>1
  <2>5. /\ IsSequence(claim)
        /\ \A s \in Seen(claim) : s[2] = Head(todo).group /\ AssertsAbsence(text, FALSE)
    BY StatedFacts
  <2> HIDE DEF found, claim
  <2>6. Asks(text, found)
    BY <1>1, <1>4, <2>1, <2>2, <2>3, <2>4, CallIsAnAsk
  <2>7. IsSequence(stated') /\ Seen(stated') = Seen(stated) \cup Seen(claim)
    BY <1>4, <2>4, <2>5, JoinedSequence
  <2>8. BaseInv'
    BY <2>6, <2>7, AsksKeeps DEF IInv
  <2>9. /\ Seen(log') = Seen(log) \cup Seen(found) /\ Seen(found) # {}
        /\ \A o \in Seen(found) : o.probe = Head(todo) /\ o.text = text
    BY <1>4, <2>6, AskedFacts
  <2>10. ReadsDead'
    <3>1. ReadsDead
      BY <1>1, <1>4, <2>2 DEF DeathInv
    <3>2. StatusGroups("LIVING")' = StatusGroups("LIVING")
          /\ StatusGroups("DECEASED")' = StatusGroups("DECEASED")
      BY <2>3, <2>9 DEF StatusGroups
    <3> QED BY <3>1, <3>2 DEF ReadsDead
  <2>11. ASSUME NEW s \in Seen(stated')
         PROVE  \E o \in Seen(log') : o.probe.group = s[2] /\ SaysNoPlace(o)
    <3>1. CASE s \in Seen(stated)
      BY <1>1, <1>4, <2>9, <3>1 DEF DeathInv
    <3>2. CASE s \in Seen(claim)
      BY <2>5, <2>9, <3>2 DEF SaysNoPlace, AssertsAbsence
    <3> QED BY <2>7, <3>1, <3>2
  <2>12. DeathInv'
    BY <1>1, <1>4, <2>3, <2>9, <2>10, <2>11 DEF DeathInv, SaysNoPlace, SentinelDefined
  <2> QED BY <1>3, <2>8, <2>12 DEF IInv
<1>10. CASE LocalitiesDone
  <2>1. /\ step = "stageB" /\ step' = "specialist done" /\ todo = <<>>
        /\ UNCHANGED <<relation, todo, memory, log, calls, errors, gate, stated>>
    BY <1>10 DEF LocalitiesDone
  <2>2. StepInv'
    BY <2>1 DEF StepInv
  <2>3. Turns
    BY <2>1, StageOver
  <2>4. BaseInv'
    BY <1>4, <2>1, <2>2, <2>3, TurningKeeps DEF IInv
  <2>5. ReadsDead'
    BY <1>1, <1>4, <2>1 DEF DeathInv, ReadsDead, StatusGroups
  <2>6. DeathInv'
    BY <1>1, <1>4, <2>1, <2>5 DEF DeathInv, SaysNoPlace, SentinelDefined
  <2> QED BY <1>3, <2>4, <2>6 DEF IInv
<1> QED BY <1>6, <1>7, <1>8, <1>9, <1>10 DEF NullTemporalNext

(***************************************************************************)
(* Module 15                                                               *)
(***************************************************************************)

StockKinds == {"TARGET_EXCHANGE"} \cup ToSet(StockNearMisses)

LEMMA StockKindFacts == "LISTED" \notin StockKinds /\ "NOT_LISTED" \notin StockKinds
BY DEF StockKinds, StockNearMisses, ToSet

LEMMA CandidateKinds ==
  ASSUME relation = Stock, relation \in Relations, NEW t \in Texts, NEW p, NEW s
  PROVE  \A o \in Seen(ExtractCandidates(p, s, t)) :
           o.status = "OK" => o.kind \in StockKinds /\ o.kind \notin {"LISTED", "NOT_LISTED"}
<1>1. \A o \in Seen(ExtractCandidates(p, s, t)) :
        o.status = "OK" => t # Raised /\ \E n \in ToSet(t.names) : o.kind = n.kind
  BY CandidatesReply
<1>2. t # Raised => t \in TextsOf[Stock]
  BY DEF Texts
<1>3. Stock \in Relations \cap {Borders, Stock}
  OBVIOUS
<1>4. t # Raised => \A n \in ToSet(t.names) : n.kind \in StockKinds
  BY <1>2, <1>3, MentionsAreClassified DEF StockKinds
<1> QED BY <1>1, <1>4, StockKindFacts

LEMMA PlansStay ==
  ASSUME relation' = relation
  PROVE  MissingPlan' = MissingPlan /\ TargetKind' = TargetKind /\ IsSmallSet' = IsSmallSet
BY DEF MissingPlan, TargetKind, IsSmallSet

\* No probe of Module 15 belongs to two stages.
LEMMA StagesApart ==
  /\ \A p \in Seen(GatePlan) :
       p \notin Seen(StockPlan) /\ p \notin Seen(MissingPlan) /\ p \notin Seen(CrossPlan)
  /\ \A p \in Seen(StockPlan) : p \notin Seen(MissingPlan) /\ p \notin Seen(CrossPlan)
  /\ \A p \in Seen(BorderPlan) : p \notin Seen(MissingPlan)
  /\ \A p \in Seen(CrossPlan) : p \notin Seen(MissingPlan)
<1>1. \A p \in Seen(CrossPlan) : ~NotCrossing(p)
  BY StockPlanFacts, ProbeFields DEF NotCrossing
<1>2. GateFacets \cap StockFacets = {} /\ GateFacets \cap MissingFacets = {}
      /\ StockFacets \cap MissingFacets = {} /\ BorderFacets \cap MissingFacets = {}
  BY DEF GateFacets, StockFacets, MissingFacets, BorderFacets
<1> QED BY <1>1, <1>2, StockPlanFacts, BorderPlanFacts

LEMMA GateReadsListed ==
  ASSUME ReadListingGate = "LISTED_PLAUSIBLE"
  PROVE  ReadsListed
<1> DEFINE listed == ListingGroups("LISTED")
           notListed == ListingGroups("NOT_LISTED")
<1>1. ReadListingGate = IF listed # {} /\ notListed # {} THEN "UNRESOLVED"
                        ELSE IF Cardinality(listed) >= MinListingGroups THEN "LISTED_PLAUSIBLE"
                        ELSE IF Cardinality(notListed) >= MinListingGroups THEN "NOT_LISTED_PLAUSIBLE"
                        ELSE "UNRESOLVED"
  BY DEF ReadListingGate
<1> HIDE DEF listed, notListed
<1>2. Cardinality(listed) >= MinListingGroups /\ (listed = {} \/ notListed = {})
  BY <1>1
<1>3. listed # {}
  <2> SUFFICES ASSUME listed = {} PROVE FALSE
    OBVIOUS
  <2>1. Cardinality(listed) = 0
    BY FS_EmptySet
  <2> QED BY <1>2, <2>1, ListingNeedsASource
<1> QED BY <1>2, <1>3 DEF ReadsListed, listed, notListed

\* The cross-family recall fires only on doubt or on a listing.
LEMMA TriggerNeedsAGate ==
  ASSUME Fires(EvaluateTrigger)
  PROVE  gate \in {"UNRESOLVED", "LISTED_PLAUSIBLE"}
<1>1. gate = "NONE" => EvaluateTrigger = "NOT_EVALUATED"
  BY DEF EvaluateTrigger
<1>2. gate \notin {"NONE", "UNRESOLVED", "LISTED_PLAUSIBLE"} => EvaluateTrigger = "LOCALLY_CLEAR"
  BY DEF EvaluateTrigger
<1> QED BY <1>1, <1>2 DEF Fires

\* A probe for names, in any of the three stages that ask for some.
LEMMA CandidatesAsked ==
  ASSUME IInv, NEW text, CallReturns(text),
         log' = log \o ExtractCandidates(Head(todo), "PROBE", text),
         step \in {"acquisition", "cross", "missingness"}, todo # <<>>, todo' = Tail(todo),
         UNCHANGED <<relation, step, memory, gate, stated>>
  PROVE  /\ BaseInv' /\ StockInv'
         /\ Seen(log') = Seen(log) \cup Seen(ExtractCandidates(Head(todo), "PROBE", text))
<1> DEFINE found == ExtractCandidates(Head(todo), "PROBE", text)
<1>1. FrameInv /\ IsSequence(stated') /\ PlanInv /\ StepInv /\ StockInv
  BY DEF IInv, BaseInv, FrameInv
<1>2. relation \in Relations /\ text \in Texts
  BY <1>1, CallIsOfATextFacts
<1>3. Reply(found, Head(todo), "PROBE", text)
  BY <1>2, CandidatesReply
<1>4. relation = Stock => \A o \in Seen(found) :
        o.status = "OK" => o.kind \in StockKinds /\ o.kind \notin {"LISTED", "NOT_LISTED"}
  BY <1>2, CandidateKinds
<1>5. log' = log \o found
  OBVIOUS
<1> HIDE DEF found
<1>6. Asks(text, found)
  BY <1>1, <1>3, <1>5, CallIsAnAsk
<1>7. BaseInv'
  BY <1>1, <1>6, AsksKeeps DEF IInv
<1>8. /\ Seen(log') = Seen(log) \cup Seen(found) /\ Asked' = Asked \cup {Head(todo)}
      /\ Head(todo) \in Seen(todo)
  BY <1>1, <1>6, AskedFacts
<1>9. ASSUME relation = Stock PROVE StockInv'
  <2>1. MissingPlan' = MissingPlan
    BY PlansStay
  <2>2. /\ step \in {"memory", "listing"} => gate = "NONE"
        /\ gate = "LISTED_PLAUSIBLE" => ReadsListed
        /\ step \in {"acquisition", "missingness"} => gate = "LISTED_PLAUSIBLE"
        /\ Asked \cap (Seen(StockPlan) \cup Seen(MissingPlan)) # {} => gate = "LISTED_PLAUSIBLE"
        /\ step = "cross" => gate \in {"UNRESOLVED", "LISTED_PLAUSIBLE"}
        /\ \A o \in Seen(log) : o.status = "OK" /\ o.name # "" => o.kind \in StockKinds
    BY <1>1, <1>9 DEF StockInv, StockKinds
  <2>3. ListingGroups("LISTED")' = ListingGroups("LISTED")
        /\ ListingGroups("NOT_LISTED")' = ListingGroups("NOT_LISTED")
    BY <1>4, <1>8, <1>9 DEF ListingGroups
  <2>4. gate = "LISTED_PLAUSIBLE" => ReadsListed'
    BY <2>2, <2>3 DEF ReadsListed
  <2>5. step = "cross" => Head(todo) \notin Seen(StockPlan) \cup Seen(MissingPlan)
    <3>1. step = "cross" => Head(todo) \in Seen(CrossPlan)
      BY <1>1, <1>8, <1>9 DEF PlanInv, StagePlan
    <3> QED BY <3>1, StagesApart
  <2>6. Asked' \cap (Seen(StockPlan) \cup Seen(MissingPlan)) # {} => gate = "LISTED_PLAUSIBLE"
    BY <1>8, <2>2, <2>5
  <2>7. \A o \in Seen(log') : o.status = "OK" /\ o.name # "" => o.kind \in StockKinds
    BY <1>4, <1>8, <1>9, <2>2
  <2> QED BY <2>1, <2>2, <2>4, <2>6, <2>7 DEF StockInv, StockKinds
<1>10. relation # Stock => StockInv'
  BY DEF StockInv
<1> QED BY <1>7, <1>8, <1>9, <1>10 DEF found

LEMMA SmallSetKeeps ==
  ASSUME IInv, SmallSetNext, UNCHANGED <<stated, shown>>
  PROVE  IInv'
<1>1. IsSmallSet /\ relation \in {Borders, Stock} /\ relation' = relation /\ step # "specialist done"
      /\ stated' = stated
  <2>1. IsSmallSet /\ relation' = relation /\ step # "specialist done"
    BY DEF SmallSetNext, MineSmallSet, ProbeListing, OpenListingGate, ProbeCandidates,
           DecideCrossFamily, ProbeCrossFamily, StartMissingness, ProbeMissingness, CloseSmallSet,
           Ask, IInv, BaseInv, StepInv, IsSmallSet
  <2> QED BY <2>1, RelationFacts
<1>2. relation \notin {Award, Death} /\ ~IsNumeric
  BY <1>1, RelationFacts
<1>3. DeathInv' /\ AwardInv' /\ NumberInv'
  BY <1>1, <1>2 DEF DeathInv, AwardInv, NumberInv, IsNumeric
<1>4. FrameInv /\ IsSequence(stated') /\ MemoryInv /\ PlanInv /\ StockInv /\ HeldInv
  BY <1>1 DEF IInv, BaseInv, FrameInv
<1>5. step # "memory" => Asked \subseteq EarlierPlans \cup StagePlan
  BY <1>1, <1>4 DEF PlanInv
<1>6. MissingPlan' = MissingPlan /\ TargetKind' = TargetKind /\ IsSmallSet' = IsSmallSet
  BY <1>1, PlansStay
<1>7. log' = log => /\ Held' = Held /\ (ReadsListed' <=> ReadsListed)
  BY <1>6 DEF Held, UsableCandidate, ReadsListed, ListingGroups
<1>8. relation # Stock => StockInv'
  BY <1>1 DEF StockInv
<1>9. relation = Stock =>
        /\ step \in {"memory", "listing"} => gate = "NONE"
        /\ gate = "LISTED_PLAUSIBLE" => ReadsListed
        /\ step \in {"acquisition", "missingness"} /\ todo # <<>> => gate = "LISTED_PLAUSIBLE"
        /\ Asked \cap (Seen(StockPlan) \cup Seen(MissingPlan)) # {} => gate = "LISTED_PLAUSIBLE"
        /\ step = "cross" /\ todo # <<>> => gate \in {"UNRESOLVED", "LISTED_PLAUSIBLE"}
        /\ Asked \cap Seen(CrossPlan) # {} => gate \in {"UNRESOLVED", "LISTED_PLAUSIBLE"}
        /\ \A o \in Seen(log) : o.status = "OK" /\ o.name # "" => o.kind \in StockKinds
  BY <1>4 DEF StockInv, StockKinds
<1>10. CASE MineSmallSet
  <2> DEFINE seqs == [i \in DOMAIN memory |->
                        IF Minable(memory[i])
                        THEN ExtractCandidates(memory[i].probe, "MEMORY", memory[i].text) ELSE <<>>]
  <2>1. /\ log' = FlattenSeq(seqs) /\ step = "memory"
        /\ IF relation = Stock THEN step' = "listing" /\ todo' = GatePlan
           ELSE step' = "acquisition" /\ todo' = BorderPlan
        /\ UNCHANGED <<memory, calls, errors, gate, smallSetVars>>
    BY <1>10 DEF MineSmallSet, Mined
  <2>2. \A i \in DOMAIN memory :
          IF Minable(memory[i])
          THEN seqs[i] = ExtractCandidates(memory[i].probe, "MEMORY", memory[i].text) ELSE seqs[i] = <<>>
    OBVIOUS
  <2>3. seqs = [i \in DOMAIN memory |-> seqs[i]]
    OBVIOUS
  <2> HIDE DEF seqs
  <2>4. \A i \in DOMAIN memory :
          IF Minable(memory[i]) THEN Readings(seqs[i], memory[i].probe, memory[i].text)
          ELSE seqs[i] = <<>>
    BY <1>4, <2>2, MinedTexts, CandidatesReply, ReplyIsReadings
  <2>5. /\ IsSequence(log') /\ \A o \in Seen(log') : MinedObservation(o)
        /\ \A o \in Seen(log') : \E i \in DOMAIN memory : Minable(memory[i]) /\ o \in Seen(seqs[i])
    BY <1>4, <2>1, <2>3, <2>4, MinedFacts
  <2>6. FacetsApart(todo') /\ Seen(todo') \subseteq StagePlan'
    <3>1. CASE relation = Stock
      BY <1>1, <2>1, <3>1, StockPlanFacts DEF StagePlan
    <3>2. CASE relation # Stock
      BY <1>1, <2>1, <3>2, BorderPlanFacts DEF StagePlan
    <3> QED BY <3>1, <3>2
  <2>7. StepInv'
    BY <1>1, <1>6, <2>1 DEF StepInv
  <2>8. Mines
    BY <1>1, <1>4, <2>1, <2>5, <2>6 DEF Mines
  <2>9. BaseInv' /\ Asked' = {}
    BY <2>7, <2>8, MiningKeeps DEF IInv
  <2>10. ASSUME relation = Stock PROVE StockInv'
    <3>1. ASSUME NEW o \in Seen(log'), o.status = "OK" PROVE o.kind \in StockKinds
      <4>1. PICK i \in DOMAIN memory : Minable(memory[i]) /\ o \in Seen(seqs[i])
        BY <2>5
      <4>2. relation \in Relations /\ memory[i].text \in Texts
        BY <1>4, <4>1, MinedTexts
      <4> QED BY <2>2, <2>10, <3>1, <4>1, <4>2, CandidateKinds
    <3>2. gate' = "NONE" /\ step' = "listing"
      BY <1>9, <2>1, <2>10
    <3> QED BY <2>9, <3>1, <3>2 DEF StockInv, StockKinds
  <2>11. HeldInv'
    BY <1>4, <2>1 DEF HeldInv, smallSetVars
  <2> QED BY <1>3, <1>8, <2>9, <2>10, <2>11 DEF IInv
<1>11. CASE ProbeListing
  <2>1. PICK text : CallReturns(text) /\ log' = log \o ListingObservation(Head(todo), text)
    BY <1>11 DEF ProbeListing, Ask, Call, CallReturns
  <2>2. /\ step = "listing" /\ todo # <<>> /\ todo' = Tail(todo)
        /\ UNCHANGED <<memory, step, gate, smallSetVars>>
    BY <1>11 DEF ProbeListing, Ask
  <2> DEFINE found == ListingObservation(Head(todo), text)
             e == Observe(Head(todo), "PROBE", ParseListingStatus(text)[2],
                          ParseListingStatus(text)[1], "", text)
  <2>3. Reply(found, Head(todo), "PROBE", text)
    BY <1>4, <2>1, CallIsOfATextFacts, ListingReply
  <2>4. log' = log \o found /\ found = <<e>>
    BY <2>1 DEF ListingObservation
  <2>5. e.name = ""
    BY DEF Observe
  <2> HIDE DEF found, e
  <2>6. Asks(text, found)
    BY <1>1, <1>4, <2>1, <2>2, <2>3, <2>4, CallIsAnAsk
  <2>7. BaseInv'
    BY <1>4, <2>6, AsksKeeps DEF IInv
  <2>8. Seen(log') = Seen(log) \cup {e}
    BY <1>4, <2>4, <2>6, AskedFacts, OneSequence
  <2>9. relation = Stock
    BY <2>2 DEF IInv, BaseInv, StepInv
  <2>10. Asked' \subseteq Seen(GatePlan)
    <3>1. step' = "listing"
      BY <2>2
    <3>2. EarlierPlans' = {} /\ StagePlan' = Seen(GatePlan)
      BY <3>1 DEF EarlierPlans, StagePlan
    <3> QED BY <2>7, <3>1, <3>2 DEF BaseInv, PlanInv
  <2>11. /\ Asked' \cap (Seen(StockPlan) \cup Seen(MissingPlan)) = {}
         /\ Asked' \cap Seen(CrossPlan) = {}
    BY <2>10, StagesApart
  <2>12. \A o \in Seen(log') : o.status = "OK" /\ o.name # "" => o.kind \in StockKinds
    BY <1>9, <2>5, <2>8, <2>9
  <2>13. gate' = "NONE" /\ step' = "listing"
    BY <1>9, <2>2, <2>9
  <2>14. StockInv'
    BY <1>6, <2>11, <2>12, <2>13 DEF StockInv, StockKinds
  <2>15. HeldInv'
    BY <1>4, <2>2 DEF HeldInv, smallSetVars
  <2> QED BY <1>3, <2>7, <2>14, <2>15 DEF IInv
<1>12. CASE OpenListingGate
  <2>1. /\ step = "listing" /\ todo = <<>> /\ gate' = ReadListingGate /\ step' = "acquisition"
        /\ todo' = IF gate' = "LISTED_PLAUSIBLE" THEN StockPlan ELSE <<>>
        /\ UNCHANGED <<relation, memory, log, calls, errors, smallSetVars>>
    BY <1>12 DEF OpenListingGate
  <2>2. relation = Stock
    BY <2>1 DEF IInv, BaseInv, StepInv
  <2>3. Asked \subseteq Seen(GatePlan)
    BY <1>5, <2>1, <2>2 DEF EarlierPlans, StagePlan
  <2>4. EarlierPlans' = Seen(GatePlan) /\ StagePlan' = Seen(StockPlan)
    BY <2>1, <2>2 DEF EarlierPlans, StagePlan
  <2>5. Turns
    <3>1. CASE gate' = "LISTED_PLAUSIBLE"
      <4>1. Seen(StockPlan) \cap Asked = {}
        BY <2>3, StagesApart
      <4>2. todo' = StockPlan /\ FacetsApart(StockPlan)
        BY <2>1, <3>1, StockPlanFacts
      <4> QED BY <2>1, <2>3, <2>4, <4>1, <4>2 DEF Turns
    <3>2. CASE gate' # "LISTED_PLAUSIBLE"
      BY <2>1, <2>3, <2>4, <3>2, StageOver
    <3> QED BY <3>1, <3>2
  <2>6. StepInv'
    BY <1>1, <1>6, <2>1 DEF StepInv
  <2>7. BaseInv' /\ Asked' = Asked
    BY <1>4, <2>5, <2>6, TurningKeeps DEF IInv
  <2>8. /\ Asked' \cap (Seen(StockPlan) \cup Seen(MissingPlan)) = {}
        /\ Asked' \cap Seen(CrossPlan) = {}
    BY <2>3, <2>7, StagesApart
  <2>9. gate' = "LISTED_PLAUSIBLE" => ReadsListed'
    BY <1>7, <2>1, GateReadsListed
  <2>10. StockInv'
    BY <1>6, <1>9, <2>1, <2>2, <2>8, <2>9 DEF StockInv, StockKinds
  <2>11. HeldInv'
    BY <1>4, <2>1 DEF HeldInv, smallSetVars
  <2> QED BY <1>3, <2>7, <2>10, <2>11 DEF IInv
<1>13. CASE ProbeCandidates
  <2>1. PICK text : CallReturns(text) /\ log' = log \o ExtractCandidates(Head(todo), "PROBE", text)
    BY <1>13 DEF ProbeCandidates, Ask, Call, CallReturns
  <2>2. /\ step = "acquisition" /\ todo # <<>> /\ todo' = Tail(todo)
        /\ UNCHANGED <<memory, step, gate, smallSetVars>>
    BY <1>13 DEF ProbeCandidates, Ask
  <2>3. BaseInv' /\ StockInv'
    BY <1>1, <2>1, <2>2, CandidatesAsked
  <2>4. HeldInv'
    BY <1>4, <2>2 DEF HeldInv, smallSetVars
  <2> QED BY <1>3, <2>3, <2>4 DEF IInv
<1>14. CASE DecideCrossFamily
  <2>1. /\ step = "acquisition" /\ todo = <<>> /\ step' = "cross"
        /\ trigger' = IF relation = Stock /\ StockCrossFamily THEN EvaluateTrigger ELSE "NOT_ELIGIBLE"
        /\ todo' = IF Fires(trigger') THEN CrossPlan ELSE <<>>
        /\ UNCHANGED <<relation, memory, log, calls, errors, gate, before, fresh, probed, barrenProbe>>
    BY <1>14 DEF DecideCrossFamily
  <2>2. Fires(trigger') => relation = Stock /\ gate \in {"UNRESOLVED", "LISTED_PLAUSIBLE"}
    <3>1. trigger' # "NOT_ELIGIBLE" => relation = Stock /\ trigger' = EvaluateTrigger
      BY <2>1
    <3>2. ~Fires("NOT_ELIGIBLE")
      BY DEF Fires
    <3> QED BY <3>1, <3>2, TriggerNeedsAGate
  <2>3. Asked \subseteq EarlierPlans'
    BY <1>1, <1>5, <2>1 DEF EarlierPlans, StagePlan
  <2>4. Turns
    <3>1. CASE Fires(trigger')
      <4>1. relation = Stock /\ todo' = CrossPlan /\ FacetsApart(CrossPlan)
        BY <2>1, <2>2, <3>1, StockPlanFacts
      <4>2. StagePlan' = Seen(CrossPlan) /\ EarlierPlans' = Seen(GatePlan) \cup Seen(StockPlan)
        BY <2>1, <4>1 DEF StagePlan, EarlierPlans
      <4>3. Seen(CrossPlan) \cap Asked = {}
        BY <2>3, <4>2, StagesApart
      <4> QED BY <2>1, <2>3, <4>1, <4>2, <4>3 DEF Turns
    <3>2. CASE ~Fires(trigger')
      BY <2>1, <2>3, <3>2, StageOver
    <3> QED BY <3>1, <3>2
  <2>5. StepInv'
    BY <1>1, <1>6, <2>1 DEF StepInv
  <2>6. BaseInv' /\ Asked' = Asked
    BY <1>4, <2>4, <2>5, TurningKeeps DEF IInv
  <2>7. ASSUME relation = Stock PROVE StockInv'
    <3>1. todo' # <<>> => gate \in {"UNRESOLVED", "LISTED_PLAUSIBLE"}
      BY <2>1, <2>2
    <3>2. gate' = gate /\ step' = "cross" /\ log' = log
      BY <2>1
    <3> QED BY <1>6, <1>7, <1>9, <2>6, <2>7, <3>1, <3>2 DEF StockInv, StockKinds
  <2>8. HeldInv'
    BY <1>4, <2>1 DEF HeldInv
  <2> QED BY <1>3, <1>8, <2>6, <2>7, <2>8 DEF IInv
<1>15. CASE ProbeCrossFamily
  <2>1. PICK text : CallReturns(text) /\ log' = log \o ExtractCandidates(Head(todo), "PROBE", text)
    BY <1>15 DEF ProbeCrossFamily, Ask, Call, CallReturns
  <2>2. /\ step = "cross" /\ todo # <<>> /\ todo' = Tail(todo)
        /\ UNCHANGED <<memory, step, gate, smallSetVars>>
    BY <1>15 DEF ProbeCrossFamily, Ask
  <2>3. BaseInv' /\ StockInv'
    BY <1>1, <2>1, <2>2, CandidatesAsked
  <2>4. HeldInv'
    BY <1>4, <2>2 DEF HeldInv, smallSetVars
  <2> QED BY <1>3, <2>3, <2>4 DEF IInv
<1>16. CASE StartMissingness
  <2>1. /\ step = "cross" /\ todo = <<>> /\ before' = Held /\ step' = "missingness"
        /\ todo' = IF PermitsAcquisition THEN MissingPlan ELSE <<>>
        /\ UNCHANGED <<relation, memory, log, calls, errors, gate, trigger, fresh, probed, barrenProbe>>
    BY <1>16 DEF StartMissingness
  <2>2. Asked \subseteq EarlierPlans'
    BY <1>1, <1>5, <2>1 DEF EarlierPlans, StagePlan
  <2>3. Turns
    <3>1. CASE PermitsAcquisition
      <4>1. todo' = MissingPlan /\ FacetsApart(MissingPlan)
        BY <2>1, <3>1, BorderPlanFacts
      <4>2. StagePlan' = Seen(MissingPlan)
        BY <1>6, <2>1 DEF StagePlan
      <4>3. \A p \in EarlierPlans' : p \notin Seen(MissingPlan)
        BY <2>1, StagesApart DEF EarlierPlans
      <4> QED BY <2>1, <2>2, <4>1, <4>2, <4>3 DEF Turns
    <3>2. CASE ~PermitsAcquisition
      BY <2>1, <2>2, <3>2, StageOver
    <3> QED BY <3>1, <3>2
  <2>4. StepInv'
    BY <1>1, <1>6, <2>1 DEF StepInv
  <2>5. BaseInv' /\ Asked' = Asked
    BY <1>4, <2>3, <2>4, TurningKeeps DEF IInv
  <2>6. ASSUME relation = Stock PROVE StockInv'
    <3>1. todo' # <<>> => gate = "LISTED_PLAUSIBLE"
      BY <2>1, <2>6, RelationFacts DEF PermitsAcquisition
    <3>2. gate' = gate /\ step' = "missingness" /\ log' = log
      BY <2>1
    <3> QED BY <1>6, <1>7, <1>9, <2>5, <2>6, <3>1, <3>2 DEF StockInv, StockKinds
  <2>7. HeldInv'
    <3>1. fresh' = {} /\ before' = Held'
      BY <1>4, <1>7, <2>1 DEF HeldInv
    <3> QED BY <2>1, <3>1 DEF HeldInv
  <2> QED BY <1>3, <1>8, <2>5, <2>6, <2>7 DEF IInv
<1>17. CASE ProbeMissingness
  <2> DEFINE found(text) == ExtractCandidates(Head(todo), "PROBE", text)
             names(text) == {o.name : o \in {x \in Seen(found(text)) : UsableCandidate(x)}}
  <2>1. PICK text : CallReturns(text) /\ log' = log \o found(text) /\ fresh' = fresh \cup names(text)
    BY <1>17 DEF ProbeMissingness, Call, CallReturns
  <2>2. /\ step = "missingness" /\ todo # <<>> /\ todo' = Tail(todo) /\ before' = before
        /\ UNCHANGED <<memory, step, gate>>
    BY <1>17 DEF ProbeMissingness
  <2>3. BaseInv' /\ StockInv' /\ Seen(log') = Seen(log) \cup Seen(found(text))
    BY <1>1, <2>1, <2>2, CandidatesAsked
  <2>4. Held' = Held \cup names(text)
    <3>1. Held' = {o.name : o \in {x \in Seen(log) \cup Seen(found(text)) : UsableCandidate(x)}}
      BY <1>6, <2>3 DEF Held, UsableCandidate
    <3> HIDE DEF found
    <3> QED BY <3>1 DEF Held
  <2>5. HeldInv'
    <3>1. Held = before \cup fresh
      BY <1>1, <1>4, <2>2 DEF HeldInv
    <3> HIDE DEF names
    <3> QED BY <2>1, <2>2, <2>4, <3>1 DEF HeldInv
  <2> QED BY <1>3, <2>3, <2>5 DEF IInv
<1>18. CASE CloseSmallSet
  <2>1. /\ step = "missingness" /\ todo = <<>> /\ step' = "specialist done"
        /\ UNCHANGED <<relation, todo, memory, log, calls, errors, gate, smallSetVars>>
    BY <1>18 DEF CloseSmallSet
  <2>2. StepInv'
    BY <2>1 DEF StepInv
  <2>3. Turns
    BY <2>1, StageOver
  <2>4. BaseInv' /\ Asked' = Asked
    BY <1>4, <2>2, <2>3, TurningKeeps DEF IInv
  <2>5. ASSUME relation = Stock PROVE StockInv'
    <3>1. gate' = gate /\ step' = "specialist done" /\ log' = log
      BY <2>1
    <3> QED BY <1>6, <1>7, <1>9, <2>4, <2>5, <3>1 DEF StockInv, StockKinds
  <2>6. HeldInv'
    <3>1. Held' = Held /\ before' = before /\ fresh' = fresh /\ Held = before \cup fresh
      BY <1>1, <1>4, <1>7, <2>1 DEF HeldInv, smallSetVars
    <3> QED BY <2>1, <3>1 DEF HeldInv
  <2> QED BY <1>3, <1>8, <2>4, <2>5, <2>6 DEF IInv
<1> QED BY <1>10, <1>11, <1>12, <1>13, <1>14, <1>15, <1>16, <1>17, <1>18 DEF SmallSetNext

(***************************************************************************)
(* The invariant holds                                                     *)
(***************************************************************************)

LEMMA InitHolds == AcquisitionInit => IInv
<1> SUFFICES ASSUME AcquisitionInit PROVE IInv
  OBVIOUS
<1>1. /\ relation \in Relations /\ step = "memory" /\ todo = RetrievalPlan /\ memory = <<>>
      /\ log = <<>> /\ errors = <<>> /\ calls = 0 /\ gate = "NONE" /\ stated = <<>> /\ fresh = {}
  BY DEF AcquisitionInit, RecallInit, SmallSetInit
<1>2. IsSequence(<<>>) /\ Seen(<<>>) = {} /\ Asked = {} /\ Failed(<<>>) = {} /\ Len(<<>>) = 0
  BY <1>1, EmptySequence, EmptyLog
<1>3. \A i \in DOMAIN <<>> : FALSE
  BY <1>2 DEF Seen
<1>4. IsSequence(RetrievalPlan)
  <2> DEFINE N == Len(RecallOps)
  <2>1. N \in Nat /\ DOMAIN RecallOps = 1..N
    BY RecallIsOfModule11
  <2>2. RetrievalPlan \in [1..N -> Seen(RetrievalPlan)]
    BY <2>1 DEF RetrievalPlan, Seen
  <2> HIDE DEF N
  <2> QED BY <2>1, <2>2 DEF IsSequence
<1>5. FrameInv
  BY <1>1, <1>2, <1>4 DEF FrameInv, IsSequence
<1>6. StepInv /\ MemoryInv /\ LogInv /\ PlanInv /\ OneTextInv
  BY <1>1, <1>2, <1>3 DEF StepInv, MemoryInv, LogInv, PlanInv, OneTextInv
<1>7. EveryCallLeavesARecord
  <2>1. Accounts
    BY <1>1, <1>2, FS_EmptySet DEF Accounts
  <2> QED BY <2>1, AccountsAreTheProperty
<1>8. DeathInv /\ StockInv /\ HeldInv /\ AwardInv /\ NumberInv
  BY <1>1, <1>2 DEF DeathInv, StockInv, HeldInv, AwardInv, NumberInv
<1> QED BY <1>5, <1>6, <1>7, <1>8 DEF IInv, BaseInv

LEMMA RetrievalKeeps ==
  ASSUME IInv, Retrieve, UNCHANGED <<stated, shown, smallSetVars>>
  PROVE  IInv'
<1>1. Accounts
  BY AccountsAreTheProperty DEF IInv, BaseInv
<1>2. /\ FrameInv' /\ StepInv' /\ MemoryInv' /\ LogInv' /\ Accounts' /\ PlanInv' /\ OneTextInv'
  BY <1>1, RetrieveKeeps DEF IInv, BaseInv
<1>3. EveryCallLeavesARecord'
  BY <1>2 DEF EveryCallLeavesARecord, Accounts, Failed, Asked
<1>4. step' = "memory" /\ log' = <<>> /\ gate' = "NONE" /\ stated' = <<>> /\ fresh' = {}
  BY MemoryStep DEF Retrieve, IInv, BaseInv, HeldInv, smallSetVars
<1>5. Seen(log') = {} /\ Asked' = {} /\ Seen(stated') = {}
  BY <1>4, EmptySequence DEF Asked
<1>6. DeathInv' /\ StockInv' /\ HeldInv' /\ AwardInv' /\ NumberInv'
  BY <1>4, <1>5 DEF DeathInv, StockInv, HeldInv, AwardInv, NumberInv
<1> QED BY <1>2, <1>3, <1>6 DEF IInv, BaseInv

LEMMA StutterKeeps == ASSUME IInv, UNCHANGED acquisitionVars PROVE IInv'
<1>1. /\ relation' = relation /\ step' = step /\ todo' = todo /\ memory' = memory /\ log' = log
      /\ calls' = calls /\ errors' = errors /\ gate' = gate /\ stated' = stated /\ shown' = shown
      /\ before' = before /\ fresh' = fresh
  BY DEF acquisitionVars, recallVars, smallSetVars
<1>2. /\ Asked' = Asked /\ Texts' = Texts /\ MissingPlan' = MissingPlan /\ IsSmallSet' = IsSmallSet
      /\ IsNumeric' = IsNumeric /\ NumericPlan' = NumericPlan /\ TargetKind' = TargetKind
  BY <1>1 DEF Asked, Texts, MissingPlan, IsSmallSet, IsNumeric, NumericPlan, TargetKind
<1>3. StagePlan' = StagePlan /\ EarlierPlans' = EarlierPlans /\ WholePlan' = WholePlan
  BY <1>1, <1>2 DEF StagePlan, EarlierPlans, WholePlan
<1>4. FrameInv' /\ StepInv' /\ MemoryInv' /\ LogInv'
  BY <1>1, <1>2 DEF IInv, BaseInv, FrameInv, StepInv, MemoryInv, LogInv
<1>5. EveryCallLeavesARecord' /\ PlanInv' /\ OneTextInv'
  BY <1>1, <1>2, <1>3 DEF IInv, BaseInv, EveryCallLeavesARecord, PlanInv, OneTextInv
<1>6. DeathInv'
  BY <1>1, <1>2 DEF IInv, DeathInv, ReadsDead, StatusGroups, SaysNoPlace
<1>7. StockInv'
  BY <1>1, <1>2 DEF IInv, StockInv, ReadsListed, ListingGroups
<1>8. HeldInv'
  BY <1>1, <1>2 DEF IInv, HeldInv, Held, UsableCandidate
<1>9. AwardInv' /\ NumberInv'
  BY <1>1, <1>2, NumbersStay DEF IInv, AwardInv, NumberInv
<1> QED BY <1>4, <1>5, <1>6, <1>7, <1>8, <1>9 DEF IInv, BaseInv

LEMMA Invariance == AcquisitionSpec => []IInv
<1>1. AcquisitionInit => IInv
  BY InitHolds
<1>2. IInv /\ [AcquisitionNext]_acquisitionVars => IInv'
  <2> SUFFICES ASSUME IInv, [AcquisitionNext]_acquisitionVars PROVE IInv'
    OBVIOUS
  <2>1. CASE Retrieve /\ UNCHANGED <<stated, shown, smallSetVars>>
    BY <2>1, RetrievalKeeps
  <2>2. CASE NumericNext /\ UNCHANGED <<stated, shown, smallSetVars>>
    BY <2>2, NumericKeeps
  <2>3. CASE LargeSetNext /\ UNCHANGED <<stated, smallSetVars>>
    BY <2>3, AwardKeeps
  <2>4. CASE NullTemporalNext /\ UNCHANGED <<shown, smallSetVars>>
    BY <2>4, DeathKeeps
  <2>5. CASE SmallSetNext /\ UNCHANGED <<stated, shown>>
    BY <2>5, SmallSetKeeps
  <2>6. CASE UNCHANGED acquisitionVars
    BY <2>6, StutterKeeps
  <2> QED BY <2>1, <2>2, <2>3, <2>4, <2>5, <2>6 DEF AcquisitionNext
<1> QED BY <1>1, <1>2, PTL DEF AcquisitionSpec

(***************************************************************************)
(* What it says of the runs                                                *)
(***************************************************************************)

\* For every text a model may return and wherever its calls raise: each call
\* that raised has its record and its error, and the calls charged are those
\* of the records and the probes, less at most the raised ones that the
\* runtime had not counted (the except branch of every _execute).
THEOREM CallsAreAccountedFor == AcquisitionSpec => []EveryCallLeavesARecord
<1>1. IInv => EveryCallLeavesARecord
  BY DEF IInv, BaseInv
<1> QED BY <1>1, Invariance, PTL

LEMMA CrossingProbe ==
  ASSUME NEW p \in WholePlan, NEW q \in WholePlan, ~NotCrossing(p), ~NotCrossing(q)
  PROVE  p = q /\ (relation = Stock => p \in Seen(CrossPlan))
<1>1. CASE IsNumeric
  BY <1>1, NumericPlanFacts DEF WholePlan
<1>2. CASE relation = Award
  BY <1>2, RelationFacts, LargeSetPlanFacts DEF WholePlan, NotCrossing
<1>3. CASE relation = Death
  <2>1. \A x \in WholePlan : ~NotCrossing(x) => x = CrossProbe
    BY <1>3, RelationFacts, DeathPlanFacts DEF WholePlan
  <2> QED BY <1>3, <2>1, RelationFacts
<1>4. CASE relation = Stock
  <2>1. \A x \in WholePlan : ~NotCrossing(x) => x \in Seen(CrossPlan)
    BY <1>4, RelationFacts, StockPlanFacts, BorderPlanFacts DEF WholePlan
  <2> QED BY <2>1, StockPlanFacts
<1>5. CASE ~IsNumeric /\ relation \notin {Award, Death, Stock}
  BY <1>5, BorderPlanFacts DEF WholePlan
<1> QED BY <1>1, <1>2, <1>3, <1>4, <1>5

\* A memory of Module 11 is no cross-family recall.
LEMMA MemoriesDoNotCross == \A p \in Seen(RetrievalPlan) : NotCrossing(p)
<1> SUFFICES ASSUME NEW i \in DOMAIN RetrievalPlan PROVE NotCrossing(RetrievalPlan[i])
  BY DEF Seen
<1>1. DOMAIN RetrievalPlan = DOMAIN RecallOps
      /\ RetrievalPlan[i] = Probe(RecallOps[i], RecallOps[i], RecallOps[i])
  BY DEF RetrievalPlan
<1>2. RecallOps[i] \in {"PSEUDO_MEMORY", "SELF_ASK", "QUERY_REWRITE"}
  BY <1>1, RecallIsOfModule11
<1> QED BY <1>1, <1>2, ProbeFields DEF NotCrossing

LEMMA GatesEarned == ASSUME IInv PROVE GatesAreEarned
<1>1. PlaceNeedsADeath
  <2> SUFFICES ASSUME relation = Death, NEW o \in Seen(log), o.source = "PROBE", o.probe \in Seen(StageB)
               PROVE  ReadsDead
    BY DEF PlaceNeedsADeath, ReadsDead
  <2>1. o.probe \in Asked \cap Seen(StageB)
    BY DEF Asked, IsSpecialistProbe
  <2> QED BY <2>1 DEF IInv, DeathInv
<1>2. SilenceIsNotAbsence
  <2> SUFFICES ASSUME relation = Death, NEW g \in SubstantiveGroups
               PROVE  \E o \in Seen(log) :
                        /\ o.probe.group = g
                        /\ \/ o.text.word = "LIVING" \/ "living" \in o.text.cues
                           \/ "noKnownLocality" \in o.text.cues
                           \/ o.text.word = "NONE" /\ SentinelDefined(o.probe)
    BY DEF SilenceIsNotAbsence
  <2>1. g \in StatusGroups("LIVING") \/ \E s \in Seen(stated) : g = s[2]
    <3>1. NullEvidence.living = StatusGroups("LIVING") /\ NullEvidence.noKnown = {s[2] : s \in Seen(stated)}
      BY DEF NullEvidence
    <3> QED BY <3>1 DEF SubstantiveGroups
  <2>2. CASE g \in StatusGroups("LIVING")
    BY <2>2 DEF StatusGroups, IInv, DeathInv
  <2>3. CASE \E s \in Seen(stated) : g = s[2]
    BY <2>3 DEF IInv, DeathInv, SaysNoPlace
  <2> QED BY <2>1, <2>2, <2>3
<1>3. ExchangeNeedsAListing
  <2> SUFFICES ASSUME relation = Stock, NEW o \in Seen(log), o.source = "PROBE",
                      o.probe \in Seen(StockPlan) \cup Seen(MissingPlan)
               PROVE  ReadsListed
    BY DEF ExchangeNeedsAListing, ReadsListed
  <2>1. o.probe \in Asked \cap (Seen(StockPlan) \cup Seen(MissingPlan))
    BY DEF Asked, IsSpecialistProbe
  <2> QED BY <2>1 DEF IInv, StockInv
<1>4. OneFreshnessRecall
  <2>1. ASSUME NEW o \in Seen(log), o.probe.group = "cross_family_recall"
        PROVE  IsSpecialistProbe(o) /\ o.probe \in Asked /\ o.probe \in WholePlan /\ ~NotCrossing(o.probe)
    <3>1. ~NotCrossing(o.probe)
      BY <2>1 DEF NotCrossing
    <3>2. IsSpecialistProbe(o)
      BY <3>1, MemoriesDoNotCross DEF IInv, BaseInv, LogInv, IsSpecialistProbe
    <3>3. step # "memory"
      BY MemoryStep, EmptyLog DEF IInv, BaseInv
    <3> QED BY <3>1, <3>2, <3>3 DEF Asked, IInv, BaseInv, PlanInv
  <2>2. ASSUME relation = Stock, NEW o \in Seen(log), o.probe.group = "cross_family_recall"
        PROVE  gate = "UNRESOLVED" \/ gate = "LISTED_PLAUSIBLE"
    <3>1. o.probe \in Asked \cap Seen(CrossPlan)
      BY <2>1, <2>2, CrossingProbe
    <3> QED BY <2>2, <3>1 DEF IInv, StockInv
  <2>3. ASSUME NEW o \in Seen(log), o.probe.group = "cross_family_recall",
               NEW p \in Seen(log), p.probe.group = "cross_family_recall"
        PROVE  o.text = p.text
    <3>1. o.probe = p.probe /\ IsSpecialistProbe(o) /\ IsSpecialistProbe(p)
      BY <2>1, <2>3, CrossingProbe
    <3> QED BY <3>1 DEF IInv, BaseInv, OneTextInv
  <2> QED BY <2>2, <2>3 DEF OneFreshnessRecall
<1> QED BY <1>1, <1>2, <1>3, <1>4 DEF GatesAreEarned

\* For every text, every threshold of the two gates and every part of the
\* registries that is planned: a place is asked for only after enough sources
\* read the person as dead and none as living, an exchange only after enough
\* read the company as listed and none as not, absence is claimed only by a
\* source that said so, and a query recalls across families at most once
\* (read_gate and analyse of Modules 14 and 15).
THEOREM GatesOpenOnEvidence == AcquisitionSpec => []GatesAreEarned
BY Invariance, GatesEarned, PTL

(***************************************************************************)
(* What is new                                                             *)
(***************************************************************************)

LEMMA NewInOneFacet == ASSUME IInv PROVE NewnessPartitionsTheNames
<1> SUFFICES ASSUME relation = Award,
                    NEW n \in Recipients({o \in Seen(log) : IsSpecialistProbe(o)})
             PROVE  Cardinality({f \in {p.facet : p \in Seen(LargeSetPlan)} : n \in NewSurfaces(f)}) = 1
  BY DEF NewnessPartitionsTheNames
<1> DEFINE P == LargeSetPlan
           Gives(i) == n \in Recipients(FoundIn(P[i].facet))
           I == {i \in 1..Len(P) : Gives(i)}
<1>1. /\ IsSequence(P) /\ Len(P) \in Nat /\ DOMAIN P = 1..Len(P)
      /\ \A k, l \in DOMAIN P : P[k].facet = P[l].facet => k = l
  <2>1. FacetsApart(P)
    BY LargeSetPlanFacts
  <2>2. Len(P) \in Nat /\ DOMAIN P = 1..Len(P)
    BY <2>1 DEF FacetsApart, IsSequence
  <2> HIDE DEF P
  <2> QED BY <2>1, <2>2 DEF FacetsApart
<1>2. PICK o \in Seen(log) : IsSpecialistProbe(o) /\ UsableRecipient(o) /\ o.name = n
  BY DEF Recipients
<1>3. o.probe \in Seen(P)
  <2>1. o.probe \in Asked /\ step # "memory"
    BY <1>2, MemoryStep, EmptyLog DEF Asked, IInv, BaseInv
  <2>2. WholePlan = Seen(P)
    BY RelationFacts DEF WholePlan
  <2> QED BY <2>1, <2>2 DEF IInv, BaseInv, PlanInv
<1> HIDE DEF P
<1>4. PICK i \in 1..Len(P) : o.probe = P[i]
  BY <1>1, <1>3 DEF Seen
<1>5. o \in FoundIn(P[i].facet)
  BY <1>4 DEF FoundIn
<1>6. i \in I
  BY <1>2, <1>5 DEF Recipients
<1>7. PICK m \in I : \A k \in I : m <= k
  <2> HIDE DEF I
  <2>1. I \in SUBSET Nat
    BY <1>1 DEF I
  <2> QED BY <1>6, <2>1, LeastNumber
<1>8. ASSUME NEW k \in 1..Len(P) PROVE n \in NewSurfaces(P[k].facet) <=> k = m
  <2> DEFINE at == CHOOSE j \in DOMAIN P : P[j].facet = P[k].facet
  <2>1. at = k
    BY <1>1
  <2>2. NewSurfaces(P[k].facet) =
          Recipients(FoundIn(P[k].facet)) \ UNION {Recipients(FoundIn(P[j].facet)) : j \in 1..(k - 1)}
    <3>1. NewSurfaces(P[k].facet) =
            Recipients(FoundIn(P[k].facet)) \ UNION {Recipients(FoundIn(P[j].facet)) : j \in 1..(at - 1)}
      BY DEF NewSurfaces, P
    <3> HIDE DEF at
    <3> QED BY <2>1, <3>1
  <2>3. n \in NewSurfaces(P[k].facet) <=> k \in I /\ \A j \in 1..(k - 1) : ~Gives(j)
    BY <2>2
  <2>4. ASSUME k = m PROVE \A j \in 1..(k - 1) : ~Gives(j)
    BY <1>1, <1>7, <2>4
  <2>5. ASSUME k \in I, k # m PROVE \E j \in 1..(k - 1) : Gives(j)
    <3>1. m \in 1..(k - 1) /\ Gives(m)
      BY <1>1, <1>7, <2>5
    <3> QED BY <3>1
  <2> QED BY <1>7, <2>3, <2>4, <2>5
<1>9. {f \in {p.facet : p \in Seen(P)} : n \in NewSurfaces(f)} = {P[m].facet}
  <2>1. \A f \in {p.facet : p \in Seen(P)} : \E k \in 1..Len(P) : f = P[k].facet
    BY <1>1 DEF Seen
  <2>2. P[m].facet \in {p.facet : p \in Seen(P)}
    BY <1>1 DEF Seen
  <2>3. m \in 1..Len(P)
    OBVIOUS
  <2> QED BY <1>8, <2>1, <2>2, <2>3
<1> QED BY <1>9, FS_Singleton DEF P

LEMMA NewOnce == ASSUME IInv PROVE NothingIsNewTwice
<1> SUFFICES ASSUME NEW i \in NoveltyRate(Identities(Clusters)).novel, NEW j \in DOMAIN log,
                    Identities(Clusters)[j] = Identities(Clusters)[i]
             PROVE  log[j].probe = log[i].probe
  BY DEF NothingIsNewTwice
<1> DEFINE identity == Identities(Clusters)
           named == {k \in DOMAIN log : identity[k] # {}}
           first == [k \in named |-> CHOOSE l \in DOMAIN log :
                       log[l].probe = log[k].probe /\ \A b \in 1..(l - 1) : log[b].probe # log[k].probe]
           latest == {k \in named : \A l \in named : first[l] <= first[k]}
<1>1. Len(log) \in Nat /\ DOMAIN log = 1..Len(log)
  BY DEF IInv, BaseInv, FrameInv, IsSequence
<1>2. NoveltyRate(identity).novel = {k \in latest : \A l \in named \ latest : identity[l] # identity[k]}
  BY DEF NoveltyRate
<1> HIDE DEF identity
<1>3. ASSUME NEW k \in named PROVE first[k] \in DOMAIN log /\ log[first[k]].probe = log[k].probe
  <2> DEFINE T == {l \in DOMAIN log : log[l].probe = log[k].probe}
  <2>1. T \in SUBSET Nat /\ k \in T
    BY <1>1
  <2>2. PICK l \in T : \A b \in T : l <= b
    BY <2>1, LeastNumber
  <2>3. \A b \in 1..(l - 1) : log[b].probe # log[k].probe
    BY <1>1, <2>2
  <2> QED BY <2>2, <2>3
<1> HIDE DEF first
<1>4. i \in latest /\ i \in named /\ j \in named
  BY <1>2 DEF identity
<1>5. j \in latest
  BY <1>2, <1>4 DEF identity
<1>6. first[i] = first[j]
  BY <1>1, <1>3, <1>4, <1>5
<1> QED BY <1>3, <1>4, <1>6

LEMMA MissingnessIsShown == ASSUME IInv PROVE MissingnessSeesWhatIsHeld
<1> SUFFICES ASSUME relation = Award, step = "specialist done"
             PROVE  Recipients(Seen(log)) \ shown \subseteq
                      Recipients({o \in Seen(log) : o.probe.group = "missingness"})
  BY DEF MissingnessSeesWhatIsHeld
<1>1. todo = <<>>
  BY DEF IInv, BaseInv, StepInv
<1> QED BY <1>1 DEF IInv, AwardInv

LEMMA ClosureAgrees == ASSUME IInv PROVE ClosureAgreesWithLog
<1> SUFFICES ASSUME IsSmallSet, step = "specialist done"
             PROVE  /\ before \subseteq Held
                    /\ ClosureSignals.new = Held \ before
                    /\ (ClosureSignals.common = ClosureSignals.union) <=> (ClosureSignals.new = {})
  BY DEF ClosureAgreesWithLog
<1>1. Held = before \cup fresh
  BY DEF IInv, HeldInv
<1>2. IsFiniteSet(Held)
  <2>1. IsSequence(log)
    BY DEF IInv, BaseInv, FrameInv
  <2>2. IsFiniteSet(DOMAIN log)
    BY <2>1, SequenceDomain
  <2> DEFINE names == [i \in DOMAIN log |-> log[i].name]
             D == DOMAIN log
  <2>5. DOMAIN names = D /\ IsFiniteSet(D)
    BY <2>2
  <2>3. Held \subseteq {names[i] : i \in D}
    BY DEF Held, Seen
  <2> HIDE DEF names, D
  <2>4. IsFiniteSet({names[i] : i \in D})
    BY <2>5, FiniteImage
  <2> QED BY <2>3, <2>4, FS_Subset
<1>3. /\ ClosureSignals.new = fresh \ before
      /\ ClosureSignals.common = Cardinality(before \cap Held)
      /\ ClosureSignals.union = Cardinality(before \cup Held)
  BY DEF ClosureSignals
<1>4. before \cap Held = before /\ before \cup Held = Held /\ before \in SUBSET Held
  BY <1>1
<1>5. Cardinality(Held) = Cardinality(before) => Held = before
  BY <1>2, <1>4, FS_Subset
<1> QED BY <1>1, <1>3, <1>4, <1>5

\* For every text a model may return: a recipient is new in exactly one facet
\* of the plan, a name a later operation repeats is new to none, the last
\* prompt of the award plan shows every name held before it, and the closure
\* signals say what the missingness stage added (build_facet_states,
\* novelty_diagnostics, build_closure_signals).
THEOREM NewIsNewOnce == AcquisitionSpec => []NewnessIsTrue
<1>1. IInv => NewnessIsTrue
  BY NewInOneFacet, NewOnce, MissingnessIsShown, ClosureAgrees DEF NewnessIsTrue
<1> QED BY <1>1, Invariance, PTL

(***************************************************************************)
(* What is left open                                                       *)
(***************************************************************************)

LEMMA UsableIsOk ==
  ASSUME IInv, NEW o, UsableObservation(o)
  PROVE  o.status = "OK"
<1>1. relation \in AllRelations
  BY TextsAreReturned DEF IInv, BaseInv, FrameInv
<1>2. CASE IsNumeric
  <2>1. UsableObservation(o) = IsTarget(o)
    BY <1>2, RelationFacts DEF UsableObservation
  <2> QED BY <2>1 DEF IsTarget
<1>3. CASE relation = Award
  <2>1. UsableObservation(o) = UsableRecipient(o)
    BY <1>3, RelationFacts DEF UsableObservation
  <2> QED BY <2>1 DEF UsableRecipient
<1>4. CASE relation = Death
  <2>1. UsableObservation(o) = (o.status = "OK" /\ o.kind \in {"DECEASED", "LIVING", "TARGET_CITY"})
    BY <1>4, RelationFacts DEF UsableObservation
  <2> QED BY <2>1
<1>5. CASE IsSmallSet
  <2>1. UsableObservation(o) = (o.status = "OK" /\ o.kind \in {"LISTED", "NOT_LISTED", TargetKind})
    BY <1>5, RelationFacts DEF UsableObservation
  <2> QED BY <2>1
<1> QED BY <1>1, <1>2, <1>3, <1>4, <1>5 DEF AllRelations, IsSmallSet, IsNumeric, OfficialNumeric

LEMMA SilentIsOpen == ASSUME IInv PROVE SilenceLeavesAGap
<1> SUFFICES ASSUME NEW f \in ApplicableFacets \ MissingnessFacets,
                    \A i \in FacetExecutions(f) : log[i].status # "OK"
             PROVE  CoverageFor(f) \in {"UNEXPLORED", "WEAK"}
  BY DEF SilenceLeavesAGap
<1>1. ~ExhaustionEvidence(f)
  BY DEF ExhaustionEvidence
<1>2. \A i \in FacetExecutions(f) : ~UsableObservation(log[i])
  BY UsableIsOk
<1> QED BY <1>1, <1>2 DEF CoverageFor

LEMMA PlanIsDeclared ==
  ASSUME relation \in AllRelations
  PROVE  \A p \in WholePlan : p.facet \in PlannedFacets \/ (CrossFamilyOn /\ p = CrossProbe)
<1>1. CASE IsNumeric
  <2>1. PlannedFacets = {p.facet : p \in Seen(NumericPlan)} /\ WholePlan = Seen(NumericPlan)
    BY <1>1, RelationFacts DEF PlannedFacets, WholePlan
  <2> QED BY <2>1
<1>2. CASE relation = Award
  <2>1. PlannedFacets = {p.facet : p \in Seen(LargeSetPlan)} /\ WholePlan = Seen(LargeSetPlan)
    BY <1>2, RelationFacts DEF PlannedFacets, WholePlan
  <2> QED BY <2>1
<1>3. CASE relation = Death
  <2>1. PlannedFacets = {p.facet : p \in Seen(StageA \o StageB)}
    BY <1>3, RelationFacts DEF PlannedFacets
  <2>2. WholePlan = Seen(StageA) \cup Seen(StageB) \cup IF CrossFamilyOn THEN {CrossProbe} ELSE {}
    BY <1>3, RelationFacts DEF WholePlan
  <2>3. IsSequence(StageA) /\ IsSequence(StageB)
    BY DeathPlanFacts DEF FacetsApart
  <2>4. Seen(StageA \o StageB) = Seen(StageA) \cup Seen(StageB)
    BY <2>3, JoinedSequence
  <2> QED BY <2>1, <2>2, <2>4
<1>4. CASE relation = Borders
  <2>1. PlannedFacets = {p.facet : p \in Seen(BorderPlan \o MissingPlan)}
    BY <1>4, RelationFacts DEF PlannedFacets
  <2>2. WholePlan = Seen(BorderPlan) \cup Seen(MissingPlan)
    BY <1>4, RelationFacts DEF WholePlan
  <2>3. IsSequence(BorderPlan) /\ IsSequence(MissingPlan)
    BY BorderPlanFacts DEF FacetsApart
  <2>4. Seen(BorderPlan \o MissingPlan) = Seen(BorderPlan) \cup Seen(MissingPlan)
    BY <2>3, JoinedSequence
  <2> QED BY <2>1, <2>2, <2>4
<1>5. CASE relation = Stock
  <2> DEFINE a == GatePlan \o StockPlan
             b == a \o MissingPlan
             c == b \o CrossPlan
  <2>1. PlannedFacets = {p.facet : p \in Seen(c)}
    BY <1>5, RelationFacts DEF PlannedFacets
  <2>2. WholePlan = Seen(GatePlan) \cup Seen(StockPlan) \cup Seen(CrossPlan) \cup Seen(MissingPlan)
    BY <1>5, RelationFacts DEF WholePlan
  <2>3. IsSequence(GatePlan) /\ IsSequence(StockPlan) /\ IsSequence(CrossPlan) /\ IsSequence(MissingPlan)
    BY StockPlanFacts, BorderPlanFacts DEF FacetsApart
  <2>4. IsSequence(a) /\ Seen(a) = Seen(GatePlan) \cup Seen(StockPlan)
    BY <2>3, JoinedSequence
  <2> HIDE DEF a
  <2>5. IsSequence(b) /\ Seen(b) = Seen(a) \cup Seen(MissingPlan)
    BY <2>3, <2>4, JoinedSequence
  <2> HIDE DEF b
  <2>6. Seen(c) = Seen(b) \cup Seen(CrossPlan)
    BY <2>3, <2>5, JoinedSequence
  <2> HIDE DEF c
  <2> QED BY <2>1, <2>2, <2>4, <2>5, <2>6
<1> QED BY <1>1, <1>2, <1>3, <1>4, <1>5 DEF AllRelations, IsNumeric, OfficialNumeric

LEMMA RanIsDeclared == ASSUME IInv PROVE UndeclaredFacets \subseteq IF CrossFamilyOn THEN {CrossProbe.facet} ELSE {}
<1> SUFFICES ASSUME NEW o \in Seen(log), IsSpecialistProbe(o), o.probe.facet \notin DeclaredFacets
             PROVE  CrossFamilyOn /\ o.probe.facet = CrossProbe.facet
  BY DEF UndeclaredFacets
<1>1. o.probe \in WholePlan
  <2>1. o.probe \in Asked /\ step # "memory"
    BY MemoryStep, EmptyLog DEF Asked, IInv, BaseInv
  <2> QED BY <2>1 DEF IInv, BaseInv, PlanInv
<1>2. relation \in AllRelations
  BY TextsAreReturned DEF IInv, BaseInv, FrameInv
<1> QED BY <1>1, <1>2, PlanIsDeclared DEF DeclaredFacets

LEMMA RiskIsRouted == ASSUME IInv PROVE EveryRiskIsRouted
<1> SUFFICES ASSUME IsSmallSet, NEW n \in ClosureSignals.conflicting
             PROVE  \E c \in PendingChecks : c.name = n
  BY DEF EveryRiskIsRouted
<1> DEFINE ask(kind, reason) == [kind |-> kind, reason |-> reason, name |-> n]
<1>1. \A kind, reason : ask(kind, reason).name = n
  OBVIOUS
<1>2. CASE relation = Borders
  <2>1. ask("REVERSE_ADJACENCY", "CONFLICTING_SOURCES") \in PendingChecks
    BY <1>2 DEF PendingChecks
  <2> QED BY <1>1, <2>1
<1>3. CASE relation = Stock
  <2>1. n # "" /\ CandidateOccurrence(n).near # {}
    BY DEF ClosureSignals, NamesSeen
  <2>2. PICK o \in Seen(log) : NearCandidate(o) /\ o.name = n
    BY <2>1 DEF CandidateOccurrence, Occurrence
  <2>3. o.status = "OK" /\ o.kind # "TARGET_EXCHANGE"
    BY <1>3, <2>2 DEF NearCandidate, TargetKind
  <2>4. o.kind \in ToSet(StockNearMisses)
    BY <1>3, <2>1, <2>2, <2>3 DEF IInv, StockInv
  <2>5. o.kind \in {"PARENT_COMPANY_LISTING", "SUBSIDIARY_LISTING", "INDEX_OR_NON_EXCHANGE",
                    "HISTORICAL_OR_DELISTED", "PRIVATE_OR_NOT_LISTED"}
    BY <2>4 DEF ToSet, StockNearMisses
  <2>6. Borders # Stock
    BY RelationFacts
  <2>7. CASE o.kind \in {"PARENT_COMPANY_LISTING", "SUBSIDIARY_LISTING"}
    <3>1. ask("PARENT_SUBSIDIARY", "PARENT_SUBSIDIARY_RISK") \in PendingChecks
      BY <1>3, <2>1, <2>2, <2>3, <2>6, <2>7 DEF PendingChecks
    <3> QED BY <1>1, <3>1
  <2>8. CASE o.kind = "INDEX_OR_NON_EXCHANGE"
    <3>1. ask("INDEX_CONFUSION", "INDEX_RISK") \in PendingChecks
      BY <1>3, <2>1, <2>2, <2>3, <2>6, <2>8 DEF PendingChecks
    <3> QED BY <1>1, <3>1
  <2>9. CASE o.kind = "HISTORICAL_OR_DELISTED"
    <3>1. ask("COMPANY_ITSELF", "HISTORICAL_LISTING_RISK") \in PendingChecks
      BY <1>3, <2>1, <2>2, <2>3, <2>6, <2>9 DEF PendingChecks
    <3> QED BY <1>1, <3>1
  <2>10. CASE o.kind = "PRIVATE_OR_NOT_LISTED"
    <3>1. ask("COMPANY_ITSELF", "CONFLICTING_SOURCES") \in PendingChecks
      BY <1>3, <2>1, <2>2, <2>3, <2>6, <2>10 DEF PendingChecks
    <3> QED BY <1>1, <3>1
  <2> QED BY <2>5, <2>7, <2>8, <2>9, <2>10
<1> QED BY <1>2, <1>3 DEF IsSmallSet

\* With the cross-family recall of Module 14 off, as every shipped
\* configuration has it, and whatever enable_facets names: an applicable facet
\* that looks for no missing value and answered nothing is a gap, every facet
\* that ran is one the registry names, so that building the map cannot raise,
\* and each described risk leaves with a check (build_facet_map,
\* coverage_for, build_pending_checks).
THEOREM OpenEndsReachTheMap == ~CrossFamilyOn => (AcquisitionSpec => []OpenEndsAreReported)
<1> SUFFICES ASSUME ~CrossFamilyOn PROVE AcquisitionSpec => []OpenEndsAreReported
  OBVIOUS
<1>1. IInv => OpenEndsAreReported
  <2> SUFFICES ASSUME IInv PROVE OpenEndsAreReported
    OBVIOUS
  <2>1. UndeclaredFacets = {}
    BY RanIsDeclared
  <2> QED BY <2>1, SilentIsOpen, RiskIsRouted DEF OpenEndsAreReported
<1> QED BY <1>1, Invariance, PTL

\* Whatever the configuration, the one facet that can run undeclared is that
\* of Module 14's cross-family recall (_null_temporal_facets).
THEOREM OnlyTheRecallIsUndeclared ==
  AcquisitionSpec => [](UndeclaredFacets \subseteq {"cross_family_recall"})
<1>1. IInv => UndeclaredFacets \subseteq {"cross_family_recall"}
  <2>1. CrossProbe.facet = "cross_family_recall"
    BY ProbeFields DEF CrossProbe
  <2> QED BY <2>1, RanIsDeclared
<1> QED BY <1>1, Invariance, PTL

\* One answer supports one value: two targets that the same source read in the
\* same text for the same probe are within the tolerance of each other
\* (_mark_disagreeing_readings).
LEMMA MarkedAgree ==
  ASSUME NEW found, \A i \in DOMAIN found : "status" \in DOMAIN found[i],
         NEW a \in Seen(MarkDisagreeingReadings(found)), IsTarget(a),
         NEW b \in Seen(MarkDisagreeingReadings(found)), IsTarget(b)
  PROVE  ~Far(a.name.value, b.name.value)
<1> DEFINE targets == {o \in Seen(found) : IsTarget(o)}
           apart == \E x, y \in targets : Far(x.name.value, y.name.value)
           marked == MarkDisagreeingReadings(found)
           mark(o) == [o EXCEPT !.status = "AMBIGUOUS"]
<1>1. /\ DOMAIN marked = DOMAIN found
      /\ \A i \in DOMAIN found : marked[i] = IF apart /\ found[i] \in targets THEN mark(found[i]) ELSE found[i]
  BY DEF MarkDisagreeingReadings
<1>2. \A o : IsTarget(o) => o.status = "OK"
  BY DEF IsTarget
<1> HIDE DEF apart, marked
<1>3. ASSUME NEW x \in Seen(marked), IsTarget(x) PROVE x \in targets /\ ~apart
  <2>1. PICK i \in DOMAIN found : x = marked[i]
    BY <1>1 DEF Seen
  <2>2. CASE apart /\ found[i] \in targets
    <3>1. x = mark(found[i])
      BY <1>1, <2>1, <2>2
    <3>2. x.status # "OK"
      BY <3>1
    <3> QED BY <1>2, <1>3, <3>2
  <2>3. CASE ~(apart /\ found[i] \in targets)
    <3>1. x = found[i] /\ x \in targets
      BY <1>1, <1>3, <2>1, <2>3 DEF Seen
    <3> QED BY <2>3, <3>1
  <2> QED BY <2>2, <2>3
<1>4. a \in targets /\ b \in targets /\ ~apart
  BY <1>3 DEF marked
<1> QED BY <1>4 DEF apart

\* No answer stands for two values it could not reconcile itself.
LEMMA AnswersAgree == ASSUME IInv PROVE OneAnswerOneValue
<1> SUFFICES ASSUME IsNumeric, NEW i \in UsableNumbers, NEW j \in UsableNumbers,
                    log[i].probe = log[j].probe, log[i].source = log[j].source,
                    log[i].text = log[j].text
             PROVE  ~Far(Value(i), Value(j))
  BY DEF OneAnswerOneValue
<1> DEFINE p == log[i].probe
           s == log[i].source
           t == log[i].text
           number(r) == Observe(p, s, Canonicalise(r)[2], r.kind,
                                [value |-> Canonicalise(r)[1], unit |-> r.unit], t)
           found == [k \in DOMAIN t.names |-> number(t.names[k])]
           all == ExtractNumbers(p, s, t)
<1>1. log[i] \in Seen(log) /\ log[j] \in Seen(log) /\ IsTarget(log[i]) /\ IsTarget(log[j])
  BY DEF UsableNumbers, Seen
<1>2. log[i] \in Seen(all) /\ log[j] \in Seen(all)
  BY <1>1 DEF IInv, NumberInv
<1>3. \/ \E status : status # "OK" /\ all = <<Observe(p, s, status, "TARGET", Nothing, t)>>
      \/ all = MarkDisagreeingReadings(found)
  BY DEF ExtractNumbers
<1>4. CASE \E status : status # "OK" /\ all = <<Observe(p, s, status, "TARGET", Nothing, t)>>
  <2>1. PICK status : status # "OK" /\ all = <<Observe(p, s, status, "TARGET", Nothing, t)>>
    BY <1>4
  <2> DEFINE e == Observe(p, s, status, "TARGET", Nothing, t)
  <2>2. e.status # "OK"
    BY <2>1 DEF Observe
  <2> HIDE DEF e, all
  <2>3. log[i] = e
    BY <1>2, <2>1, OneSequence DEF e
  <2> QED BY <1>1, <2>2, <2>3 DEF IsTarget
<1>5. CASE all = MarkDisagreeingReadings(found)
  <2>1. \A k \in DOMAIN found : "status" \in DOMAIN found[k]
    BY DEF Observe
  <2> HIDE DEF found, all
  <2> QED BY <1>1, <1>2, <1>5, <2>1, MarkedAgree DEF Value
<1> QED BY <1>3, <1>4, <1>5

\* For every set of texts, units and tolerance: one answer never supports two
\* values it could not reconcile itself (_mark_disagreeing_readings).
THEOREM AnswersSupportOneValue == AcquisitionSpec => []OneAnswerOneValue
BY Invariance, AnswersAgree, PTL

(***************************************************************************)
(* The clusters of Module 12                                               *)
(***************************************************************************)

\* A reading that is usable is one the text gave, and was canonicalised.
LEMMA UsableReading ==
  ASSUME IInv, IsNumeric, NEW i \in UsableNumbers
  PROVE  \E r : /\ \E k \in DOMAIN log[i].text.names : r = log[i].text.names[k]
                /\ log[i].text \in TextsOf[relation]
                /\ Canonicalise(r)[2] = "OK" /\ Value(i) = Canonicalise(r)[1]
<1> DEFINE p == log[i].probe
           s == log[i].source
           t == log[i].text
           number(r) == Observe(p, s, Canonicalise(r)[2], r.kind,
                                [value |-> Canonicalise(r)[1], unit |-> r.unit], t)
           found == [k \in DOMAIN t.names |-> number(t.names[k])]
           all == ExtractNumbers(p, s, t)
<1>1. log[i] \in Seen(log) /\ IsTarget(log[i]) /\ log[i].status = "OK"
  BY DEF UsableNumbers, Seen, IsTarget
<1>2. log[i] \in Seen(all)
  BY <1>1 DEF IInv, NumberInv
<1>3. t \in TextsOf[relation]
  <2>1. t # Raised
    BY <1>1 DEF IInv, BaseInv, LogInv
  <2>2. t \in Texts
    BY <1>1 DEF IInv, BaseInv, LogInv
  <2> QED BY <2>1, <2>2 DEF Texts
<1>4. \/ \E status : status # "OK" /\ all = <<Observe(p, s, status, "TARGET", Nothing, t)>>
      \/ all = MarkDisagreeingReadings(found)
  BY DEF ExtractNumbers
<1>5. all = MarkDisagreeingReadings(found)
  <2> SUFFICES ASSUME NEW status, status # "OK",
                      all = <<Observe(p, s, status, "TARGET", Nothing, t)>>
               PROVE  FALSE
    BY <1>4
  <2> DEFINE e == Observe(p, s, status, "TARGET", Nothing, t)
  <2>1. e.status # "OK"
    BY DEF Observe
  <2> HIDE DEF e, all
  <2>2. log[i] = e
    BY <1>2, OneSequence DEF e
  <2> QED BY <1>1, <2>1, <2>2
<1>6. PICK k \in DOMAIN t.names : log[i] = found[k]
  <2> DEFINE marked == MarkDisagreeingReadings(found)
  <2>1. DOMAIN marked = DOMAIN t.names
    BY DEF MarkDisagreeingReadings
  <2>2. \A k \in DOMAIN t.names :
          marked[k] = found[k] \/ marked[k] = [found[k] EXCEPT !.status = "AMBIGUOUS"]
    BY DEF MarkDisagreeingReadings
  <2>3. \A k \in DOMAIN t.names : "status" \in DOMAIN found[k]
    BY DEF Observe
  <2> HIDE DEF found, marked
  <2>4. PICK k \in DOMAIN t.names : log[i] = marked[k]
    BY <1>2, <1>5, <2>1 DEF Seen, marked
  <2>5. log[i] = found[k]
    BY <1>1, <2>2, <2>3, <2>4
  <2> QED BY <2>5
<1> DEFINE r == t.names[k]
<1>7. log[i] = number(r)
  BY <1>6
<1>8. Canonicalise(r)[2] = "OK" /\ Value(i) = Canonicalise(r)[1]
  BY <1>1, <1>7 DEF Observe, Value
<1> QED BY <1>3, <1>6, <1>8

LEMMA ValuesArePositive ==
  ASSUME IInv, IsNumeric
  PROVE  Values \in [UsableNumbers -> Nat \ {0}]
<1> SUFFICES ASSUME NEW i \in UsableNumbers PROVE Value(i) \in Nat \ {0}
  BY DEF Values
<1>1. PICK r : /\ \E k \in DOMAIN log[i].text.names : r = log[i].text.names[k]
               /\ log[i].text \in TextsOf[relation]
               /\ Canonicalise(r)[2] = "OK" /\ Value(i) = Canonicalise(r)[1]
  BY UsableReading
<1>2. relation \in Relations \cap OfficialNumeric
  BY DEF IsNumeric, IInv, BaseInv, FrameInv
<1>3. r.value \in Int
  BY <1>1, <1>2, NumbersAreWhole
<1> DEFINE value == IF relation = Area
                    THEN r.value * Factor[IF r.unit = "" THEN "km2" ELSE r.unit]
                    ELSE r.value
<1>4. relation = Area => r.unit \in DOMAIN Factor \cup {""}
  BY <1>1 DEF Canonicalise
<1>5. value \in Int
  <2> DEFINE f == Factor[IF r.unit = "" THEN "km2" ELSE r.unit]
  <2>1. relation = Area => f \in Int
    BY <1>4, NumbersAreWhole
  <2>2. value = IF relation = Area THEN r.value * f ELSE r.value
    OBVIOUS
  <2> HIDE DEF f, value
  <2> QED BY <1>3, <2>1, <2>2
<1>6. ~(value <= 0) /\ Canonicalise(r)[1] = value
  BY <1>1 DEF Canonicalise
<1> HIDE DEF value
<1> QED BY <1>1, <1>5, <1>6

\* What is swept: every usable reading, in groups.
Sweep == Swept(Ascending(Values), Values, Tolerance)

LEMMA SweptReadings ==
  ASSUME IInv, IsNumeric
  PROVE  /\ AreGroups(Sweep, Ascending(Values), Cardinality(UsableNumbers),
                   UsableNumbers, Values, Tolerance)
         /\ IntegerValued(Values, UsableNumbers) /\ \A i \in UsableNumbers : Values[i] \in Nat
<1>1. UsableNumbers \in SUBSET Int /\ IsFiniteSet(UsableNumbers)
  <2>1. IsSequence(log)
    BY DEF IInv, BaseInv, FrameInv
  <2>2. IsFiniteSet(DOMAIN log) /\ DOMAIN log = 1..Len(log) /\ UsableNumbers \subseteq DOMAIN log
    BY <2>1, SequenceDomain DEF UsableNumbers
  <2>3. IsFiniteSet(UsableNumbers)
    BY <2>2, FS_Subset
  <2> QED BY <2>2, <2>3
<1>2. Values \in [UsableNumbers -> Nat] /\ Values \in [UsableNumbers -> Int]
  BY ValuesArePositive
<1> DEFINE n == Cardinality(UsableNumbers)
           order == Ascending(Values)
<1>3. /\ n \in Nat /\ order \in [1..n -> UsableNumbers]
      /\ \A i, j \in 1..n : i <= j => Values[order[i]] <= Values[order[j]]
  BY <1>1, <1>2, AscendingFacts
<1>4. Tolerance \in Nat
  BY NumbersAreWhole
<1> HIDE DEF n, order
<1>5. AreGroups(Swept(order, Values, Tolerance), order, n, UsableNumbers, Values, Tolerance)
  <2>1. IntegerValued(Values, UsableNumbers)
    BY <1>2 DEF IntegerValued
  <2> QED BY <1>3, <1>4, <2>1, SweepFacts
<1> QED BY <1>2, <1>5 DEF Sweep, n, order, IntegerValued

\* A cluster is one of the groups of the sweep.
LEMMA ClustersAreGroups ==
  ASSUME IInv, IsNumeric, NEW c \in Seen(Clusters)
  PROVE  \E m \in DOMAIN Sweep : c = Sweep[m]
<1> DEFINE G == Sweep
           n == Len(G)
           summary == [i \in DOMAIN G |-> Summary(ValuesOf(G[i]))]
           order == ByDominance(summary)
<1>1. /\ AreGroups(G, Ascending(Values), Cardinality(UsableNumbers), UsableNumbers, Values, Tolerance)
      /\ IntegerValued(Values, UsableNumbers) /\ \A i \in UsableNumbers : Values[i] \in Nat
  BY SweptReadings
<1>2. Clusters = [k \in DOMAIN order |-> G[order[k]]]
  BY DEF Clusters, Sweep
<1> HIDE DEF G
<1>3. n \in Nat /\ DOMAIN G = 1..n
  BY <1>1, GroupsShape
<1>4. summary \in [1..n -> Summaries]
  <2> SUFFICES ASSUME NEW i \in 1..n PROVE Summary(ValuesOf(G[i])) \in Summaries
    BY <1>3
  <2> DEFINE l == Len(G[i])
             s == ValuesOf(G[i])
  <2>2. l \in Nat \ {0} /\ DOMAIN G[i] = 1..l /\ \A k \in 1..l : G[i][k] \in UsableNumbers
    BY <1>1, <1>3, GroupsShape
  <2>3. \A k \in 1..l : Value(G[i][k]) \in Nat \ {0}
    BY <2>2, ValuesArePositive DEF Values
  <2>4. s \in [1..l -> Int]
    BY <2>2, <2>3 DEF ValuesOf
  <2> HIDE DEF s, l
  <2>5. Summary(s) \in Summaries
    BY <2>2, <2>4, SummaryFacts
  <2> QED BY <2>5 DEF s
<1> HIDE DEF summary
<1>5. order \in [1..n -> 1..n]
  BY <1>3, <1>4, DominanceFacts
<1> HIDE DEF order
<1>6. PICK k \in DOMAIN order : c = G[order[k]]
  BY <1>2 DEF Seen
<1> QED BY <1>3, <1>5, <1>6 DEF G

\* The median of a cluster is within the tolerance of every member.
LEMMA MediansSpeak == ASSUME IInv PROVE MedianSpeaksForItsCluster
<1> SUFFICES ASSUME IsNumeric, NEW c \in Seen(Clusters), NEW p \in DOMAIN c
             PROVE  ~Far(Representative(c), 2 * Value(c[p]))
  BY DEF MedianSpeaksForItsCluster, Seen
<1> DEFINE G == Sweep
<1>1. PICK m \in DOMAIN G : c = G[m]
  BY ClustersAreGroups
<1>2. /\ AreGroups(G, Ascending(Values), Cardinality(UsableNumbers), UsableNumbers, Values, Tolerance)
      /\ IntegerValued(Values, UsableNumbers) /\ \A i \in UsableNumbers : Values[i] \in Nat
  BY SweptReadings
<1> HIDE DEF G
<1>3. \A k \in DOMAIN c : c[k] \in UsableNumbers /\ Value(c[k]) = Values[c[k]]
  <2>1. G[m] \in Seq(UsableNumbers)
    BY <1>2 DEF AreGroups
  <2>2. \A k \in DOMAIN c : c[k] \in UsableNumbers
    BY <1>1, <2>1
  <2> QED BY <2>2 DEF Values
<1>4. Representative(c) = Median([k \in DOMAIN c |-> Values[c[k]]])
  <2>1. ValuesOf(c) = [k \in DOMAIN c |-> Values[c[k]]]
    BY <1>3 DEF ValuesOf
  <2> QED BY <2>1 DEF Representative
<1>5. Tolerance \in Nat
  BY NumbersAreWhole
<1>6. Near(Median([k \in DOMAIN c |-> Values[c[k]]]), 2 * Values[c[p]], Tolerance)
  BY <1>1, <1>2, <1>5, MedianNear
<1> QED BY <1>3, <1>4, <1>6 DEF Far

\* Usable readings within the tolerance of one below them are in two clusters
\* at most.
LEMMA AgreementStays == ASSUME IInv PROVE AgreementIsNotScattered
<1> SUFFICES ASSUME IsNumeric, NEW i \in UsableNumbers
             PROVE  Cardinality({c \in Seen(Clusters) :
                      \E j \in Seen(c) : Value(j) >= Value(i) /\ ~Far(Value(i), Value(j))}) <= 2
  BY DEF AgreementIsNotScattered
<1> DEFINE G == Sweep
           v == Value(i)
           T == {c \in Seen(Clusters) : \E j \in Seen(c) : Value(j) >= v /\ ~Far(v, Value(j))}
<1>1. /\ AreGroups(G, Ascending(Values), Cardinality(UsableNumbers), UsableNumbers, Values, Tolerance)
      /\ (\A j \in UsableNumbers : Values[j] \in Nat) /\ Tolerance \in Nat
      /\ IntegerValued(Values, UsableNumbers)
  BY SweptReadings, NumbersAreWhole
<1>2. v \in Nat
  BY <1>1 DEF Values
<1> HIDE DEF v
<1>3. ASSUME NEW c \in T
      PROVE  \E m \in DOMAIN G : c = G[m] /\ \E p \in DOMAIN G[m] :
               v <= Values[G[m][p]] /\ Near(v, Values[G[m][p]], Tolerance)
  <2>1. PICK m \in DOMAIN G : c = G[m]
    BY ClustersAreGroups
  <2>2. PICK p \in DOMAIN c : Value(c[p]) >= v /\ ~Far(v, Value(c[p]))
    BY DEF Seen
  <2>3. c[p] \in UsableNumbers
    <3> HIDE DEF G
    <3>1. G[m] \in Seq(UsableNumbers)
      BY <1>1 DEF AreGroups
    <3> QED BY <2>1, <2>2, <3>1
  <2>4. Value(c[p]) = Values[c[p]] /\ Values[c[p]] \in Nat
    BY <1>1, <2>3 DEF Values
  <2>5. v <= Values[c[p]]
    BY <1>2, <2>2, <2>4
  <2> HIDE DEF G
  <2> QED BY <2>1, <2>2, <2>4, <2>5 DEF Far
<1> HIDE DEF G, T
<1>4. ASSUME NEW c \in T, NEW d \in T, NEW e \in T PROVE c = d \/ d = e \/ c = e
  <2>1. PICK k \in DOMAIN G : c = G[k] /\ \E p \in DOMAIN G[k] :
               v <= Values[G[k][p]] /\ Near(v, Values[G[k][p]], Tolerance)
    BY <1>3
  <2>2. PICK l \in DOMAIN G : d = G[l] /\ \E p \in DOMAIN G[l] :
               v <= Values[G[l][p]] /\ Near(v, Values[G[l][p]], Tolerance)
    BY <1>3
  <2>3. PICK m \in DOMAIN G : e = G[m] /\ \E p \in DOMAIN G[m] :
               v <= Values[G[m][p]] /\ Near(v, Values[G[m][p]], Tolerance)
    BY <1>3
  <2>4. \A x, y, z \in DOMAIN G :
          /\ \E p \in DOMAIN G[x] : v <= Values[G[x][p]]
          /\ \E q \in DOMAIN G[z] : Near(v, Values[G[z][q]], Tolerance)
          => ~(x < y /\ y < z)
    BY <1>1, <1>2, NotScattered
  <2>5. k \in Int /\ l \in Int /\ m \in Int
    BY <1>1, GroupsShape
  <2>6. ~(k < l /\ l < m) /\ ~(k < m /\ m < l) /\ ~(l < k /\ k < m)
    BY <2>1, <2>2, <2>3, <2>4
  <2>7. ~(l < m /\ m < k) /\ ~(m < k /\ k < l) /\ ~(m < l /\ l < k)
    BY <2>1, <2>2, <2>3, <2>4
  <2>8. k = l \/ l = m \/ k = m
    BY <2>5, <2>6, <2>7
  <2> QED BY <2>1, <2>2, <2>3, <2>8
<1>5. Cardinality(T) <= 2
  BY <1>4, AtMostTwo
<1> QED BY <1>5 DEF T, v

\* For every set of texts, units and tolerance: a cluster is what its readings
\* agree on (cluster_values, _mark_disagreeing_readings).
THEOREM ClustersCohere == AcquisitionSpec => []ClustersHoldTogether
<1>1. IInv => ClustersHoldTogether
  BY MediansSpeak, AgreementStays, AnswersAgree DEF ClustersHoldTogether
<1> QED BY <1>1, Invariance, PTL

=============================================================================
