----------------------------- MODULE Refinement -----------------------------
(***************************************************************************)
(* relation_refinement/: what a row asks the model once the pipeline has    *)
(* decided it, call by call, and what it becomes from the replies.         *)
(*                                                                         *)
(* An object is a number: the figure itself, or the surface of a name.  A  *)
(* text is a sequence of lines, a line a word and, where it has one, the   *)
(* object or the label it gives.  A reply is a text parsed.                *)
(***************************************************************************)
EXTENDS Contracts, SequencesExt

CONSTANTS
  Canonical,   \* surface of an exchange -> its key after aliases
  Recipient,   \* surface of a winner -> what is left without metadata, or 0
  StrictKey    \* surface of a name -> the key of the evaluator

Numeric == {Area, Capacity}
Views == <<1, 2, 3, 4>>

Line(word, value) == [word |-> word, value |-> value]
Reply(status, values) == [status |-> status, values |-> values]
Unread == Reply("INVALID", <<>>)

\* What a refiner keeps of a row: the replies, and the clusters of its figures.
NoneHeard == [replies |-> <<>>, clusters |-> <<>>]

-----------------------------------------------------------------------------
(* The parsers.  Every one of them is strict: a second line, a word or a    *)
(* figure out of place, and the reply is INVALID. *)

ParseFigure(text) ==
  CASE Len(text) = 1 /\ text[1].word = "UNKNOWN" -> Reply("UNKNOWN", <<>>)
    [] Len(text) = 1 /\ text[1].word = "VALUE" /\ text[1].value > 0 ->
         Reply("VALID", <<text[1].value>>)
    [] OTHER -> Unread

\* The two city parsers read the first line alone.
ParseLifeStatus(text) ==
  IF text # <<>> /\ text[1].word \in {"DECEASED", "LIVING", "UNKNOWN"}
  THEN Reply(text[1].word, <<>>) ELSE Unread

ParseCity(text) ==
  CASE text # <<>> /\ text[1].word = "UNKNOWN" -> Reply("UNKNOWN", <<>>)
    [] text # <<>> /\ text[1].word = "VALUE" -> Reply("VALID", <<text[1].value>>)
    [] OTHER -> Unread

NthOf(S, n) == CHOOSE x \in S : Cardinality({y \in S : y < x}) = n - 1

\* The first surface of every key, in order; a surface without a key is dropped.
FirstPerKey(surfaces, key) ==
  LET firsts == {i \in DOMAIN surfaces :
                   /\ key[surfaces[i]] # 0
                   /\ \A j \in 1..(i - 1) : key[surfaces[j]] # key[surfaces[i]]}
  IN [n \in 1..Cardinality(firsts) |-> surfaces[NthOf(firsts, n)]]

ParseExchanges(text) ==
  CASE Len(text) = 1 /\ text[1].word = "UNKNOWN" -> Reply("UNKNOWN", <<>>)
    [] Len(text) \in 1..3 /\ \A i \in DOMAIN text : text[i].word = "VALUE" ->
         Reply("VALID", FirstPerKey([i \in DOMAIN text |-> text[i].value], Canonical))
    [] OTHER -> Unread

\* The figures are shown in their order, and UNKNOWN after the last of them.
ParseJudge(text, figures) ==
  IF Len(text) # 1 \/ text[1].word # "LABEL" THEN Unread
  ELSE CASE text[1].value \in 1..Cardinality(figures) ->
              Reply("VALID", <<NthOf(figures, text[1].value)>>)
         [] text[1].value = Cardinality(figures) + 1 -> Reply("UNKNOWN", <<>>)
         [] OTHER -> Unread

-----------------------------------------------------------------------------
(* Four views of one figure *)

Valid(heard, i) ==
  i \in DOMAIN heard.replies /\ heard.replies[i].status = "VALID"
Observing(heard) == {i \in ToSet(Views) : Valid(heard, i)}
Figure(heard, i) == heard.replies[i].values[1]
Figures(heard) == {Figure(heard, i) : i \in Observing(heard)}

Apart(a, b) == IF a < b THEN b - a ELSE a - b
\* |a - b| / max(a, b) <= 0.05
Compatible(a, b) == 20 * Apart(a, b) <= Max({a, b})

\* A view joins the first cluster all of whose figures are compatible with its
\* own, or begins one.
JoinedBy(heard, i, figure) ==
  LET fits == {c \in DOMAIN heard.clusters :
                 \A j \in heard.clusters[c] : Compatible(figure, Figure(heard, j))}
  IN IF fits = {} THEN Append(heard.clusters, {i})
     ELSE [heard.clusters EXCEPT ![Min(fits)] = @ \cup {i}]

\* Twice the median of the figures of some views.
MedianTwice(heard, c) ==
  LET Below(i) == Cardinality({j \in c : \/ Figure(heard, j) < Figure(heard, i)
                                         \/ (Figure(heard, j) = Figure(heard, i) /\ j < i)})
      Ranking(n) == Figure(heard, CHOOSE i \in c : Below(i) = n)
  IN Ranking((Cardinality(c) - 1) \div 2) + Ranking(Cardinality(c) \div 2)

\* The most views; of two clusters as large, the one that was begun first.
TopCluster(heard) ==
  LET clusters == heard.clusters
      Size(c) == Cardinality(clusters[c])
  IN IF clusters = <<>> THEN {}
     ELSE clusters[CHOOSE c \in DOMAIN clusters : \A d \in DOMAIN clusters :
                     Size(c) > Size(d) \/ (Size(c) = Size(d) /\ c <= d)]

\* The figure of the top cluster nearest to its median, the first of two as near.
Representative(heard) ==
  CHOOSE figure \in Figures(heard) :
    \E top \in {TopCluster(heard)} : \E median \in {MedianTwice(heard, top)} :
      LET Off(i) == Apart(2 * Figure(heard, i), median)
      IN \E i \in top :
           /\ figure = Figure(heard, i)
           /\ \A j \in top : Off(i) < Off(j) \/ (Off(i) = Off(j) /\ i <= j)

\* Fault: three views of four are not enough.
StrongFault(heard) == \E c \in DOMAIN heard.clusters : Cardinality(heard.clusters[c]) > 3
Strong(heard) == \E c \in DOMAIN heard.clusters : Cardinality(heard.clusters[c]) >= 3

NeedsJudge(heard) == ~Strong(heard) /\ heard.clusters # <<>>

\* Fault: when the judge and the first view are silent nothing is answered.
ResolvedFigureFault(heard) ==
  CASE Strong(heard) -> <<Representative(heard)>>
    [] ~Strong(heard) /\ Valid(heard, 5) -> heard.replies[5].values
    [] OTHER -> IF Valid(heard, 1) THEN heard.replies[1].values ELSE <<>>

\* Consensus, else the judge, else the first view, else the largest cluster.
ResolvedFigure(heard) ==
  CASE Strong(heard) -> <<Representative(heard)>>
    [] ~Strong(heard) /\ Valid(heard, 5) -> heard.replies[5].values
    [] ~Strong(heard) /\ ~Valid(heard, 5) /\ Valid(heard, 1) -> heard.replies[1].values
    [] OTHER -> IF heard.clusters = <<>> THEN <<>> ELSE <<Representative(heard)>>

-----------------------------------------------------------------------------
(* Four views of an exchange *)

NamedBy(heard, i) ==
  IF Valid(heard, i) THEN {Canonical[s] : s \in ToSet(heard.replies[i].values)} ELSE {}

\* A reply has one surface of a key at most; the one most used stands for it,
\* the first of two used as often.
Naming(heard, key) == {i \in DOMAIN heard.replies : key \in NamedBy(heard, i)}
SupportOf(heard, key) == Cardinality(Naming(heard, key))
SurfaceIn(heard, i, key) ==
  CHOOSE surface \in ToSet(heard.replies[i].values) : Canonical[surface] = key
SurfaceOf(heard, key) ==
  LET Used(i) == Cardinality({j \in Naming(heard, key) :
                                SurfaceIn(heard, j, key) = SurfaceIn(heard, i, key)})
  IN SurfaceIn(heard,
       CHOOSE i \in Naming(heard, key) : \A j \in Naming(heard, key) :
         Used(i) > Used(j) \/ (Used(i) = Used(j) /\ i <= j),
       key)

\* More support first, then the view that named it first, then its place there.
FirstNamed(heard, key) ==
  LET i == Min(Naming(heard, key))
  IN <<i, Min({p \in DOMAIN heard.replies[i].values : Canonical[heard.replies[i].values[p]] = key})>>
AheadOf(heard, k, l) ==
  LET s == SupportOf(heard, k)  t == SupportOf(heard, l)
      f == FirstNamed(heard, k) g == FirstNamed(heard, l)
  IN \/ s > t
     \/ s = t /\ f[1] < g[1]
     \/ s = t /\ f[1] = g[1] /\ f[2] <= g[2]

Named(heard) == UNION {NamedBy(heard, i) : i \in DOMAIN heard.replies}

\* Fault: one view fewer convinces.
ConvincingFault(heard, support) ==
  {key \in Named(heard) : SupportOf(heard, key) >= support - 1}
Convincing(heard, support) == {key \in Named(heard) : SupportOf(heard, key) >= support}

\* One exchange at most, and only when enough views name it.
RescuedExchange(heard, support) ==
  IF Convincing(heard, support) = {} THEN <<>>
  ELSE <<SurfaceOf(heard, CHOOSE best \in Convincing(heard, support) :
                            \A key \in Named(heard) : AheadOf(heard, best, key))>>

-----------------------------------------------------------------------------
(* The refiners *)

Cleaned(winners) ==
  FirstPerKey(SelectSeq([i \in DOMAIN winners |-> Recipient[winners[i]]], LAMBDA s : s # 0),
              StrictKey)

HasRefiner(r) == r # Borders

\* Fewer calls than the resolver has views is a configuration that raises.
Raises(profile, r) == r = Area /\ profile.area = "MULTIVIEW" /\ profile.caps[Area] < Len(Views)

\* The call a refiner makes next, or "none".
Asks(profile, r, before, heard) ==
  LET n == Len(heard.replies)
      multiview == CASE n < Len(Views) -> "figure"
                     [] n = Len(Views) /\ NeedsJudge(heard) -> "judge"
                     [] OTHER -> "none"
      twoStage == CASE n = 0 -> "life"
                    [] n = 1 /\ heard.replies[1].status = "DECEASED" -> "city"
                    [] OTHER -> "none"
  IN CASE r = Death /\ profile.city = "DIRECT_ALL" -> twoStage
       [] r = Death /\ profile.city = "EMPTY_ONLY" /\ before = <<>> -> twoStage
       [] r = Stock /\ profile.stock = "EMPTY_ONLY" /\ before = <<>> ->
            IF n < Len(Views) THEN "exchanges" ELSE "none"
       [] r = Area /\ profile.area = "DIRECT" -> IF n = 0 THEN "figure" ELSE "none"
       [] r = Area /\ profile.area = "MULTIVIEW" -> multiview
       [] r = Capacity /\ profile.capacity = "MULTIVIEW" -> multiview
       [] OTHER -> "none"

Hear(heard, kind, reply) ==
  [replies |-> Append(heard.replies, reply),
   clusters |-> IF kind = "figure" /\ reply.status = "VALID"
                THEN JoinedBy(heard, Len(heard.replies) + 1, reply.values[1]) ELSE heard.clusters]

Parse(kind, text, heard) ==
  CASE kind = "figure" -> ParseFigure(text)
    [] kind = "judge" -> ParseJudge(text, Figures(heard))
    [] kind = "life" -> ParseLifeStatus(text)
    [] kind = "city" -> ParseCity(text)
    [] kind = "exchanges" -> ParseExchanges(text)

FirstOf(s) == SubSeq(s, 1, Min({1, Len(s)}))

\* The objects of a row once its refiner asks no more.
Refined(profile, r, before, heard) ==
  CASE r = Death /\ profile.city = "OFF" -> FirstOf(before)
    [] r = Death /\ profile.city = "EMPTY_ONLY" /\ before # <<>> -> before
    [] r = Death -> IF Valid(heard, 2) THEN heard.replies[2].values ELSE <<>>
    [] r = Stock -> IF profile.stock = "OFF" \/ before # <<>> THEN before
                    ELSE RescuedExchange(heard, profile.support)
    [] r = Area /\ profile.area = "DIRECT" -> IF Valid(heard, 1) THEN heard.replies[1].values ELSE <<>>
    [] r = Area -> IF profile.area = "OFF" THEN FirstOf(before) ELSE ResolvedFigure(heard)
    [] r = Capacity -> IF profile.capacity = "OFF" THEN FirstOf(before) ELSE ResolvedFigure(heard)
    [] r = Award -> IF profile.award THEN Cleaned(before) ELSE before
    [] OTHER -> before

=============================================================================
