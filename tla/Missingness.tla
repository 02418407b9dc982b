---------------------------- MODULE Missingness ----------------------------
(***************************************************************************)
(* Module 19 (coverage_gap/missingness.py with the origins of              *)
(* facet_coverage.py): how much of the answer may still be missing.  Five  *)
(* readings of the integrated state, each measured or not; the residual is *)
(* the mean of those that were measured.  In thousandths.                  *)
(*                                                                         *)
(* Of the specialist it reads the origins (a sequence of sequences of      *)
(* names, in the order the operations ran) and the gap of its facets.      *)
(***************************************************************************)
EXTENDS Layer4

Share(part, whole) == (1000 * Cardinality(part)) \div Cardinality(whole)
IsSetValued(r) == ContractOf(r).program \in {"SMALL_SET", "LARGE_OPEN_SET"}

-----------------------------------------------------------------------------
(* Incidence *)

\* A check is no sighting.
NonDiscovery == {<<"core", BlindVerifier>>, <<"core", "EXISTENCE_GATE">>}
DiscoveryGroups(overlay) ==
  (overlay.base.supports \ NonDiscovery)
    \cup {<<"layer4", n.group>> : n \in {m \in overlay.groups : m.q /\ m.recall}}

Sighted(state) ==
  {k \in DOMAIN state.candidates : /\ ~state.candidates[k].base.hard
                                   /\ DiscoveryGroups(state.candidates[k]) # {}}

\* The share seen by one mechanism only; of clusters, for a quantity.
SingletonRatio(r, state) ==
  LET supported == {i \in DOMAIN state.clusters : state.clusters[i].support > 0}
  IN CASE IsSetValued(r) ->
            IF Sighted(state) = {} THEN NotMeasured
            ELSE Share({k \in Sighted(state) :
                          Cardinality(DiscoveryGroups(state.candidates[k])) = 1}, Sighted(state))
       [] IsNumberRelation(r) ->
            IF supported = {} THEN NotMeasured
            ELSE Share({i \in supported : state.clusters[i].support = 1}, supported)
       [] OTHER -> NotMeasured

-----------------------------------------------------------------------------
(* Novelty *)

\* The free recalls come last; they are one origin, with the names recovered.
DiscoveryOrigins(s, state) ==
  LET free(k) == {c \in state.candidates[k].checks : c.kind = "CANDIDATE_FREE_RECALL"}
      heard == {k \in DOMAIN state.candidates : free(k) # {}}
  IN IF heard = {} THEN s.origins
     ELSE Append(s.origins,
                 Ranked({k \in heard : \E c \in free(k) : c.outcome = "SUPPORT"},
                        LAMBDA x, y : x < y))

\* Of the last operation that named anything, the share nobody had named.
NoveltyRate(origins) ==
  LET named == {i \in DOMAIN origins : origins[i] # <<>>}
      last == Max(named)
      seen == UNION {Range(origins[i]) : i \in 1..(last - 1)}
  IN IF named = {} THEN NotMeasured
     ELSE Share({j \in DOMAIN origins[last] : origins[last][j] \notin seen},
                DOMAIN origins[last])

-----------------------------------------------------------------------------
(* Disagreement *)

Whole == 1000
Flagged(condition) == IF condition THEN {Whole} ELSE {}
Measured(values) == values \ {NotMeasured}

CandidateChannels(overlay) ==
  Flagged(overlay.base.d) \cup Flagged(Contradicts(overlay.verifier))
    \cup Flagged(overlay.against # {})
    \cup Measured({overlay.verifier.template, overlay.verifier.order})

NullConflict(state) == state.null.living /\ state.null.nowhere

\* The largest of the channels; another object recovered for a set is none.
DisagreementValue(state) ==
  LET channels == UNION {CandidateChannels(state.candidates[k]) : k \in DOMAIN state.candidates}
        \cup UNION {Measured({state.clusters[i].verifier.template}) : i \in DOMAIN state.clusters}
        \cup Flagged(Len(state.clusters) > 1)
        \cup Flagged(state.null.competing > 1) \cup Flagged(NullConflict(state))
  IN IF channels = {} THEN NotMeasured ELSE Max(channels)

-----------------------------------------------------------------------------
(* Unresolved mass *)

Unread(v) ==
  v.availability \in {"NOT_REQUESTED", "UNAVAILABLE"} \/ v.label = "UNKNOWN"

Awaited(state) ==
  {k \in DOMAIN state.pending : state.pending[k] \in {"ELIGIBLE_NOT_SCHEDULED", "FAILED"}}

CandidateUnresolved(state, k) ==
  LET overlay == state.candidates[k]
  IN \/ Unread(overlay.verifier) \/ Contradicts(overlay.verifier)
     \/ overlay.against # {}
     \/ k \in Awaited(state)

ClusterUnresolved(state, i) ==
  \/ Unread(state.clusters[i].verifier)
  \/ Len(state.clusters) > 1
  \/ \E c \in state.clusters[i].checks : c.outcome = "CONTRADICT"

\* Whether anybody died there at all is a unit of its own.
ExistenceUnresolved(state) ==
  \/ state.null.failedOnly
  \/ state.null.competing > 1
  \/ NullConflict(state)
  \/ state.propositions = {}

\* <<kind, id, is it unresolved>>; what Module 3 settled is no unit.
Units(r, state) ==
  (IF IsNumberRelation(r)
   THEN {<<"cluster", i, ClusterUnresolved(state, i)>> : i \in DOMAIN state.clusters}
   ELSE {<<"candidate", k, CandidateUnresolved(state, k)>> :
           k \in {c \in DOMAIN state.candidates : ~state.candidates[c].base.hard}})
  \cup (IF r = Death THEN {<<"existence", 0, ExistenceUnresolved(state)>>} ELSE {})

UnresolvedMass(units) ==
  IF units = {} THEN NotMeasured ELSE Share({u \in units : u[3]}, units)

-----------------------------------------------------------------------------
(* The residual *)

\* The weights are uniform; a reading that was not made weighs nothing.
Combine(parts) ==
  LET known == {n \in DOMAIN parts : parts[n] # NotMeasured}
  IN IF known = {} THEN NotMeasured
     ELSE SumFunctionOnSet(parts, known) \div Cardinality(known)

Estimate(r, s, state) ==
  LET units == Units(r, state)
      parts == [novelty |-> NoveltyRate(DiscoveryOrigins(s, state)),
                singleton |-> SingletonRatio(r, state),
                facets |-> s.facetGap,
                disagreement |-> DisagreementValue(state),
                unresolved |-> UnresolvedMass(units)]
  IN [parts |-> parts, units |-> units, residual |-> Combine(parts)]

=============================================================================
