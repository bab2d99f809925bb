---------------------------- MODULE SemanticRouter ----------------------------
(***************************************************************************)
(* What the semantic router makes of the hits of a vector search,          *)
(* agent_gantry/core/router.py: constraints, the final score, and the      *)
(* choice of diverse tools; and what the server router of                  *)
(* core/mcp_router.py makes of them.                                       *)
(*                                                                         *)
(* Similarities, costs and the diversity factor are in tenths and scores   *)
(* in thousandths, so the weights 0.6, 0.15, 0.1, 0.1 and 0.05 and the     *)
(* penalties are exact.                                                    *)
(***************************************************************************)
EXTENDS VectorStores

CONSTANTS
  Near,     \* similarity of two items to each other
  OverFetch \* 4 in the code: candidates asked for per tool wanted

ASSUME RouterAssumption ==
  /\ Near \in [Items \X Items -> 0..10]
  /\ OverFetch \in Nat \ {0}

Allowed(i, q, live) ==
  /\ ~(q.skipDeprecated /\ Sheet[i].deprecated)
  /\ q.namespaces = {} \/ Sheet[i].ns \in q.namespaces
  /\ q.requires \subseteq Sheet[i].caps
  /\ q.excludes \cap Sheet[i].caps = {}
  /\ ~(q.skipBroken /\ live /\ Sheet[i].broken)

(* A tool already used counts as relevant, and so does every mention.      *)
Relevance(i, q) ==
  Min({100, (IF Sheet[i].name \in q.used THEN 50 ELSE 0) + 20 * q.mentions})

Penalties(i, q) ==
  (IF Sheet[i].name \in q.used THEN 100 ELSE 0)
    + (IF Sheet[i].name \in q.failed THEN 300 ELSE 0)
    + (IF Sheet[i].deprecated THEN 500 ELSE 0)

(* compute_final_score.  Only the in-memory store hands out the live       *)
(* definition, whose health the engine keeps; a stored one is healthy.     *)
FinalScore(h, q, intent, live) ==
  LET i == h.item
      base == 60 * h.score + (IF intent /\ Sheet[i].fits THEN 150 ELSE 0)
                + Relevance(i, q) + (IF live /\ Sheet[i].broken THEN 0 ELSE 100) + 50
  IN  Max({0, base - Penalties(i, q)})

ScoredAndFiltered(hits, q, intent, live) ==
  LET kept == Those(hits, LAMBDA h : Allowed(h.item, q, live))
  IN  [n \in DOMAIN kept |->
         [kept[n] EXCEPT !.score = FinalScore(kept[n], q, intent, live)]]

(***************************************************************************)
(* _apply_mmr.  The similarity of a candidate to what is selected is kept  *)
(* as a running maximum: each turn compares with the last selected alone.  *)
(***************************************************************************)
(* Slip: only the last selected counts.                                    *)
CloserSlip(sims, scored, last) ==
  [n \in DOMAIN scored |-> Near[scored[n].item, scored[last].item]]
Closer(sims, scored, last) ==
  [n \in DOMAIN scored |-> Max({sims[n], Near[scored[n].item, scored[last].item]})]

Marginal(h, sim, q) == (10 - q.diversity) * h.score - q.diversity * 100 * sim

(* The first of the candidates with the greatest marginal score.           *)
Pick(scored, picked, sims, q) ==
  LET left == DOMAIN scored \ ToSet(picked)
      worth(n) == Marginal(scored[n], sims[n], q)
  IN  CHOOSE n \in left :
        \A o \in left : worth(o) < worth(n) \/ (worth(o) = worth(n) /\ n <= o)

NextPick(state, scored, q) ==
  LET sims == Closer(state.sims, scored, Last(state.picked))
  IN  [picked |-> Append(state.picked, Pick(scored, state.picked, sims, q)), sims |-> sims]

Diverse(scored, q) ==
  LET first == Pick(scored, <<>>, [n \in DOMAIN scored |-> 0], [q EXCEPT !.diversity = 0])
      start == [picked |-> <<first>>, sims |-> [n \in DOMAIN scored |-> 0]]
      end == FoldLeft(LAMBDA s, n : NextPick(s, scored, q), start,
                      [n \in 1..(Min({q.limit, Len(scored)}) - 1) |-> n])
  IN  [n \in DOMAIN end.picked |-> scored[end.picked[n]]]

(* What is left of the route once the candidates are scored and sorted,    *)
(* and perhaps reranked.                                                   *)
Chosen(scored, q) ==
  IF q.diversity > 0 /\ Len(scored) > 1 THEN Top(Diverse(scored, q), q.limit)
  ELSE Top(scored, q.limit)

(* A reranker gives the best `limit` of the tools in an order and with     *)
(* scores of its own.                                                      *)
Rerankings(scored, q) ==
  LET n == Min({q.limit, Len(scored)})
  IN  {[m \in 1..n |-> [scored[p[m]] EXCEPT !.score = 1000 - 100 * m]] :
         p \in {f \in [1..n -> DOMAIN scored] : IsInjective(f)}}

(* MCPRouter.route: of twice as many pseudo-tools as servers wanted, those *)
(* of the wanted namespaces.                                               *)
ServersOf(hits, q) ==
  Top(Those(hits, LAMBDA h : InCategory(h, q)), q.limit)
=============================================================================
