------------------------------- MODULE Cents -------------------------------
(***************************************************************************)
(* Sums of integer cent amounts, the SQL `sum(amount_cents)` of the        *)
(* stores, and counts of log entries.  A sum of naturals is written as the *)
(* number of individual cents, so that its laws follow from those of       *)
(* finite cardinalities.                                                   *)
(***************************************************************************)
EXTENDS Naturals, FiniteSets

(* The individual cents that the rows in S hold, row s holding f[s]. *)
CentsOf(S, f) == UNION {{s} \X (1 .. f[s]) : s \in S}

(* coalesce(sum(f), 0) over the rows in S. *)
SumCents(S, f) == Cardinality(CentsOf(S, f))

(* How often e occurs in a log. *)
CountOf(log, e) == Cardinality({i \in DOMAIN log : log[i] = e})
=============================================================================
