--------------------------- MODULE MCReportSession ---------------------------
(***************************************************************************)
(* A small report: component a with an inventory and a runtime unit that   *)
(* share execution_form, the scope unit, and one relationship.  Component  *)
(* a can also be given a claim for the scope's field, which no unit asks   *)
(* of it.  Items are numbered in the order of the unit ids, as the planner *)
(* sorts them.                                                             *)
(***************************************************************************)
EXTENDS ReportSession, TLC

CONSTANTS c1, c2, c3, k1, k2, k3, edge

MCUnits == {"inventory_a", "runtime_a", "scope", "relationship"}
MCItems == 1 .. 5
MCUnitOf == <<"inventory_a", "runtime_a", "runtime_a", "scope", "relationship">>
MCSlots == {"form_a", "port_a", "revision", "revision_a", edge}
MCSlotOf == <<"form_a", "form_a", "port_a", "revision", edge>>
MCEdges == {edge}
MCFieldOf ==
  "form_a" :> "form" @@ "port_a" :> "port" @@ "revision" :> "revision" @@
  "revision_a" :> "revision" @@ edge :> edge

MCClaimIds == {c1, c2, c3}
MCKeys == {k1, k2, k3}
MCSymmetry == Permutations(MCClaimIds) \cup Permutations(MCKeys)
=============================================================================
