--------------------------- MODULE TypedReduction ---------------------------
(***************************************************************************)
(* The typed channel of an evaluation (src/contextmesh/semantics.py and    *)
(* evidence.py): the evidence atoms of the inspected blocks become         *)
(* semantic units, canonical duplicates are merged with all their sources, *)
(* and the decision bundle sorts the units into its sections.              *)
(*                                                                         *)
(* What makes two units canonical duplicates is one value here, a key:     *)
(* kind, normalized value or text, unit, date, polarity, authority.  The   *)
(* evaluator makes every unit with authority "active" and none decisive.   *)
(***************************************************************************)
EXTENDS FiniteSets

CONSTANTS
  Blocks,
  Atoms  \* [Blocks -> set of keys [kind, value]], the atoms of a block without duplicates

ASSUME AtomsAssumption == DOMAIN Atoms = Blocks

CriticalKinds == {"exception", "contradiction", "requirement"}

\* semantic_units_from_evidence
UnitsOf(b) == {[key |-> k, sources |-> {b}] : k \in Atoms[b]}

Keys(units) == {u.key : u \in units}

Group(units, key) == {u \in units : u.key = key}

Merged_OneSource(group, key) ==
  [key |-> key, sources |-> {CHOOSE s \in UNION {u.sources : u \in group} : TRUE}]

\* A group of one stays, a larger one becomes one unit with the sources of all.
Merged(group, key) == [key |-> key, sources |-> UNION {u.sources : u \in group}]

\* reduce_semantic_units
Reduced(units) == {Merged(Group(units, key), key) : key \in Keys(units)}

\* validate_monotonic_reduction: every unit is still there or merged into one that
\* keeps its sources and, if it is critical, its kind.
ValidReduction(inputs, outputs) ==
  \A u \in inputs : \E o \in outputs :
    /\ o.key = u.key
    /\ u.key.kind \in CriticalKinds => o.key.kind = u.key.kind
    /\ u.sources \subseteq o.sources

Section(kind) ==
  CASE kind = "exception" -> "EXCEPTIONS"
    [] kind = "contradiction" -> "CONTRADICTIONS"
    [] kind = "requirement" -> "REQUIREMENTS"
    [] kind = "claim" -> "CLAIMS"
    [] OTHER -> "FACTS"

Sections == {"EXCEPTIONS", "CONTRADICTIONS", "REQUIREMENTS", "CLAIMS", "FACTS"}

\* build_decision_bundle
Bundle(units) == [s \in Sections |-> {u \in units : Section(u.key.kind) = s}]
=============================================================================
