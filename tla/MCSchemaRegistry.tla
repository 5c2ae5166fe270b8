--------------------------- MODULE MCSchemaRegistry ---------------------------
(* Instances of SchemaRegistry: two schemas, of which base breaks other    *)
(* and other declares a version of its own.  Calls and keys are            *)
(* interchangeable.                                                        *)
EXTENDS SchemaRegistry, TLC

CONSTANTS base, other
TwoSchemas == {base, other}
OtherDeclares2 == base :> <<1, 0, 0>> @@ other :> <<2, 0, 0>>
BaseBreaksOther == {<<other, base>>}

Symmetry ==
  Permutations(Registrations) \cup Permutations(Workflows) \cup Permutations(Publications)
    \cup Permutations(Keys)
=============================================================================
