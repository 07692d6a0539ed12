--------------------------- MODULE MCCustomerMemory ---------------------------
(***************************************************************************)
(* The PATCH requests that the instances of CustomerMemory send: any value *)
(* and any change of the mark together, and what corrects the kind alone.  *)
(***************************************************************************)
EXTENDS CustomerMemory

ValueAndMark == {p \in Patches : p.kind = Omitted /\ p.sure = Omitted} \ {NoPatch}
KindOnly     == {[NoPatch EXCEPT !.kind = "fact", !.sure = TRUE],
                 [NoPatch EXCEPT !.kind = "inference"]}
SomePayloads == ValueAndMark \cup KindOnly
=============================================================================
