-------------------------- MODULE MCActivationOffload -------------------------
(* Models of two to five layers; each saves three tensors in two storages. *)
EXTENDS ActivationOffload

Model(g, l) == [groups |-> g, layers |-> l]

\* All layers but the last, as enable_activation_offloading asks for, and the
\* ways to spread fewer groups over more layers.
SomeModels ==
  {Model(2, 3), Model(3, 4), Model(1, 1), Model(2, 2), Model(3, 3),
   Model(1, 3), Model(2, 4), Model(2, 5), Model(3, 5)}

InputTwice == <<"input", "hidden", "input">>
=============================================================================
