------------------------------- MODULE MCBoot -------------------------------
(* Two permissions: what every role has, and what only admins have. *)
EXTENDS Boot, TLC

CodedPermissions == <<"book:read", "book:write">>
CodedUserPermissions == {"book:read"}

Symmetry == Permutations(Server)
=============================================================================
