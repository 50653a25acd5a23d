---------------------------- MODULE NameRegistry ----------------------------
(***************************************************************************)
(* What the server promises about nicknames: a registry in which a         *)
(* nickname has one owner at a time.  An owner may take a free nickname,   *)
(* which gives back the one he had, and may leave; nobody else's nickname  *)
(* changes then.                                                           *)
(***************************************************************************)
CONSTANTS
  Owner,
  Name,
  None       (* the name of an owner without a name, which is not in Name *)

VARIABLE name

RegistryInit == name = [o \in Owner |-> None]

Free(n) == \A o \in Owner : name[o] # n

Register(o, n) == Free(n) /\ name' = [name EXCEPT ![o] = n]

Leave(o) == name[o] # None /\ name' = [name EXCEPT ![o] = None]

RegistryNext ==
  \E o \in Owner : Leave(o) \/ \E n \in Name : Register(o, n)

RegistrySpec == RegistryInit /\ [][RegistryNext]_name
=============================================================================
