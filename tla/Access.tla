------------------------------- MODULE Access -------------------------------
(* The caller of a request, as the gateway's identity headers give it, and
   the permission checks of pkg/rbac. *)

CONSTANTS
  Perms,    \* the permissions each known user's roles grant
  None      \* no identity, SQL NULL, an absent row

Callers == DOMAIN Perms \cup {None}

Can(u, permission) == permission \in Perms[u] \/ "*" \in Perms[u]

authorize(u, permission) == u # None /\ Can(u, permission)
=============================================================================
