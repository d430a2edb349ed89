----------------------------- MODULE MCDHCPService ----------------------------
(***************************************************************************)
(* Instances of DHCPService: the addresses 1 to 4 are one subnet, 5 to 7   *)
(* are outside it, 0 is 0.0.0.0 and 7 the highest address.                 *)
(***************************************************************************)
EXTENDS DHCPService

Lan == 1 .. 4
Pool(start, end, router) ==
  [enabled |-> TRUE, subnet |-> Lan, start |-> start, end |-> end, router |-> router, next |-> NoAddr]

\* A pool with room, a pool of one address whose router is outside the subnet, a
\* pool of the highest address only, one of which only the pool is known, and a
\* server that is switched off.
MCConfigs ==
  {Pool(2, 4, 1), Pool(3, 3, 6),
   [Pool(7, 7, NoAddr) EXCEPT !.subnet = {}, !.next = 5],
   [Pool(4, 4, NoAddr) EXCEPT !.subnet = {}],
   [Pool(2, 4, 1) EXCEPT !.enabled = FALSE]}

\* The YAML file left as it is shipped: its router is outside the subnet.
MCFileConfig == Pool(2, 3, 7)
MCHosts == {Unspecified, 1, 6}
===============================================================================
