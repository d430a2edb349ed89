------------------------------ MODULE MCConsole -------------------------------
(***************************************************************************)
(* Two parts of the control plane that share no state, checked in one run: *)
(* a behaviour is one of the DHCP service or one of the console's account, *)
(* and the other part stays as it starts.                                  *)
(***************************************************************************)
EXTENDS MCDHCPService, Accounts, TLC

VARIABLE focus  \* which of the two runs

mcVars == <<dhcpVars, accountVars, focus>>

MCInit == DHCPInit /\ AccountInit /\ focus \in {"dhcp", "account"}

MCNext ==
  \/ focus = "dhcp" /\ DHCPNext /\ UNCHANGED <<accountVars, focus>>
  \/ focus = "account" /\ AccountNext /\ UNCHANGED <<dhcpVars, focus>>

\* Requests in flight are interchangeable.
ConnSymmetry == Permutations(Conns)

MCSpec == MCInit /\ [][MCNext]_mcVars
===============================================================================
