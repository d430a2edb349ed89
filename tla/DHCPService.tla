------------------------------ MODULE DHCPService -----------------------------
(***************************************************************************)
(* The built-in DHCP server (internal/netboot/dhcp.go) and its lease pool  *)
(* (internal/netboot/netboot.go): a configuration is saved, then the       *)
(* server that runs is closed and one with the new configuration is        *)
(* started, while the goroutines of closed servers are still on their way  *)
(* out.  Addresses are numbers.                                            *)
(***************************************************************************)
EXTENDS Integers, FiniteSets

CONSTANTS
  Admins,     \* who may apply or stop at the same time
  MACs,       \* clients
  Configs,    \* configurations the console may send
  FileConfig, \* the configuration of the YAML file, which nothing validates
  Hosts,      \* addresses the network card or the public URL may give
  Top,        \* the highest address: 2^32 - 1 in the code
  Slots       \* bound: servers that run or whose goroutine is on its way out

NoAddr == -1
Unspecified == 0
Addr == Unspecified .. Top

\* Without a subnet (the empty set) nothing is known of the link.
Config == [enabled : BOOLEAN, subnet : SUBSET Addr, start : Addr, end : Addr,
           router : Addr \cup {NoAddr}, next : Addr \cup {NoAddr}]
ASSUME ConfigsAreOfType == FileConfig \in Config /\ Configs \subseteq Config
ASSUME HostsAreAddresses == Hosts \subseteq Addr \cup {NoAddr}
ASSUME TopIsNat == Top \in Nat
ASSUME NoSlotIsZero == 0 \notin Slots

-----------------------------------------------------------------------------
(* The configuration.                                                      *)

OnLink(d, ip) == ip # NoAddr /\ (d.subnet = {} \/ ip \in d.subnet)

\* nextServerIP: the one configured, else that of the card or of the public URL.
NextServer(d, host) == IF d.next # NoAddr THEN d.next ELSE host

\* Faulty: a router that is given is taken.
RouterAsGiven(d, fallback) ==
  CASE d.router # NoAddr   -> d.router
    [] OnLink(d, d.next)   -> d.next
    [] OnLink(d, fallback) -> fallback
    [] OTHER               -> NoAddr

\* The first of router, next server and own address that is on the link.
EffectiveRouter(d, fallback) ==
  CASE OnLink(d, d.router) -> d.router
    [] OnLink(d, d.next)   -> d.next
    [] OnLink(d, fallback) -> fallback
    [] OTHER               -> NoAddr

Routed(d, host) == [d EXCEPT !.router = EffectiveRouter(d, NextServer(d, host))]

Valid(d) ==
  d.enabled =>
    /\ d.start <= d.end
    /\ d.subnet # {} => {d.start, d.end} \subseteq d.subnet
    /\ d.router # NoAddr => OnLink(d, d.router)

-----------------------------------------------------------------------------
(* The lease pool.                                                         *)

Leased(leases) == {leases[m] : m \in MACs} \ {NoAddr}
Free(d, leases) == (d.start .. d.end) \ Leased(leases)
Lowest(S) == CHOOSE a \in S : \A b \in S : a <= b

\* Faulty: the search never moves on.
FirstOfPool(d, leases) == d.start

\* The lowest free address; a search that runs past the highest address there is
\* goes on at 0.
FirstFree(d, leases) ==
  IF Free(d, leases) # {} THEN Lowest(Free(d, leases)) ELSE Lowest(Addr \ Leased(leases))

\* A full pool gives its first address to everybody, and does not remember whom.
Exhausted(d, leases) ==
  Free(d, leases) = {} /\ (d.end # Top \/ d.start > d.end \/ Addr \subseteq Leased(leases))

Assign(d, leases, mac) ==
  IF leases[mac] # NoAddr THEN leases[mac]
  ELSE IF Exhausted(d, leases) THEN d.start ELSE FirstFree(d, leases)

-----------------------------------------------------------------------------
VARIABLES
  up,      \* the control plane runs
  saved,   \* the setting "dhcp"
  cfg,     \* dhcpCfg
  srv,     \* the server dhcpSrv points to, 0: nil
  on,      \* dhcpOn
  servers, \* slot -> configuration, leases, last answer, whether its socket is
           \* open and its goroutine still in serveDHCP
  admin,   \* admin -> the configuration saved and not yet applied
  alone    \* for SavedIsApplied only: the last request was nobody else's at the
           \* same time, and what it changed was written

dhcpVars == <<up, saved, cfg, srv, on, servers, admin, alone>>

NoConfig == [set |-> FALSE, d |-> FileConfig]
Some(d) == [set |-> TRUE, d |-> d]
NoAnswer == [mac |-> CHOOSE m \in MACs : TRUE, ip |-> NoAddr]
NoServer == [d |-> FileConfig, leases |-> [m \in MACs |-> NoAddr], last |-> NoAnswer,
             open |-> FALSE, serving |-> FALSE]
NoServers == [i \in Slots |-> NoServer]

\* A closed server answers nobody: its leases are gone with it.
Shut(s) == [NoServer EXCEPT !.serving = s.serving]

\* stopDHCPLocked's Close, if there is a server.
Closed == IF srv = 0 THEN servers ELSE [servers EXCEPT ![srv] = Shut(@)]

\* Nothing runs; before: the servers that were, closed.
Off(d, before) == cfg' = d /\ srv' = 0 /\ on' = FALSE /\ servers' = before

\* A router that was replaced is saved so; that it could not be is not reported.
\* quiet: what alone is to be if it was.
SaveRouted(d, r, quiet) ==
  IF r = d THEN UNCHANGED saved /\ alone' = quiet
  ELSE \/ saved' = Some(r) /\ alone' = quiet
       \/ UNCHANGED saved /\ alone' = FALSE

\* startDHCPLocked after stopDHCPLocked: it needs an address of its own, and the
\* socket.  A router that is not on the link is replaced.
Start(d, before, quiet) ==
  \E host \in Hosts, bound \in BOOLEAN :
    LET r == Routed(d, host) IN
    IF NextServer(d, host) \in {NoAddr, Unspecified}
    THEN Off(d, before) /\ UNCHANGED saved /\ alone' = quiet
    ELSE /\ SaveRouted(d, r, quiet)
         /\ IF bound
            THEN \E i \in Slots :
                   /\ ~before[i].serving
                   /\ cfg' = r /\ srv' = i /\ on' = TRUE
                   /\ servers' = [before EXCEPT ![i] =
                        [NoServer EXCEPT !.d = r, !.open = TRUE, !.serving = TRUE]]
            ELSE Off(r, before)

\* A configuration is put in force.
Enforce(d, quiet) ==
  IF d.enabled THEN Start(d, Closed, quiet)
  ELSE Off(d, Closed) /\ UNCHANGED saved /\ alone' = quiet

DHCPInit ==
  /\ up = FALSE
  /\ saved = NoConfig
  /\ cfg = FileConfig
  /\ srv = 0
  /\ on = FALSE
  /\ servers = NoServers
  /\ admin = [a \in Admins |-> NoConfig]
  /\ alone = TRUE

Nobody(but) == \A a \in Admins \ but : ~admin[a].set

\* The process ends, by a signal or a crash: sockets, leases and requests under
\* way are gone, the setting is not.
Die ==
  /\ up /\ up' = FALSE
  /\ Off(FileConfig, NoServers)
  /\ admin' = [a \in Admins |-> NoConfig]
  /\ UNCHANGED <<saved, alone>>

\* StartDHCP, when the control plane starts: the setting, else the YAML file.
StartDHCP ==
  /\ ~up /\ up' = TRUE
  /\ Enforce(IF saved.set THEN saved.d ELSE FileConfig, TRUE)
  /\ UNCHANGED admin

\* ApplyDHCP up to persistDHCP: it saves before it takes dhcpMu.
ApplySave(a) ==
  /\ up /\ ~admin[a].set
  /\ \E d \in Configs, host \in Hosts :
       /\ Valid(Routed(d, host))
       /\ saved' = Some(Routed(d, host))
       /\ admin' = [admin EXCEPT ![a] = Some(Routed(d, host))]
  /\ alone' = Nobody({a})
  /\ UNCHANGED <<up, cfg, srv, on, servers>>

\* The rest of ApplyDHCP, under dhcpMu.
ApplySwap(a) ==
  /\ admin[a].set
  /\ Enforce(admin[a].d, alone)
  /\ admin' = [admin EXCEPT ![a] = NoConfig]
  /\ UNCHANGED up

\* Faulty: a server that is stopped starts again with the control plane.
StopUnsaved(a) ==
  /\ up /\ ~admin[a].set
  /\ Off([cfg EXCEPT !.enabled = FALSE], Closed)
  /\ alone' = Nobody({a})
  /\ UNCHANGED <<up, saved, admin>>

\* StopDHCP; that the setting could not be written is not reported.
Stop(a) ==
  /\ up /\ ~admin[a].set
  /\ Off([cfg EXCEPT !.enabled = FALSE], Closed)
  /\ \/ saved' = Some([cfg EXCEPT !.enabled = FALSE]) /\ alone' = Nobody({a})
     \/ alone' = FALSE /\ UNCHANGED saved
  /\ UNCHANGED <<up, admin>>

\* The socket of a server breaks: Serve closes it and returns.
SocketFails(i) ==
  /\ servers[i].open
  /\ servers' = [servers EXCEPT ![i] = Shut(@)]
  /\ UNCHANGED <<up, saved, cfg, srv, on, admin, alone>>

\* Faulty: the goroutine does not look whose end it reports.
ServeEndsBlindly(i) ==
  /\ servers[i].serving /\ ~servers[i].open
  /\ servers' = [servers EXCEPT ![i].serving = FALSE]
  /\ srv' = 0 /\ on' = FALSE
  /\ UNCHANGED <<up, saved, cfg, admin, alone>>

\* The end of serveDHCP, under dhcpMu: another server may run by now.
ServeEnds(i) ==
  /\ servers[i].serving /\ ~servers[i].open
  /\ servers' = [servers EXCEPT ![i].serving = FALSE]
  /\ IF srv = i THEN srv' = 0 /\ on' = FALSE ELSE UNCHANGED <<srv, on>>
  /\ UNCHANGED <<up, saved, cfg, admin, alone>>

\* A discover or a request of a client, and its answer.
Answer(i, m) ==
  LET s == servers[i]
      ip == Assign(s.d, s.leases, m) IN
  /\ s.open
  /\ servers' = [servers EXCEPT ![i].last = [mac |-> m, ip |-> ip],
       ![i].leases[m] = IF Exhausted(s.d, s.leases) THEN @ ELSE ip]
  /\ UNCHANGED <<up, saved, cfg, srv, on, admin, alone>>

DHCPNext ==
  \/ Die
  \/ StartDHCP
  \/ \E a \in Admins : ApplySave(a) \/ ApplySwap(a) \/ Stop(a)
  \/ \E i \in Slots : SocketFails(i) \/ ServeEnds(i) \/ \E m \in MACs : Answer(i, m)

DHCPSpec == DHCPInit /\ [][DHCPNext]_dhcpVars

-----------------------------------------------------------------------------
\* Whatever is applied, stopped or breaks while goroutines of closed servers are
\* still on their way out, no socket stays open but the one dhcpSrv points to
\* (docs/deploy.md:90: never two DHCP servers on one network), the console shows
\* "running" exactly while there is one, and what it answers by is what the
\* console shows.
OneListener ==
  /\ \A i \in Slots : servers[i].open => srv = i /\ servers[i].d = cfg
  /\ on <=> srv # 0
  /\ srv # 0 => servers[srv].serving

\* Once the requests are over, the setting is what is in force, so that the next
\* start of the control plane brings it back (docs/deploy.md:238: what the console
\* saves wins over the YAML file): whatever binding, addresses and restarts did,
\* unless two requests overlapped, or the database refused to save a stop or a router
\* that a start replaced (dhcp.go:104 and 151 drop that error).
SavedIsApplied == up /\ saved.set /\ alone /\ Nobody({}) => saved.d = cfg

\* No server sends clients to a router that is not on its subnet: iPXE would
\* report "Network unreachable" and loop (config/dhcp.go:105).
RouterOnLink ==
  \A i \in Slots : servers[i].open /\ servers[i].d.router # NoAddr =>
    OnLink(servers[i].d, servers[i].d.router)

\* What a server hands out is in its pool, and another client's only when the pool is
\* full.  Two pools serve clients from outside them, and only these: one that ends before
\* it starts, which the YAML file may bring, and a full one that ends at the highest
\* address, where the search for a free address wraps (netboot.go:182).
Full(s) == s.d.start .. s.d.end \subseteq Leased(s.leases)
Wrapped(s) == s.d.end = Top /\ Full(s)
AddressesOwn ==
  \A i \in Slots : LET s == servers[i] IN
    s.open /\ s.last.ip # NoAddr =>
      /\ s.d.start <= s.d.end => s.last.ip \in s.d.start .. s.d.end \/ Wrapped(s)
      /\ (\E m \in MACs \ {s.last.mac} : s.leases[m] = s.last.ip) => Full(s)
===============================================================================
