--------------------------- MODULE DHCPServiceProofs --------------------------
(***************************************************************************)
(* For every number of admins, clients and servers on their way out: one   *)
(* listener, shown as it is, a router on its link, the setting in force,    *)
(* and addresses that are nobody else's.                                   *)
(***************************************************************************)
EXTENDS DHCPService, WellFoundedInduction, TLAPS

-----------------------------------------------------------------------------
(* Configurations.                                                         *)

LEMMA RoutedIsOnLink ==
  ASSUME NEW d \in Config, NEW host \in Hosts
  PROVE  /\ Routed(d, host) \in Config
         /\ Routed(d, host).router # NoAddr => OnLink(Routed(d, host), Routed(d, host).router)
<1> DEFINE fallback == NextServer(d, host)
           gw == EffectiveRouter(d, fallback)
<1>1. fallback \in Addr \cup {NoAddr} /\ d.router \in Addr \cup {NoAddr} /\ d.next \in Addr \cup {NoAddr}
  BY HostsAreAddresses DEF NextServer, Config
<1>2. gw \in Addr \cup {NoAddr}
  BY <1>1 DEF EffectiveRouter
<1>3. gw # NoAddr => OnLink(d, gw)
  BY DEF EffectiveRouter
<1>4. Routed(d, host) = [d EXCEPT !.router = gw]
  BY DEF Routed
<1>5. [d EXCEPT !.router = gw] \in Config /\ [d EXCEPT !.router = gw].router = gw
      /\ [d EXCEPT !.router = gw].subnet = d.subnet
  BY <1>2 DEF Config
<1> QED
  BY <1>3, <1>4, <1>5 DEF OnLink

-----------------------------------------------------------------------------
(* The inductive invariant: servers are records, only a goroutine that is  *)
(* still in serveDHCP has a socket, and what waits to be applied or loaded *)
(* is a configuration.                                                     *)

Fields == {"d", "leases", "last", "open", "serving"}

ServersOK ==
  /\ DOMAIN servers = Slots
  /\ srv \in Slots \cup {0}
  /\ on \in BOOLEAN
  /\ \A i \in Slots : /\ DOMAIN servers[i] = Fields
                      /\ servers[i].serving \in BOOLEAN /\ servers[i].open \in BOOLEAN
                      /\ servers[i].open => servers[i].serving

SettingsOK ==
  /\ cfg \in Config
  /\ saved \in [set : BOOLEAN, d : Config]
  /\ admin \in [Admins -> [set : BOOLEAN, d : Config]]

Inv == ServersOK /\ SettingsOK /\ OneListener /\ RouterOnLink

\* What Off and Start need of the servers that were: none has its socket open.
AllShut(before) ==
  /\ DOMAIN before = Slots
  /\ \A i \in Slots : /\ DOMAIN before[i] = Fields
                      /\ before[i].serving \in BOOLEAN /\ before[i].open = FALSE

LEMMA NoServerFields ==
  /\ DOMAIN NoServer = Fields /\ NoServer.open = FALSE /\ NoServer.serving = FALSE
BY DEF NoServer, Fields

\* stopDHCPLocked leaves no socket open: the only one was dhcpSrv's.
LEMMA ClosedIsShut ==
  ASSUME Inv
  PROVE  AllShut(Closed)
<1>1. CASE srv = 0
  BY <1>1, NoSlotIsZero DEF Inv, ServersOK, OneListener, AllShut, Closed
<1>2. CASE srv # 0
  <2>1. srv \in Slots /\ servers[srv].serving \in BOOLEAN
    BY <1>2 DEF Inv, ServersOK
  <2>2. Closed = [servers EXCEPT ![srv] = Shut(servers[srv])]
    BY <1>2 DEF Closed
  <2>3. \A i \in Slots : i # srv => servers[i].open = FALSE
    BY DEF Inv, ServersOK, OneListener
  <2>4. DOMAIN Shut(servers[srv]) = Fields /\ Shut(servers[srv]).open = FALSE
        /\ Shut(servers[srv]).serving \in BOOLEAN
    BY <2>1, NoServerFields DEF Shut, Fields
  <2>5. /\ DOMAIN Closed = Slots /\ Closed[srv] = Shut(servers[srv])
        /\ \A i \in Slots : i # srv => Closed[i] = servers[i]
    BY <2>1, <2>2 DEF Inv, ServersOK
  <2> QED
    BY <2>3, <2>4, <2>5 DEF Inv, ServersOK, AllShut
<1> QED
  BY <1>1, <1>2

LEMMA NoServersAreShut == AllShut(NoServers)
BY NoServerFields DEF AllShut, NoServers

LEMMA OffKeepsInv ==
  ASSUME NEW d \in Config, NEW before, AllShut(before), Off(d, before)
  PROVE  ServersOK' /\ cfg' \in Config /\ OneListener' /\ RouterOnLink'
BY NoSlotIsZero DEF Off, AllShut, ServersOK, OneListener, RouterOnLink

LEMMA StartKeepsInv ==
  ASSUME NEW d \in Config, NEW before, NEW quiet, AllShut(before), Start(d, before, quiet),
         saved \in [set : BOOLEAN, d : Config]
  PROVE  ServersOK' /\ cfg' \in Config /\ saved' \in [set : BOOLEAN, d : Config]
         /\ OneListener' /\ RouterOnLink'
<1>1. PICK host \in Hosts, bound \in BOOLEAN :
        LET r == Routed(d, host) IN
        IF NextServer(d, host) \in {NoAddr, Unspecified}
        THEN Off(d, before) /\ UNCHANGED saved
        ELSE /\ saved' \in {saved, Some(r)}
             /\ IF bound
                THEN \E i \in Slots :
                       /\ ~before[i].serving
                       /\ cfg' = r /\ srv' = i /\ on' = TRUE
                       /\ servers' = [before EXCEPT ![i] =
                            [NoServer EXCEPT !.d = r, !.open = TRUE, !.serving = TRUE]]
                ELSE Off(r, before)
  BY DEF Start, SaveRouted
<1> DEFINE r == Routed(d, host)
<1>2. r \in Config /\ (r.router # NoAddr => OnLink(r, r.router))
  BY RoutedIsOnLink
<1> HIDE DEF r
<1>3. CASE NextServer(d, host) \in {NoAddr, Unspecified}
  BY <1>1, <1>3, OffKeepsInv DEF r
<1>4. CASE NextServer(d, host) \notin {NoAddr, Unspecified}
  <2>1. saved' \in [set : BOOLEAN, d : Config]
    <3>1. saved' \in {saved, Some(r)}
      BY <1>1, <1>4 DEF r
    <3>2. Some(r) \in [set : BOOLEAN, d : Config]
      BY <1>2 DEF Some
    <3> QED
      BY <3>1, <3>2
  <2>2. CASE ~bound
    <3>1. Off(r, before)
      BY <1>1, <1>4, <2>2 DEF r
    <3> QED
      BY <1>2, <2>1, <3>1, OffKeepsInv
  <2>3. CASE bound
    <3>1. PICK i \in Slots :
            /\ cfg' = r /\ srv' = i /\ on' = TRUE
            /\ servers' = [before EXCEPT ![i] =
                 [NoServer EXCEPT !.d = r, !.open = TRUE, !.serving = TRUE]]
      BY <1>1, <1>4, <2>3 DEF r
    <3> DEFINE new == [NoServer EXCEPT !.d = r, !.open = TRUE, !.serving = TRUE]
    <3>2. DOMAIN new = Fields /\ new.d = r /\ new.open = TRUE /\ new.serving = TRUE
      BY DEF NoServer, Fields
    <3> HIDE DEF new
    <3>3. servers' = [before EXCEPT ![i] = new]
      BY <3>1 DEF new
    <3>4. DOMAIN servers' = Slots /\ servers'[i] = new
          /\ \A j \in Slots : j # i => servers'[j] = before[j]
      BY <3>3 DEF AllShut
    <3>5. ServersOK'
      BY <3>1, <3>2, <3>4 DEF AllShut, ServersOK
    <3>6. OneListener'
      BY <3>1, <3>2, <3>4, NoSlotIsZero DEF AllShut, OneListener
    <3>7. RouterOnLink'
      BY <1>2, <3>2, <3>4 DEF AllShut, RouterOnLink
    <3> QED
      BY <1>2, <2>1, <3>1, <3>5, <3>6, <3>7
  <2> QED
    BY <2>2, <2>3
<1> QED
  BY <1>3, <1>4

\* An admin's next configuration is one.
LEMMA AdminKeepsType ==
  ASSUME NEW a \in Admins, NEW v \in [set : BOOLEAN, d : Config],
         SettingsOK, admin' = [admin EXCEPT ![a] = v]
  PROVE  admin' \in [Admins -> [set : BOOLEAN, d : Config]]
BY DEF SettingsOK

\* Nothing saved, or nothing waiting to be applied.
LEMMA NoConfigType == NoConfig \in [set : BOOLEAN, d : Config]
BY ConfigsAreOfType DEF NoConfig

\* Switching off leaves a configuration.
LEMMA DisabledType ==
  ASSUME NEW d \in Config
  PROVE  [d EXCEPT !.enabled = FALSE] \in Config
BY DEF Config

-----------------------------------------------------------------------------
(* The steps.                                                              *)

LEMMA InitInv == DHCPInit => Inv
<1> SUFFICES ASSUME DHCPInit PROVE Inv
  OBVIOUS
<1>1. ServersOK /\ OneListener /\ RouterOnLink
  BY NoServerFields, NoSlotIsZero
  DEF DHCPInit, NoServers, ServersOK, OneListener, RouterOnLink
<1>2. SettingsOK
  BY NoConfigType, ConfigsAreOfType DEF DHCPInit, SettingsOK
<1> QED
  BY <1>1, <1>2 DEF Inv

LEMMA DieInv == Inv /\ Die => Inv'
<1> SUFFICES ASSUME Inv, Die PROVE Inv'
  OBVIOUS
<1>1. ServersOK' /\ cfg' \in Config /\ OneListener' /\ RouterOnLink'
  BY NoServersAreShut, ConfigsAreOfType, OffKeepsInv DEF Die
<1>2. SettingsOK'
  BY <1>1, NoConfigType DEF Die, Inv, SettingsOK
<1> QED
  BY <1>1, <1>2 DEF Inv

LEMMA StartDHCPInv == Inv /\ StartDHCP => Inv'
<1> SUFFICES ASSUME Inv, StartDHCP PROVE Inv'
  OBVIOUS
<1> DEFINE d == IF saved.set THEN saved.d ELSE FileConfig
<1>1. d \in Config /\ saved \in [set : BOOLEAN, d : Config]
  BY ConfigsAreOfType DEF Inv, SettingsOK
<1>2. AllShut(Closed)
  BY ClosedIsShut
<1>3. Start(d, Closed, TRUE) \/ (Off(d, Closed) /\ UNCHANGED saved)
  BY DEF StartDHCP, Enforce
<1> HIDE DEF d
<1>4. /\ ServersOK' /\ cfg' \in Config /\ OneListener' /\ RouterOnLink'
      /\ saved' \in [set : BOOLEAN, d : Config]
  BY <1>1, <1>2, <1>3, StartKeepsInv, OffKeepsInv
<1>5. SettingsOK'
  BY <1>4 DEF StartDHCP, Inv, SettingsOK
<1> QED
  BY <1>4, <1>5 DEF Inv

LEMMA ApplySaveInv == ASSUME NEW a \in Admins PROVE Inv /\ ApplySave(a) => Inv'
<1> SUFFICES ASSUME Inv, ApplySave(a) PROVE Inv'
  OBVIOUS
<1>1. PICK d \in Configs, host \in Hosts :
        saved' = Some(Routed(d, host)) /\ admin' = [admin EXCEPT ![a] = Some(Routed(d, host))]
  BY DEF ApplySave
<1>2. Some(Routed(d, host)) \in [set : BOOLEAN, d : Config]
  BY RoutedIsOnLink, ConfigsAreOfType DEF Some
<1>3. SettingsOK'
  BY <1>1, <1>2, AdminKeepsType DEF ApplySave, Inv, SettingsOK
<1>4. ServersOK' /\ OneListener' /\ RouterOnLink'
  BY DEF ApplySave, Inv, ServersOK, OneListener, RouterOnLink
<1> QED
  BY <1>3, <1>4 DEF Inv

LEMMA ApplySwapInv == ASSUME NEW a \in Admins PROVE Inv /\ ApplySwap(a) => Inv'
<1> SUFFICES ASSUME Inv, ApplySwap(a) PROVE Inv'
  OBVIOUS
<1> DEFINE d == admin[a].d
<1>1. d \in Config /\ saved \in [set : BOOLEAN, d : Config]
  BY DEF Inv, SettingsOK
<1>2. AllShut(Closed)
  BY ClosedIsShut
<1>3. Start(d, Closed, alone) \/ (Off(d, Closed) /\ UNCHANGED saved)
  BY DEF ApplySwap, Enforce
<1> HIDE DEF d
<1>4. /\ ServersOK' /\ cfg' \in Config /\ OneListener' /\ RouterOnLink'
      /\ saved' \in [set : BOOLEAN, d : Config]
  BY <1>1, <1>2, <1>3, StartKeepsInv, OffKeepsInv
<1>5. SettingsOK'
  BY <1>4, AdminKeepsType, NoConfigType DEF ApplySwap, Inv, SettingsOK
<1> QED
  BY <1>4, <1>5 DEF Inv

LEMMA StopInv == ASSUME NEW a \in Admins PROVE Inv /\ Stop(a) => Inv'
<1> SUFFICES ASSUME Inv, Stop(a) PROVE Inv'
  OBVIOUS
<1>1. [cfg EXCEPT !.enabled = FALSE] \in Config
  BY DisabledType DEF Inv, SettingsOK
<1>2. ServersOK' /\ cfg' \in Config /\ OneListener' /\ RouterOnLink'
  BY <1>1, ClosedIsShut, OffKeepsInv DEF Stop
<1>3. SettingsOK'
  <2>1. Some([cfg EXCEPT !.enabled = FALSE]) \in [set : BOOLEAN, d : Config]
    BY <1>1 DEF Some
  <2>2. saved' \in [set : BOOLEAN, d : Config] /\ admin' = admin
    BY <2>1 DEF Stop, Inv, SettingsOK
  <2> QED
    BY <1>2, <2>2 DEF Inv, SettingsOK
<1> QED
  BY <1>2, <1>3 DEF Inv

LEMMA SocketFailsInv == ASSUME NEW i \in Slots PROVE Inv /\ SocketFails(i) => Inv'
<1> SUFFICES ASSUME Inv, SocketFails(i) PROVE Inv'
  OBVIOUS
<1> DEFINE s == Shut(servers[i])
<1>1. DOMAIN s = Fields /\ s.open = FALSE /\ s.serving = servers[i].serving
  BY NoServerFields DEF Inv, ServersOK, Shut, Fields
<1>2. servers' = [servers EXCEPT ![i] = s]
  BY DEF SocketFails
<1> HIDE DEF s
<1>3. DOMAIN servers' = Slots /\ servers'[i] = s
      /\ \A j \in Slots : j # i => servers'[j] = servers[j]
  BY <1>2 DEF Inv, ServersOK
<1>4. ServersOK' /\ OneListener' /\ RouterOnLink'
  BY <1>1, <1>3 DEF SocketFails, Inv, ServersOK, OneListener, RouterOnLink
<1>5. SettingsOK'
  BY DEF SocketFails, Inv, SettingsOK
<1> QED
  BY <1>4, <1>5 DEF Inv

LEMMA ServeEndsInv == ASSUME NEW i \in Slots PROVE Inv /\ ServeEnds(i) => Inv'
<1> SUFFICES ASSUME Inv, ServeEnds(i) PROVE Inv'
  OBVIOUS
<1> DEFINE s == [servers[i] EXCEPT !.serving = FALSE]
<1>1. DOMAIN s = Fields /\ s.open = FALSE /\ s.serving = FALSE
  BY DEF ServeEnds, Inv, ServersOK, Fields
<1>2. servers' = [servers EXCEPT ![i] = s]
  BY DEF ServeEnds
<1> HIDE DEF s
<1>3. DOMAIN servers' = Slots /\ servers'[i] = s
      /\ \A j \in Slots : j # i => servers'[j] = servers[j]
  BY <1>2 DEF Inv, ServersOK
<1>4. ServersOK' /\ OneListener' /\ RouterOnLink'
  BY <1>1, <1>3 DEF ServeEnds, Inv, ServersOK, OneListener, RouterOnLink
<1>5. SettingsOK'
  BY DEF ServeEnds, Inv, SettingsOK
<1> QED
  BY <1>4, <1>5 DEF Inv

LEMMA AnswerInv ==
  ASSUME NEW i \in Slots, NEW m \in MACs PROVE Inv /\ Answer(i, m) => Inv'
<1> SUFFICES ASSUME Inv, Answer(i, m) PROVE Inv'
  OBVIOUS
<1>1. PICK last, leases :
        servers' = [servers EXCEPT ![i].last = last, ![i].leases[m] = leases]
  BY DEF Answer
<1>2. /\ DOMAIN servers' = Slots /\ DOMAIN servers'[i] = Fields
      /\ servers'[i].d = servers[i].d
      /\ servers'[i].open = servers[i].open /\ servers'[i].serving = servers[i].serving
      /\ \A j \in Slots : j # i => servers'[j] = servers[j]
  BY <1>1 DEF Inv, ServersOK, Fields
<1>3. UNCHANGED <<cfg, srv, on>>
  BY DEF Answer
<1>4. ServersOK'
  BY <1>2, <1>3 DEF Inv, ServersOK
<1>5. OneListener'
  BY <1>2, <1>3 DEF Inv, ServersOK, OneListener
<1>6. RouterOnLink'
  BY <1>2 DEF Inv, RouterOnLink
<1>7. SettingsOK'
  BY DEF Answer, Inv, SettingsOK
<1> QED
  BY <1>4, <1>5, <1>6, <1>7 DEF Inv

LEMMA StepInv == Inv /\ [DHCPNext]_dhcpVars => Inv'
<1> SUFFICES ASSUME Inv, [DHCPNext]_dhcpVars PROVE Inv'
  OBVIOUS
<1>1. CASE UNCHANGED dhcpVars
  BY <1>1 DEF dhcpVars, Inv, ServersOK, SettingsOK, OneListener, RouterOnLink
<1>2. CASE Die
  BY <1>2, DieInv
<1>3. CASE StartDHCP
  BY <1>3, StartDHCPInv
<1>4. ASSUME NEW a \in Admins, ApplySave(a) \/ ApplySwap(a) \/ Stop(a) PROVE Inv'
  BY <1>4, ApplySaveInv, ApplySwapInv, StopInv
<1>5. ASSUME NEW i \in Slots, SocketFails(i) \/ ServeEnds(i) \/ \E m \in MACs : Answer(i, m)
      PROVE Inv'
  BY <1>5, SocketFailsInv, ServeEndsInv, AnswerInv
<1> QED
  BY <1>1, <1>2, <1>3, <1>4, <1>5 DEF DHCPNext

-----------------------------------------------------------------------------
\* Whatever is applied, stopped, breaks or restarts, and however many goroutines
\* of closed servers are still to report their end, one socket is open at most,
\* it is the one the console shows, and it sends clients to a router on its link.
THEOREM DHCPInvariant == DHCPSpec => []Inv
<1>1. DHCPInit => Inv
  BY InitInv
<1>2. Inv /\ [DHCPNext]_dhcpVars => Inv'
  BY StepInv
<1> QED
  BY <1>1, <1>2, PTL DEF DHCPSpec

\* Never two DHCP servers at once, and the console's "running" is the truth.
THEOREM AlwaysOneListener == DHCPSpec => []OneListener
<1>1. Inv => OneListener
  BY DEF Inv
<1> QED
  BY <1>1, DHCPInvariant, PTL

\* No client is sent to a router it cannot reach, whatever the YAML file, the
\* setting or the console says.
THEOREM AlwaysRouterOnLink == DHCPSpec => []RouterOnLink
<1>1. Inv => RouterOnLink
  BY DEF Inv
<1> QED
  BY <1>1, DHCPInvariant, PTL

-----------------------------------------------------------------------------
(* The setting.  Between the two halves of ApplyDHCP it is ahead of what   *)
(* is in force, by what the admin holds who will apply it.                 *)

Ahead(a) == admin[a].set /\ Nobody({a}) /\ saved.d = admin[a].d

SettingInv ==
  /\ ~up => Nobody({})
  /\ \A a \in Admins : admin[a].set => saved.set
  /\ up /\ saved.set /\ alone => (Nobody({}) /\ saved.d = cfg) \/ \E a \in Admins : Ahead(a)

LEMMA NoConfigIsUnset == NoConfig.set = FALSE
BY DEF NoConfig

LEMMA SomeIsSet == ASSUME NEW d PROVE Some(d).set = TRUE /\ Some(d).d = d
BY DEF Some

\* Whatever becomes of a start, what is in force is what was saved, if anything was
\* and the saving did not fail.
LEMMA EnforceSaves ==
  ASSUME NEW d, NEW quiet, Enforce(d, quiet)
  PROVE  /\ saved.set => saved'.set
         /\ alone' => quiet
         /\ alone' /\ (saved.set => saved.d = d) /\ saved'.set => saved'.d = cfg'
<1>1. CASE Off(d, Closed) /\ UNCHANGED saved /\ alone' = quiet
  BY <1>1 DEF Off
<1>2. CASE Start(d, Closed, quiet)
  <2>1. PICK host \in Hosts :
          \/ cfg' = d /\ UNCHANGED saved /\ alone' = quiet
          \/ SaveRouted(d, Routed(d, host), quiet) /\ cfg' = Routed(d, host)
    BY <1>2 DEF Start, Off
  <2>2. CASE cfg' = d /\ UNCHANGED saved /\ alone' = quiet
    BY <2>2
  <2>3. ASSUME NEW r, SaveRouted(d, r, quiet), cfg' = r
        PROVE  /\ saved.set => saved'.set
               /\ alone' => quiet
               /\ alone' /\ (saved.set => saved.d = d) /\ saved'.set => saved'.d = cfg'
    BY <2>3, SomeIsSet DEF SaveRouted
  <2> QED
    BY <2>1, <2>2, <2>3
<1> QED
  BY <1>1, <1>2 DEF Enforce

LEMMA SettingStep == Inv /\ SettingInv /\ [DHCPNext]_dhcpVars => SettingInv'
<1> SUFFICES ASSUME Inv, SettingInv, [DHCPNext]_dhcpVars PROVE SettingInv'
  OBVIOUS
<1> USE DEF SettingInv, Ahead, Nobody
<1>1. admin \in [Admins -> [set : BOOLEAN, d : Config]] /\ saved \in [set : BOOLEAN, d : Config]
  BY DEF Inv, SettingsOK
<1>2. CASE UNCHANGED <<up, saved, cfg, admin, alone>>
  BY <1>2
<1>3. CASE Die
  BY <1>3, NoConfigIsUnset DEF Die
<1>4. CASE StartDHCP
  <2> DEFINE d == IF saved.set THEN saved.d ELSE FileConfig
  <2>1. saved.set => saved.d = d
    OBVIOUS
  <2>2. Enforce(d, TRUE)
    BY <1>4 DEF StartDHCP
  <2> HIDE DEF d
  <2>3. (saved.set => saved'.set) /\ (alone' /\ saved'.set => saved'.d = cfg')
    BY <2>1, <2>2, EnforceSaves
  <2> QED
    BY <1>4, <2>3 DEF StartDHCP
<1>5. ASSUME NEW a \in Admins, ApplySave(a) PROVE SettingInv'
  <2>1. PICK v : saved' = Some(v) /\ admin' = [admin EXCEPT ![a] = Some(v)]
    BY <1>5 DEF ApplySave
  <2>2. /\ admin'[a] = Some(v) /\ \A b \in Admins \ {a} : admin'[b] = admin[b]
        /\ saved'.set = TRUE /\ admin'[a].set = TRUE /\ saved'.d = admin'[a].d
    BY <1>1, <2>1, SomeIsSet
  <2>3. up /\ up' /\ alone' = Nobody({a})
    BY <1>5 DEF ApplySave
  <2> QED
    BY <2>2, <2>3
<1>6. ASSUME NEW a \in Admins, ApplySwap(a) PROVE SettingInv'
  <2> DEFINE d == admin[a].d
  <2>1. /\ admin[a].set /\ admin'[a] = NoConfig /\ \A b \in Admins \ {a} : admin'[b] = admin[b]
        /\ up' = up
    BY <1>1, <1>6 DEF ApplySwap
  <2>2. up /\ saved.set /\ (alone => saved.d = d /\ Nobody({a}))
    BY <2>1
  <2>3. Enforce(d, alone)
    BY <1>6 DEF ApplySwap
  <2> HIDE DEF d
  <2>4. saved'.set
    BY <2>2, <2>3, EnforceSaves
  <2>5. alone' => alone /\ saved'.d = cfg'
    BY <2>2, <2>3, <2>4, EnforceSaves
  <2> QED
    BY <2>1, <2>2, <2>4, <2>5, NoConfigIsUnset
<1>7. ASSUME NEW a \in Admins, Stop(a) PROVE SettingInv'
  <2> DEFINE d == [cfg EXCEPT !.enabled = FALSE]
  <2>1. /\ up /\ up' /\ ~admin[a].set /\ UNCHANGED admin /\ cfg' = d
        /\ \/ saved' = Some(d) /\ alone' = Nobody({a})
           \/ alone' = FALSE /\ UNCHANGED saved
    BY <1>7 DEF Stop, Off
  <2> HIDE DEF d
  <2> QED
    BY <2>1, SomeIsSet
<1>8. ASSUME NEW i \in Slots, SocketFails(i) \/ ServeEnds(i) \/ \E m \in MACs : Answer(i, m)
      PROVE SettingInv'
  BY <1>2, <1>8 DEF SocketFails, ServeEnds, Answer
<1> QED
  BY <1>2, <1>3, <1>4, <1>5, <1>6, <1>7, <1>8 DEF DHCPNext, dhcpVars

\* However requests, failures and restarts of the control plane come one after the other,
\* the next start brings back what is in force, router replaced or not, as long as the
\* database saves what it is given.
THEOREM AlwaysSavedIsApplied == DHCPSpec => []SavedIsApplied
<1>1. DHCPInit => SettingInv
  BY NoConfigIsUnset DEF DHCPInit, SettingInv, Nobody
<1>2. SettingInv => SavedIsApplied
  BY DEF SettingInv, SavedIsApplied, Nobody, Ahead
<1> QED
  BY <1>1, <1>2, SettingStep, DHCPInvariant, PTL DEF DHCPSpec

-----------------------------------------------------------------------------
(* The lease pool.                                                         *)

\* A search through addresses finds the lowest there is.
LEMMA LowestIsThere ==
  ASSUME NEW S \in SUBSET Nat, S # {}
  PROVE  Lowest(S) \in S
<1>1. PICK a \in S : \A b \in S : <<b, a>> \notin OpToRel(<, Nat)
  BY NatLessThanWellFounded, WFMin
<1>2. \A b \in S : ~(b < a)
  BY <1>1, Zenon DEF OpToRel
<1>3. \A b \in S : a <= b
  BY <1>2
<1> QED
  BY <1>3 DEF Lowest

PoolOK(s) ==
  /\ s.d \in Config /\ s.leases \in [MACs -> Addr \cup {NoAddr}]
  /\ \A m, n \in MACs : m # n /\ s.leases[m] # NoAddr => s.leases[m] # s.leases[n]
  /\ s.d.start <= s.d.end =>
       \A m \in MACs : s.leases[m] # NoAddr => s.leases[m] \in s.d.start .. s.d.end \/ Wrapped(s)

LastOK(s) ==
  s.last.ip # NoAddr =>
    /\ s.d.start <= s.d.end => s.last.ip \in s.d.start .. s.d.end \/ Wrapped(s)
    /\ (\E m \in MACs \ {s.last.mac} : s.leases[m] = s.last.ip) => Full(s)

PoolInv == \A i \in Slots : PoolOK(servers[i]) /\ LastOK(servers[i])

\* A first answer of a pool that is not exhausted is an address nobody has.
LEMMA FirstFreeIsFree ==
  ASSUME NEW d \in Config, NEW leases \in [MACs -> Addr \cup {NoAddr}], ~Exhausted(d, leases)
  PROVE  /\ FirstFree(d, leases) \in Addr \ Leased(leases)
         /\ FirstFree(d, leases) \in d.start .. d.end \/ (d.end = Top /\ Free(d, leases) = {})
<1>1. d.start \in Addr /\ d.end \in Addr /\ Addr \subseteq Nat
  BY TopIsNat DEF Config, Addr, Unspecified
<1>2. CASE Free(d, leases) # {}
  <2>1. Free(d, leases) \in SUBSET Nat /\ Free(d, leases) \subseteq Addr \ Leased(leases)
        /\ Free(d, leases) \subseteq d.start .. d.end
    BY <1>1, TopIsNat DEF Free, Addr, Unspecified
  <2> QED
    BY <1>2, <2>1, LowestIsThere DEF FirstFree
<1>3. CASE Free(d, leases) = {}
  <2>1. d.end = Top /\ ~(Addr \subseteq Leased(leases))
    BY <1>3 DEF Exhausted
  <2>2. Addr \ Leased(leases) \in SUBSET Nat /\ Addr \ Leased(leases) # {}
    BY <1>1, <2>1
  <2>3. FirstFree(d, leases) = Lowest(Addr \ Leased(leases))
    BY <1>3 DEF FirstFree
  <2>4. Lowest(Addr \ Leased(leases)) \in Addr \ Leased(leases)
    BY <2>2, LowestIsThere
  <2> QED
    BY <1>3, <2>1, <2>3, <2>4
<1> QED
  BY <1>2, <1>3

LEMMA NewServerOK ==
  ASSUME NEW s, s.d \in Config, s.leases = [m \in MACs |-> NoAddr], s.last = NoAnswer
  PROVE  PoolOK(s) /\ LastOK(s)
BY DEF PoolOK, LastOK, NoAnswer

LEMMA ShutOK == ASSUME NEW s PROVE PoolOK(Shut(s)) /\ LastOK(Shut(s))
<1>1. /\ Shut(s).d = FileConfig /\ Shut(s).leases = [m \in MACs |-> NoAddr]
      /\ Shut(s).last = NoAnswer
  BY DEF Shut, NoServer
<1> QED
  BY <1>1, NewServerOK, ConfigsAreOfType

LEMMA NoServersOK == \A i \in Slots : PoolOK(NoServers[i]) /\ LastOK(NoServers[i])
<1>1. NoServer.d = FileConfig /\ NoServer.leases = [m \in MACs |-> NoAddr] /\ NoServer.last = NoAnswer
  BY DEF NoServer
<1> QED
  BY <1>1, NewServerOK, ConfigsAreOfType DEF NoServers

LEMMA ClosedOK ==
  ASSUME Inv, PoolInv PROVE \A i \in Slots : PoolOK(Closed[i]) /\ LastOK(Closed[i])
BY ShutOK DEF Inv, ServersOK, PoolInv, Closed

LEMMA StartOK ==
  ASSUME NEW d \in Config, NEW before, DOMAIN before = Slots,
         \A i \in Slots : PoolOK(before[i]) /\ LastOK(before[i]),
         Off(d, before) \/ \E quiet : Start(d, before, quiet)
  PROVE  PoolInv'
<1>1. CASE servers' = before
  BY <1>1 DEF PoolInv
<1>2. CASE servers' # before
  <2>1. PICK host \in Hosts, i \in Slots :
          servers' = [before EXCEPT ![i] =
            [NoServer EXCEPT !.d = Routed(d, host), !.open = TRUE, !.serving = TRUE]]
    BY <1>2 DEF Start, Off
  <2> DEFINE new == [NoServer EXCEPT !.d = Routed(d, host), !.open = TRUE, !.serving = TRUE]
  <2>2. new.d = Routed(d, host) /\ new.leases = [m \in MACs |-> NoAddr] /\ new.last = NoAnswer
    BY DEF NoServer
  <2> HIDE DEF new
  <2>3. PoolOK(new) /\ LastOK(new)
    BY <2>2, RoutedIsOnLink, NewServerOK
  <2>4. \A j \in Slots : servers'[j] = IF j = i THEN new ELSE before[j]
    BY <2>1 DEF new
  <2> QED
    BY <2>3, <2>4 DEF PoolInv
<1> QED
  BY <1>1, <1>2

\* A lease is found again, given out anew, or, the pool being full, not remembered.
LEMMA AnswerOK ==
  ASSUME Inv, PoolInv, NEW i \in Slots, NEW m \in MACs, Answer(i, m) PROVE PoolInv'
<1> DEFINE s == servers[i]
           ip == Assign(s.d, s.leases, m)
           full == Exhausted(s.d, s.leases)
           lease == IF full THEN s.leases[m] ELSE ip
           t == servers'[i]
<1>1. PoolOK(s)
  BY DEF PoolInv
<1>2. s.d \in Config /\ s.leases \in [MACs -> Addr \cup {NoAddr}] /\ NoAddr \notin Addr
      /\ s.d.start \in Addr
  BY <1>1, TopIsNat DEF PoolOK, Config, Addr, Unspecified, NoAddr
<1>3. /\ \A j \in Slots \ {i} : servers'[j] = servers[j]
      /\ t.d = s.d /\ t.last = [mac |-> m, ip |-> ip] /\ t.leases = [s.leases EXCEPT ![m] = lease]
  BY DEF Answer, Inv, ServersOK, Fields
<1>4. Leased(s.leases) = {s.leases[n] : n \in MACs} \ {NoAddr}
  BY DEF Leased
<1>5. /\ s.leases[m] # NoAddr => ip = s.leases[m]
      /\ s.leases[m] = NoAddr /\ ~full => ip = FirstFree(s.d, s.leases)
      /\ s.leases[m] = NoAddr /\ full => ip = s.d.start
  BY DEF Assign
<1>6. ASSUME ~full
      PROVE  /\ FirstFree(s.d, s.leases) \in Addr \ Leased(s.leases)
             /\ FirstFree(s.d, s.leases) \in s.d.start .. s.d.end \/ Wrapped(s)
  <2>1. FirstFree(s.d, s.leases) \in Addr \ Leased(s.leases)
    BY <1>2, <1>6, FirstFreeIsFree
  <2>2. FirstFree(s.d, s.leases) \in s.d.start .. s.d.end \/ (s.d.end = Top /\ Free(s.d, s.leases) = {})
    BY <1>2, <1>6, FirstFreeIsFree
  <2>3. Free(s.d, s.leases) = {} => Full(s)
    BY DEF Free, Full
  <2> QED
    BY <2>1, <2>2, <2>3 DEF Wrapped
<1>7. full => s.d.start .. s.d.end \subseteq Leased(s.leases)
  BY DEF Exhausted, Free
<1>8. s.d.start <= s.d.end => s.d.start \in s.d.start .. s.d.end
  BY <1>2, TopIsNat DEF Config, Addr, Unspecified
<1> HIDE DEF s, ip, full, t
<1>9. CASE full \/ s.leases[m] # NoAddr
  <2>1. t.leases = s.leases
    BY <1>2, <1>3, <1>5, <1>9
  <2>2. PoolOK(t)
    BY <1>1, <1>3, <2>1 DEF PoolOK, Wrapped, Full
  <2>3. LastOK(t)
    <3>1. t.d.start <= t.d.end => ip \in t.d.start .. t.d.end \/ Wrapped(t)
      BY <1>1, <1>3, <1>5, <1>8, <1>9, <2>1 DEF PoolOK, Wrapped, Full
    <3>2. ASSUME NEW n \in MACs \ {m}, t.leases[n] = ip, ip # NoAddr PROVE Full(t)
      BY <1>1, <1>3, <1>5, <1>7, <1>9, <2>1, <3>2 DEF PoolOK, Full
    <3> QED
      BY <1>3, <3>1, <3>2 DEF LastOK
  <2> QED
    BY <1>3, <2>2, <2>3 DEF PoolInv, t
<1>10. CASE ~full /\ s.leases[m] = NoAddr
  <2>1. /\ ip \in Addr /\ ip # NoAddr /\ \A n \in MACs : s.leases[n] # ip
        /\ ip \in s.d.start .. s.d.end \/ Wrapped(s)
    <3>1. ip = FirstFree(s.d, s.leases)
      BY <1>5, <1>10
    <3>2. ip \in Addr \ Leased(s.leases) /\ (ip \in s.d.start .. s.d.end \/ Wrapped(s))
      BY <1>6, <1>10, <3>1, Zenon
    <3>3. ip # NoAddr
      BY <1>2, <3>2
    <3>4. ASSUME NEW n \in MACs, s.leases[n] = ip PROVE FALSE
      <4>1. ip \in Leased(s.leases)
        BY <1>4, <3>3, <3>4
      <4> QED
        BY <3>2, <4>1
    <3> QED
      BY <3>2, <3>3, <3>4
  <2>2. /\ t.leases \in [MACs -> Addr \cup {NoAddr}] /\ t.leases[m] = ip
        /\ \A n \in MACs \ {m} : t.leases[n] = s.leases[n]
    BY <1>2, <1>3, <1>10, <2>1
  <2>3. Wrapped(s) => Wrapped(t)
    <3>1. Leased(s.leases) \subseteq Leased(t.leases)
      BY <1>10, <2>2 DEF Leased
    <3> QED
      BY <1>3, <3>1 DEF Wrapped, Full
  <2>4. PoolOK(t)
    BY <1>1, <1>3, <2>1, <2>2, <2>3 DEF PoolOK
  <2>5. LastOK(t)
    BY <1>3, <2>1, <2>2, <2>3 DEF LastOK
  <2> QED
    BY <1>3, <2>4, <2>5 DEF PoolInv, t
<1> QED
  BY <1>9, <1>10

LEMMA PoolStep == Inv /\ PoolInv /\ [DHCPNext]_dhcpVars => PoolInv'
<1> SUFFICES ASSUME Inv, PoolInv, [DHCPNext]_dhcpVars PROVE PoolInv'
  OBVIOUS
<1>1. CASE UNCHANGED servers
  BY <1>1 DEF PoolInv
<1>2. CASE Die
  BY <1>2, NoServersOK DEF Die, Off, PoolInv
<1>3. ASSUME NEW d \in Config, Off(d, Closed) \/ \E quiet : Start(d, Closed, quiet) PROVE PoolInv'
  BY <1>3, ClosedOK, ClosedIsShut, StartOK DEF AllShut
<1>4. CASE StartDHCP
  <2>1. (IF saved.set THEN saved.d ELSE FileConfig) \in Config
    BY ConfigsAreOfType DEF Inv, SettingsOK
  <2> QED
    BY <1>3, <1>4, <2>1 DEF StartDHCP, Enforce
<1>5. ASSUME NEW a \in Admins, ApplySave(a) \/ ApplySwap(a) \/ Stop(a) PROVE PoolInv'
  <2>1. admin[a].d \in Config /\ [cfg EXCEPT !.enabled = FALSE] \in Config
    BY DisabledType DEF Inv, SettingsOK
  <2> QED
    BY <1>1, <1>3, <1>5, <2>1 DEF ApplySave, ApplySwap, Stop, Enforce
<1>6. ASSUME NEW i \in Slots, SocketFails(i) PROVE PoolInv'
  BY <1>6, ShutOK DEF SocketFails, Inv, ServersOK, PoolInv
<1>7. ASSUME NEW i \in Slots, ServeEnds(i) PROVE PoolInv'
  <2>1. \A j \in Slots : /\ servers'[j].d = servers[j].d /\ servers'[j].last = servers[j].last
                         /\ servers'[j].leases = servers[j].leases
    BY <1>7 DEF ServeEnds, Inv, ServersOK, Fields
  <2> QED
    BY <2>1 DEF PoolInv, PoolOK, LastOK, Full, Wrapped
<1> QED
  BY <1>1, <1>2, <1>4, <1>5, <1>6, <1>7, AnswerOK DEF DHCPNext, dhcpVars

\* In every pool, of any size, two clients get one address only when all are taken, and
\* nobody one from outside it but as AddressesOwn says.
THEOREM AlwaysAddressesOwn == DHCPSpec => []AddressesOwn
<1>1. DHCPInit => PoolInv
  BY NoServersOK DEF DHCPInit, PoolInv
<1>2. PoolInv => AddressesOwn
  BY DEF PoolInv, LastOK, AddressesOwn
<1> QED
  BY <1>1, <1>2, PoolStep, DHCPInvariant, PTL DEF DHCPSpec
===============================================================================
