---------------------------- MODULE ProvisionProofs ----------------------------
(***************************************************************************)
(* Proofs about Provision: for any systems, and any number of commands and  *)
(* failures.                                                                *)
(***************************************************************************)
EXTENDS Provision, TLAPS

\* What does not change, and what a command has begun with.
Given ==
  /\ machine.release \in Releases /\ machine.swarm \in {"no", "master", "agent"} /\ machine.vbox \in BOOLEAN
  /\ began.on \in BOOLEAN /\ began.old \in BOOLEAN
  /\ os # "none" => CompatibleWithHost(os, machine.release)
  /\ running \/ last = "ok" => os \in provisioners /\ cmd # "none" /\ cmds >= 1
  /\ running => last = "running"
  /\ ca <= faults + 1 /\ copied <= ca
  /\ running /\ guest.boot = "down" => rebooted
  /\ guest.boot # "no" \/ rebooted => os = "rancheros"

\* Files are replaced by newer ones only, and the daemon has read the ones that are there or
\* older ones.  If it has the newest certificate, the files are whole.
Good(g, s, c) ==
  /\ s.ca <= c /\ g.ca <= c /\ g.cert.ca <= s.ca /\ g.cert.no <= s.no
  /\ g.daemon.ca <= g.ca /\ g.daemon.cert.ca <= g.cert.ca /\ g.daemon.cert.no <= g.cert.no
  /\ g.loaded => g.conf
  /\ g.daemon.tls => g.daemon.up /\ g.conf
  /\ g.docker = "none" => ~g.daemon.up
  /\ g.daemon.tls /\ g.daemon.cert.no = s.no => ~Torn(g) /\ g.cert.no = s.no

\* Nothing has disturbed the command that runs, or that has succeeded.
Undisturbed == clean /\ (running \/ last = "ok")

\* Docker has been stopped only with a new certificate in the store.
Unserved ==
  running => \A k \in 0..Len(Steps) : LastAuth(Steps, k) =>
    /\ at <= k + 4 => guest.cert.no < cmds
    /\ at > k + 3 => server.no = cmds

\* How far ConfigureAuth has come in a command that nothing disturbs: on this side, and on the
\* guest unless it was down.
OnGuest(k) ==
  /\ at \in k + 5..k + 11 => ~guest.daemon.up
  /\ at > k + 6 => guest.ca = ca
  /\ at > k + 7 => guest.cert = server
  /\ at > k + 8 => guest.key = cmds
  /\ at > k + 10 => guest.conf
  /\ at > k + 11 =>
       /\ guest.docker # "none"
       /\ guest.boot = "down" \/ guest.daemon = [up |-> TRUE, tls |-> TRUE, ca |-> ca, cert |-> server]

Auth(k) ==
  /\ at > k + 2 => copied = ca
  /\ at > k + 3 => server = [no |-> cmds, ca |-> ca, master |-> machine.swarm = "master" /\ cmd # "regenerate"]
  /\ ~rebooted => OnGuest(k)

\* The files are of this CA.
FilesCurrent == guest.conf /\ guest.ca = ca /\ guest.cert.ca = ca

\* Docker has been restarted, or starts with the guest.
Restarted ==
  \/ rebooted /\ began.torn /\ machine.ssh = "native"
  \/ guest.docker # "none" /\ ~Torn(guest) /\ (guest.boot = "down" \/ Trusted(guest))

Served ==
  Undisturbed =>
    /\ \A k \in 0..Len(Steps) : LastAuth(Steps, k) => Auth(k)
    /\ \A i \in 1..at - 1 : i <= Len(Steps) /\ Steps[i] = "version" =>
         FilesCurrent /\ (Restarts(Steps) => guest.docker # "none")
    /\ Restarts(Steps) => (guest.conf /\ Torn(guest) => began.torn)
    /\ Restarts(Steps) /\ at > Len(Steps) => Restarted

Ended == last = "ok" /\ clean => at > Len(Steps)

IInv == TypeOK /\ Given /\ Good(guest, server, ca) /\ Unserved /\ Served /\ Ended

--------------------------------------------------------------------------------
(* The guest.                                                               *)

LEMMA Fields ==
  ASSUME NEW g \in Guests
  PROVE  /\ g.on \in BOOLEAN /\ g.boot \in {"no", "told", "down"} /\ g.iso \in BOOLEAN /\ g.docker \in {"none", "old", "ce"} /\ g.dir \in BOOLEAN
         /\ g.ca \in Nat /\ g.ca <= MaxFaults + 1 /\ g.cert \in Certs /\ g.key \in 0..MaxCommands
         /\ g.conf \in BOOLEAN /\ g.loaded \in BOOLEAN /\ g.containers \subseteq {"master", "agent"}
         /\ g.daemon \in Daemons
  BY BoundsAssumption DEF Guests

LEMMA CertFields ==
  ASSUME NEW c \in Certs
  PROVE  c.no \in Nat /\ c.no <= MaxCommands /\ c.ca \in Nat /\ c.ca <= MaxFaults + 1 /\ c.master \in BOOLEAN
  BY BoundsAssumption DEF Certs

LEMMA DaemonFields ==
  ASSUME NEW d \in Daemons
  PROVE  d.up \in BOOLEAN /\ d.tls \in BOOLEAN /\ d.ca \in Nat /\ d.cert \in Certs
  BY BoundsAssumption DEF Daemons

LEMMA DownTyped == NoCert \in Certs /\ Down \in Daemons
  BY BoundsAssumption DEF NoCert, Down, Certs, Daemons

\* Reading the options anew.
LEMMA ReloadGood ==
  ASSUME NEW g \in Guests, NEW s \in Certs, NEW c \in Nat, Good(g, s, c)
  PROVE  /\ Reload(g) \in Guests /\ Good(Reload(g), s, c) /\ Reload(g).daemon = g.daemon
         /\ Reload(g).loaded = g.conf /\ Reload(g).conf = g.conf /\ Reload(g).ca = g.ca
         /\ Reload(g).cert = g.cert /\ Reload(g).key = g.key /\ Reload(g).docker = g.docker
         /\ Reload(g).on = g.on
  BY DEF Reload, Guests, Good, Torn

\* Stopping the daemon.
LEMMA StoppedGood ==
  ASSUME NEW g \in Guests, NEW s \in Certs, NEW c \in Nat, Good(g, s, c)
  PROVE  /\ Stopped(g) \in Guests /\ Good(Stopped(g), s, c) /\ Stopped(g).daemon = Down
         /\ Stopped(g).conf = g.conf /\ Stopped(g).ca = g.ca /\ Stopped(g).cert = g.cert
         /\ Stopped(g).key = g.key /\ Stopped(g).docker = g.docker /\ Stopped(g).on = g.on
<1>1. /\ Stopped(g) \in Guests /\ Stopped(g).daemon = Down
      /\ Stopped(g).conf = g.conf /\ Stopped(g).ca = g.ca /\ Stopped(g).cert = g.cert
      /\ Stopped(g).key = g.key /\ Stopped(g).docker = g.docker /\ Stopped(g).on = g.on /\ Stopped(g).loaded = g.loaded
  BY DownTyped DEF Stopped, Guests
<1>2. g.ca \in Nat /\ g.cert.ca \in Nat /\ g.cert.no \in Nat
  BY Fields, CertFields
<1> QED
  BY <1>1, <1>2 DEF Good, Down, NoCert

\* Starting it.
LEMMA StartedGood ==
  ASSUME NEW g \in Guests, NEW s \in Certs, NEW c \in Nat, Good(g, s, c), CanStart(g)
  PROVE  /\ Started(g) \in Guests /\ Good(Started(g), s, c)
         /\ Started(g).daemon.up /\ Started(g).daemon.tls = g.loaded
         /\ g.loaded => Started(g).daemon = [up |-> TRUE, tls |-> TRUE, ca |-> g.ca, cert |-> g.cert]
         /\ Started(g).conf = g.conf /\ Started(g).ca = g.ca /\ Started(g).cert = g.cert
         /\ Started(g).key = g.key /\ Started(g).docker = g.docker /\ Started(g).on = g.on
<1> DEFINE d == [up |-> TRUE, tls |-> g.loaded, ca |-> IF g.loaded THEN g.ca ELSE 0,
                 cert |-> IF g.loaded THEN g.cert ELSE NoCert]
<1>0. g.ca \in Nat /\ g.cert.ca \in Nat /\ g.cert.no \in Nat /\ g.loaded \in BOOLEAN
  BY Fields, CertFields
<1>1. d \in Daemons
  BY Fields, DownTyped, BoundsAssumption DEF Daemons
<1>2. /\ Started(g) \in Guests /\ Started(g).daemon = d
      /\ Started(g).conf = g.conf /\ Started(g).ca = g.ca /\ Started(g).cert = g.cert
      /\ Started(g).key = g.key /\ Started(g).docker = g.docker /\ Started(g).on = g.on /\ Started(g).loaded = g.loaded
  BY <1>1 DEF Started, Guests
<1>3. Good(Started(g), s, c)
  BY <1>0, <1>2 DEF Good, CanStart, Torn, NoCert
<1>4. d.up /\ d.tls = g.loaded /\ (g.loaded => d = [up |-> TRUE, tls |-> TRUE, ca |-> g.ca, cert |-> g.cert])
  <2>1. CASE g.loaded
    BY <1>0, <2>1
  <2>2. CASE ~g.loaded
    BY <1>0, <2>2
  <2> QED
    BY <2>1, <2>2
<1> HIDE DEF d
<1> QED
  BY <1>2, <1>3, <1>4

LEMMA IfPossibleGood ==
  ASSUME NEW g \in Guests, NEW s \in Certs, NEW c \in Nat, Good(g, s, c)
  PROVE  LET n == StartedIfPossible(g)
         IN /\ n \in Guests /\ Good(n, s, c)
            /\ n.conf = g.conf /\ n.ca = g.ca /\ n.cert = g.cert /\ n.key = g.key /\ n.docker = g.docker /\ n.on = g.on
            /\ n.daemon.up = CanStart(g)
            /\ CanStart(g) /\ g.loaded => n.daemon = [up |-> TRUE, tls |-> TRUE, ca |-> g.ca, cert |-> g.cert]
            /\ n.daemon.cert \in {g.cert, NoCert}
<1>1. CASE CanStart(g)
  <2>1. StartedIfPossible(g) = Started(g)
    BY <1>1 DEF StartedIfPossible
  <2>2. Started(g).daemon.cert \in {g.cert, NoCert}
    BY DEF Started, Guests
  <2> QED
    BY <1>1, <2>1, <2>2, StartedGood
<1>2. CASE ~CanStart(g)
  <2>1. StartedIfPossible(g) = Stopped(g)
    BY <1>2 DEF StartedIfPossible
  <2>2. Down.cert = NoCert /\ Down.up = FALSE
    BY DEF Down
  <2>3. CanStart(g) = FALSE
    BY <1>2 DEF CanStart
  <2> QED
    BY <1>2, <2>1, <2>2, <2>3, StoppedGood
<1> QED
  BY <1>1, <1>2

\* Switching it on or off, and rebooting it.
LEMMA PoweredGood ==
  ASSUME NEW g \in Guests, NEW s \in Certs, NEW c \in Nat, Good(g, s, c),
         NEW p \in BOOLEAN, NEW b \in {"no", "told", "down"}
  PROVE  LET n == [g EXCEPT !.on = p, !.boot = b]
         IN /\ n \in Guests /\ Good(n, s, c) /\ n.conf = g.conf /\ n.ca = g.ca /\ n.cert = g.cert
            /\ n.key = g.key /\ n.docker = g.docker /\ n.daemon = g.daemon /\ n.on = p /\ n.boot = b
            /\ n.dir = g.dir /\ n.iso = g.iso /\ n.containers = g.containers /\ n.loaded = g.loaded
<1> DEFINE n == [g EXCEPT !.on = p, !.boot = b]
<1>1. /\ n \in Guests /\ n.conf = g.conf /\ n.ca = g.ca /\ n.cert = g.cert
      /\ n.key = g.key /\ n.docker = g.docker /\ n.daemon = g.daemon /\ n.on = p /\ n.boot = b
      /\ n.dir = g.dir /\ n.iso = g.iso /\ n.containers = g.containers /\ n.loaded = g.loaded
  BY DEF Guests
<1> HIDE DEF n
<1>2. Good(n, s, c)
  BY <1>1 DEF Good, Torn
<1> QED
  BY <1>1, <1>2 DEF n

LEMMA BootGood ==
  ASSUME NEW g \in Guests, NEW s \in Certs, NEW c \in Nat, Good(g, s, c), NEW b \in {"no", "told", "down"}
  PROVE  LET n == [g EXCEPT !.boot = b]
         IN /\ n \in Guests /\ Good(n, s, c) /\ n.conf = g.conf /\ n.ca = g.ca /\ n.cert = g.cert
            /\ n.key = g.key /\ n.docker = g.docker /\ n.daemon = g.daemon /\ n.on = g.on /\ n.boot = b
            /\ n.dir = g.dir /\ n.iso = g.iso /\ n.containers = g.containers /\ n.loaded = g.loaded
<1> DEFINE n == [g EXCEPT !.boot = b]
<1>1. /\ n \in Guests /\ n.conf = g.conf /\ n.ca = g.ca /\ n.cert = g.cert
      /\ n.key = g.key /\ n.docker = g.docker /\ n.daemon = g.daemon /\ n.on = g.on /\ n.boot = b
      /\ n.dir = g.dir /\ n.iso = g.iso /\ n.containers = g.containers /\ n.loaded = g.loaded
  BY DEF Guests
<1> HIDE DEF n
<1>2. Good(n, s, c)
  BY <1>1 DEF Good, Torn
<1> QED
  BY <1>1, <1>2 DEF n

\* What a step does to the files.
Files(n) ==
  /\ n.ca = IF step = "uploadca" THEN ca ELSE guest.ca
  /\ n.cert = IF step = "uploadcert" THEN server ELSE guest.cert
  /\ n.key = IF step = "uploadkey" THEN server.no ELSE guest.key
  /\ n.conf = (step = "options" \/ guest.conf)

\* The steps that start the daemon or stop it.
Switches == {"install", "start", "restart", "responding", "stop", "purge", "poweroff", "poweron"}

LEMMA EffectGood ==
  ASSUME TypeOK, Good(guest, server, ca)
  PROVE  /\ Effect \in Guests /\ Good(Effect, server, ca) /\ Files(Effect)
         /\ step \notin Switches => Effect.daemon = guest.daemon
         /\ step = "stop" => Effect.daemon = Down
         /\ step \in {"start", "restart", "responding", "install"} /\ guest.daemon.up /\ Works => Effect.daemon.up
         /\ step = "poweron" /\ guest.docker # "none" /\ ~Torn(guest) => Effect.daemon.up
         /\ step = "restart" /\ Works /\ guest.conf =>
              Effect.daemon = [up |-> TRUE, tls |-> TRUE, ca |-> guest.ca, cert |-> guest.cert]
         /\ step = "start" /\ Works /\ guest.conf /\ ~guest.daemon.up /\ ~Torn(guest) =>
              Effect.daemon = [up |-> TRUE, tls |-> TRUE, ca |-> guest.ca, cert |-> guest.cert]
         /\ step = "purge" => Effect.docker = "none"
         /\ step = "poweroff" => ~Effect.on
<1>0. /\ guest \in Guests /\ server \in Certs /\ ca \in Nat /\ ca \in 1..MaxFaults + 1 /\ server.no \in 0..MaxCommands
      /\ server.ca \in Nat /\ guest.ca \in Nat /\ guest.cert.ca \in Nat /\ guest.cert.no \in Nat
      /\ guest.key \in Nat /\ guest.conf \in BOOLEAN /\ guest.cert \in Certs /\ guest.daemon \in Daemons
      /\ guest.daemon.cert.no \in Nat /\ guest.daemon.cert.ca \in Nat /\ guest.daemon.ca \in Nat
  <2>1. guest \in Guests /\ server \in Certs /\ ca \in 1..MaxFaults + 1
    BY DEF TypeOK
  <2> QED
    BY <2>1, Fields, CertFields, DaemonFields, BoundsAssumption
<1> DEFINE r == Reload(guest)
<1>1. /\ r \in Guests /\ Good(r, server, ca) /\ r.daemon = guest.daemon /\ r.loaded = guest.conf /\ r.conf = guest.conf
      /\ r.ca = guest.ca /\ r.cert = guest.cert /\ r.key = guest.key /\ r.docker = guest.docker /\ r.on = guest.on
  BY <1>0, ReloadGood
<1>2. Torn(r) = Torn(guest)
  BY <1>1 DEF Torn
<1>3. Files(guest) \/ step \in {"uploadca", "uploadcert", "uploadkey", "options"}
  BY <1>0 DEF Files
<1>4. CASE step = "install"
  <2>1. Effect = Installed(guest) /\ Files(guest)
    BY <1>3, <1>4 DEF Effect
  <2>2. CASE guest.docker # "none"
    BY <1>0, <1>4, <2>1, <2>2 DEF Installed
  <2>3. CASE guest.docker = "none"
    <3> DEFINE d == [guest EXCEPT !.docker = "ce"]
    <3>1. /\ d \in Guests /\ Good(d, server, ca) /\ d.conf = guest.conf /\ d.ca = guest.ca /\ d.cert = guest.cert
          /\ d.key = guest.key
      BY <1>0, <2>3 DEF Guests, Good, Torn
    <3>2. /\ Reload(d) \in Guests /\ Good(Reload(d), server, ca) /\ Reload(d).conf = guest.conf /\ Reload(d).ca = guest.ca
          /\ Reload(d).cert = guest.cert /\ Reload(d).key = guest.key
      <4> HIDE DEF d
      <4> QED
        BY <1>0, <3>1, ReloadGood
    <3>3. Effect \in {Reload(d), StartedIfPossible(Reload(d))}
      BY <2>1, <2>3 DEF Installed
    <3>4. ~guest.daemon.up
      BY <2>3 DEF Good
    <3> HIDE DEF d
    <3>5. Effect \in Guests /\ Good(Effect, server, ca) /\ Files(Effect)
      BY <1>0, <2>1, <3>2, <3>3, IfPossibleGood DEF Files
    <3> QED
      BY <1>4, <3>4, <3>5 DEF Switches
  <2> QED
    BY <2>2, <2>3
<1>5. CASE step = "start"
  <2>1. Effect = (IF guest.daemon.up THEN r ELSE StartedIfPossible(r)) /\ Files(guest)
    BY <1>3, <1>5 DEF Effect
  <2>2. CASE guest.daemon.up
    <3>1. Files(r)
      BY <1>1, <2>1 DEF Files
    <3> HIDE DEF r
    <3> QED
      BY <1>1, <1>5, <2>1, <2>2, <3>1 DEF Switches
  <2>3. CASE ~guest.daemon.up
    <3>1. Works /\ guest.conf /\ ~Torn(guest) => CanStart(r) /\ r.loaded
      BY <1>1, <1>2, <1>5, <2>3 DEF Works, CanStart
    <3> HIDE DEF r
    <3>2. Effect \in Guests /\ Good(Effect, server, ca) /\ Files(Effect)
      BY <1>0, <1>1, <2>1, <2>3, IfPossibleGood DEF Files
    <3>3. CanStart(r) /\ r.loaded => Effect.daemon = [up |-> TRUE, tls |-> TRUE, ca |-> guest.ca, cert |-> guest.cert]
      BY <1>0, <1>1, <2>1, <2>3, IfPossibleGood
    <3> QED
      BY <1>5, <2>3, <3>1, <3>2, <3>3 DEF Switches
  <2> QED
    BY <2>2, <2>3
<1>6. CASE step = "restart"
  <2>1. Effect = StartedIfPossible(r) /\ Files(guest) /\ (Works => CanStart(r))
    BY <1>3, <1>6 DEF Effect, Works
  <2> HIDE DEF r
  <2>2. Effect \in Guests /\ Good(Effect, server, ca) /\ Files(Effect) /\ Effect.daemon.up = CanStart(r)
    BY <1>0, <1>1, <2>1, IfPossibleGood DEF Files
  <2>3. CanStart(r) /\ r.loaded => Effect.daemon = [up |-> TRUE, tls |-> TRUE, ca |-> guest.ca, cert |-> guest.cert]
    BY <1>0, <1>1, <2>1, IfPossibleGood
  <2> QED
    BY <1>1, <1>6, <2>1, <2>2, <2>3 DEF Switches
<1>7. CASE step = "responding"
  <2>1. Effect = (IF guest.daemon.up THEN guest ELSE StartedIfPossible(guest)) /\ Files(guest)
    BY <1>3, <1>7 DEF Effect
  <2>2. Effect \in Guests /\ Good(Effect, server, ca) /\ Files(Effect)
    BY <1>0, <2>1, IfPossibleGood DEF Files
  <2> QED
    BY <1>7, <2>1, <2>2 DEF Switches
<1>8. CASE step = "stop"
  <2>1. Effect = Stopped(guest) /\ Files(guest)
    BY <1>3, <1>8 DEF Effect
  <2>2. Effect \in Guests /\ Good(Effect, server, ca) /\ Files(Effect) /\ Effect.daemon = Down
    BY <1>0, <2>1, StoppedGood DEF Files
  <2> QED
    BY <1>8, <2>2 DEF Switches
<1>9. CASE step \in {"uploadca", "uploadcert", "uploadkey", "options"}
  <2>1. Effect \in Guests /\ Effect.daemon = guest.daemon /\ Files(Effect) /\ Effect.loaded = guest.loaded /\ Effect.docker = guest.docker
    <3>1. CASE step = "uploadca"
      <4>1. Effect = [guest EXCEPT !.ca = ca] /\ ca \in 0..MaxFaults + 1
        BY <1>0, <3>1 DEF Effect
      <4> QED
        BY <1>0, <3>1, <4>1 DEF Guests, Files
    <3>2. CASE step = "uploadcert"
      <4>1. Effect = [guest EXCEPT !.cert = server]
        BY <3>2 DEF Effect
      <4> QED
        BY <1>0, <3>2, <4>1 DEF Guests, Files
    <3>3. CASE step = "uploadkey"
      <4>1. Effect = [guest EXCEPT !.key = server.no]
        BY <3>3 DEF Effect
      <4> QED
        BY <1>0, <3>3, <4>1 DEF Guests, Files
    <3>4. CASE step = "options"
      <4>1. Effect = [guest EXCEPT !.conf = TRUE]
        BY <3>4 DEF Effect
      <4> QED
        BY <1>0, <3>4, <4>1 DEF Guests, Files
    <3> QED
      BY <1>9, <3>1, <3>2, <3>3, <3>4
  <2>2. Good(Effect, server, ca)
    BY <1>0, <1>9, <2>1 DEF Good, Files, Torn
  <2> QED
    BY <1>9, <2>1, <2>2 DEF Switches
<1>10. CASE step = "purge"
  <2> DEFINE d == [guest EXCEPT !.docker = "none"]
  <2>1. Effect = Stopped(d) /\ Files(guest)
    BY <1>3, <1>10 DEF Effect
  <2>2. /\ d \in Guests /\ d.conf = guest.conf /\ d.ca = guest.ca /\ d.cert = guest.cert /\ d.key = guest.key
        /\ d.docker = "none" /\ d.loaded = guest.loaded /\ d.daemon = guest.daemon
    BY <1>0 DEF Guests
  <2>3. Stopped(d) = [d EXCEPT !.daemon = Down]
    BY DEF Stopped
  <2> HIDE DEF d
  <2>4. /\ Stopped(d) \in Guests /\ Files(Stopped(d)) /\ Stopped(d).docker = "none" /\ Stopped(d).daemon = Down
        /\ Stopped(d).loaded = guest.loaded
    BY <2>1, <2>2, <2>3, DownTyped DEF Guests, Files
  <2>5. Good(Stopped(d), server, ca)
    BY <1>0, <1>10, <2>4 DEF Good, Down, NoCert, Files
  <2> QED
    BY <1>10, <2>1, <2>4, <2>5 DEF Switches
<1>11. CASE step = "poweroff"
  <2> DEFINE d == [guest EXCEPT !.on = FALSE, !.boot = "no"]
  <2>1. Effect = Stopped(d) /\ Files(guest)
    BY <1>3, <1>11 DEF Effect
  <2>2. /\ d \in Guests /\ Good(d, server, ca) /\ d.conf = guest.conf /\ d.ca = guest.ca /\ d.cert = guest.cert
        /\ d.key = guest.key /\ ~d.on
    BY <1>0, PoweredGood
  <2> HIDE DEF d
  <2>3. Effect \in Guests /\ Good(Effect, server, ca) /\ Files(Effect) /\ ~Effect.on
    BY <1>0, <2>1, <2>2, StoppedGood DEF Files
  <2> QED
    BY <1>11, <2>3 DEF Switches
<1>12. CASE step = "poweron"
  <2> DEFINE d == [guest EXCEPT !.on = TRUE, !.boot = "no"]
  <2>1. Effect = StartedIfPossible(Reload(d)) /\ Files(guest)
    BY <1>3, <1>12 DEF Effect
  <2>2. /\ d \in Guests /\ Good(d, server, ca) /\ d.conf = guest.conf /\ d.ca = guest.ca /\ d.cert = guest.cert
        /\ d.key = guest.key /\ d.docker = guest.docker /\ d.daemon = guest.daemon
    BY <1>0, PoweredGood
  <2> HIDE DEF d
  <2>3. /\ Reload(d) \in Guests /\ Good(Reload(d), server, ca) /\ Reload(d).conf = guest.conf /\ Reload(d).ca = guest.ca
        /\ Reload(d).cert = guest.cert /\ Reload(d).key = guest.key /\ Reload(d).docker = guest.docker
    BY <1>0, <2>2, ReloadGood
  <2>4. /\ Effect \in Guests /\ Good(Effect, server, ca) /\ Files(Effect) /\ Effect.daemon.up = CanStart(Reload(d))
    BY <1>0, <2>1, <2>3, IfPossibleGood DEF Files
  <2>5. guest.docker # "none" /\ ~Torn(guest) => CanStart(Reload(d))
    BY <2>3 DEF CanStart, Torn
  <2> QED
    BY <1>12, <2>4, <2>5 DEF Switches
<1>15. CASE step = "reboot"
  <2>1. Effect \in {guest, [guest EXCEPT !.boot = "told"]} /\ Files(guest)
    BY <1>3, <1>15 DEF Effect
  <2>2. /\ Effect \in Guests /\ Good(Effect, server, ca) /\ Effect.conf = guest.conf /\ Effect.ca = guest.ca
        /\ Effect.cert = guest.cert /\ Effect.key = guest.key /\ Effect.daemon = guest.daemon
    <3> DEFINE n == [guest EXCEPT !.boot = "told"]
    <3>1. /\ n \in Guests /\ Good(n, server, ca) /\ n.conf = guest.conf /\ n.ca = guest.ca
          /\ n.cert = guest.cert /\ n.key = guest.key /\ n.daemon = guest.daemon
      BY <1>0, BootGood
    <3> HIDE DEF n
    <3> QED
      BY <1>0, <2>1, <3>1 DEF n
  <2>3. Files(Effect)
    BY <2>1, <2>2 DEF Files
  <2> QED
    BY <1>15, <2>2, <2>3 DEF Switches
<1>13. CASE step \in {"mkdir", "copyiso", "master", "agent"}
  <2>1. /\ Effect \in Guests /\ Effect.daemon = guest.daemon /\ Effect.loaded = guest.loaded /\ Effect.docker = guest.docker
        /\ Effect.conf = guest.conf /\ Effect.ca = guest.ca /\ Effect.cert = guest.cert /\ Effect.key = guest.key
    BY <1>0, <1>13 DEF Effect, Guests
  <2>2. Good(Effect, server, ca) /\ Files(Effect)
    BY <1>0, <1>13, <2>1 DEF Good, Torn, Files
  <2> QED
    BY <1>13, <2>1, <2>2 DEF Switches
<1>14. CASE step \notin Switches \cup {"uploadca", "uploadcert", "uploadkey", "options", "mkdir", "copyiso", "master", "agent", "reboot"}
  <2>1. Effect = guest
    BY <1>14 DEF Effect, Switches
  <2> QED
    BY <1>0, <1>3, <1>14, <2>1 DEF Switches
<1> QED
  BY <1>4, <1>5, <1>6, <1>7, <1>8, <1>9, <1>10, <1>11, <1>12, <1>13, <1>14, <1>15 DEF Switches

\* No files, or files that fit together.
Whole == ~(guest.conf /\ Torn(guest))

\* What starting and stopping do to the rest of the guest.
Rest(g, n) ==
  /\ n.on = g.on /\ n.boot = g.boot /\ n.iso = g.iso /\ n.docker = g.docker /\ n.containers = g.containers
  /\ g.dir => n.dir

LEMMA RestGood ==
  ASSUME NEW g \in Guests
  PROVE  /\ Reload(g) \in Guests /\ Rest(g, Reload(g)) /\ Reload(g).daemon = g.daemon
         /\ CanStart(Reload(g)) <=> g.docker # "none" /\ ~(g.conf /\ Torn(g))
         /\ Rest(g, StartedIfPossible(g)) /\ StartedIfPossible(g).daemon.up = CanStart(g)
         /\ CanStart(g) => StartedIfPossible(g).dir
<1>1. /\ Reload(g) \in Guests /\ Rest(g, Reload(g)) /\ Reload(g).daemon = g.daemon
  BY DEF Reload, Guests, Rest
<1>2. CanStart(Reload(g)) <=> g.docker # "none" /\ ~(g.conf /\ Torn(g))
  BY DEF Reload, Guests, CanStart, Torn
<1>3. CASE CanStart(g)
  <2>1. StartedIfPossible(g) = Started(g)
    BY <1>3 DEF StartedIfPossible
  <2>2. Rest(g, Started(g)) /\ Started(g).dir /\ Started(g).daemon.up = TRUE
    BY DEF Started, Guests, Rest
  <2>3. CanStart(g) = TRUE
    BY <1>3 DEF CanStart
  <2> QED
    BY <1>1, <1>2, <2>1, <2>2, <2>3
<1>4. CASE ~CanStart(g)
  <2>1. StartedIfPossible(g) = Stopped(g)
    BY <1>4 DEF StartedIfPossible
  <2>2. Rest(g, Stopped(g)) /\ Stopped(g).daemon.up = FALSE
    BY DEF Stopped, Down, Guests, Rest
  <2>3. CanStart(g) = FALSE
    BY <1>4 DEF CanStart
  <2> QED
    BY <1>1, <1>2, <1>4, <2>1, <2>2, <2>3
<1> QED
  BY <1>3, <1>4

\* What a step does to power, engine, directory, containers and daemon.
LEMMA EffectRest ==
  ASSUME TypeOK, Good(guest, server, ca)
  PROVE  /\ guest.on /\ step # "poweroff" => Effect.on
         /\ step = "poweron" => Effect.on
         /\ Effect.boot \in {guest.boot, "no"} \/ (step = "reboot" /\ Effect.boot = "told" /\ guest.on)
         /\ step = "poweroff" => Effect.boot = "no"
         /\ step \in {"start", "restart"} => Effect.iso = guest.iso
         /\ guest.docker # "none" /\ step # "purge" => Effect.docker # "none"
         /\ step = "install" => Effect.docker # "none"
         /\ guest.docker = "none" /\ step # "install" => Effect.docker = "none"
         /\ guest.dir \/ step = "mkdir" => Effect.dir
         /\ Effect.containers = guest.containers \cup (IF step \in {"master", "agent"} THEN {step} ELSE {})
         /\ Effect.daemon.up => guest.daemon.up \/ Effect.dir
         /\ Effect.daemon.up => guest.daemon.up \/ step \in Starts \cup {"install", "poweron"}
         /\ Effect.daemon.up => step \notin {"stop", "purge", "poweroff"}
         /\ step \in {"start", "restart"} /\ guest.docker # "none" /\ Whole => Effect.daemon.up
         /\ step = "responding" /\ Works => Effect.daemon.up
         /\ step \in {"start", "responding"} /\ guest.daemon.up => Effect.daemon.up
         /\ step = "install" /\ os \in Apt /\ guest.docker = "none" /\ Whole => Effect.daemon.up
         /\ step = "install" /\ guest.daemon.up => Effect.daemon.up
<1>0. guest \in Guests /\ guest.daemon.up \in BOOLEAN /\ guest.dir \in BOOLEAN /\ (guest.docker = "none" => ~guest.daemon.up)
  BY Fields, DaemonFields DEF TypeOK, Good
<1> DEFINE r == Reload(guest)
           n == StartedIfPossible(r)
           o == StartedIfPossible(guest)
<1>1. /\ r \in Guests /\ Rest(guest, r) /\ r.daemon = guest.daemon
      /\ CanStart(r) <=> guest.docker # "none" /\ Whole
      /\ Rest(guest, o) /\ o.daemon.up = CanStart(guest) /\ (CanStart(guest) => o.dir)
  BY <1>0, RestGood DEF Whole
<1>2. Rest(r, n) /\ n.daemon.up = CanStart(r) /\ (CanStart(r) => n.dir)
  <2> HIDE DEF r
  <2> QED
    BY <1>1, RestGood
<1>3. Rest(guest, n)
  BY <1>1, <1>2 DEF Rest
<1> HIDE DEF r, n, o
<1>4. CASE step = "install"
  <2>1. Effect = Installed(guest)
    BY <1>4 DEF Effect
  <2>2. CASE guest.docker # "none"
    BY <1>0, <1>4, <2>1, <2>2 DEF Installed, Starts
  <2>3. CASE guest.docker = "none"
    <3> DEFINE d == [guest EXCEPT !.docker = "ce"]
               h == Reload(d)
               u == StartedIfPossible(h)
    <3>1. /\ d \in Guests /\ d.on = guest.on /\ d.boot = guest.boot /\ d.docker = "ce" /\ d.dir = guest.dir /\ d.containers = guest.containers
          /\ d.daemon = guest.daemon /\ d.conf = guest.conf /\ Torn(d) = Torn(guest)
      BY <1>0 DEF Guests, Torn
    <3> HIDE DEF d
    <3>2. h \in Guests /\ Rest(d, h) /\ h.daemon = d.daemon /\ (CanStart(h) <=> Whole)
      BY <3>1, RestGood DEF Whole
    <3> HIDE DEF h
    <3>3. Rest(h, u) /\ u.daemon.up = CanStart(h) /\ (CanStart(h) => u.dir)
      BY <3>2, RestGood
    <3>4. Effect = IF os \in Apt THEN u ELSE h
      BY <2>1, <2>3 DEF Installed, d, h
    <3> HIDE DEF u
    <3> QED
      BY <1>0, <1>4, <2>3, <3>1, <3>2, <3>3, <3>4 DEF Rest, Starts
  <2> QED
    BY <2>2, <2>3
<1>5. CASE step = "start"
  <2>1. Effect = IF guest.daemon.up THEN r ELSE n
    BY <1>5 DEF Effect, r, n
  <2> QED
    BY <1>0, <1>1, <1>2, <1>3, <1>5, <2>1 DEF Rest, Starts
<1>6. CASE step = "restart"
  <2>1. Effect = n
    BY <1>6 DEF Effect, r, n
  <2> QED
    BY <1>0, <1>1, <1>2, <1>3, <1>6, <2>1 DEF Rest, Starts
<1>7. CASE step = "responding"
  <2>1. Effect = IF guest.daemon.up THEN guest ELSE o
    BY <1>7 DEF Effect, o
  <2>2. Works => guest.daemon.up \/ CanStart(guest)
    BY <1>7 DEF Works
  <2> QED
    BY <1>0, <1>1, <1>7, <2>1, <2>2 DEF Rest, Starts
<1>8. CASE step \in {"stop", "purge", "poweroff"}
  <2>1. /\ step = "stop" => Effect = [guest EXCEPT !.daemon = Down]
        /\ step = "purge" => Effect = [[guest EXCEPT !.docker = "none"] EXCEPT !.daemon = Down]
        /\ step = "poweroff" => Effect = [[guest EXCEPT !.on = FALSE, !.boot = "no"] EXCEPT !.daemon = Down]
    BY <1>8 DEF Effect, Stopped
  <2>2. Effect.daemon = Down /\ Down.up = FALSE
    BY <1>0, <1>8, <2>1 DEF Guests, Down
  <2>3. /\ Effect.containers = guest.containers /\ Effect.dir = guest.dir
        /\ step # "poweroff" => Effect.on = guest.on /\ Effect.boot = guest.boot
        /\ step = "poweroff" => Effect.boot = "no"
        /\ step # "purge" => Effect.docker = guest.docker
        /\ step = "purge" => Effect.docker = "none"
    BY <1>0, <1>8, <2>1 DEF Guests
  <2> QED
    BY <1>8, <2>2, <2>3 DEF Starts
<1>9. CASE step = "poweron"
  <2> DEFINE d == [guest EXCEPT !.on = TRUE, !.boot = "no"]
             h == Reload(d)
             u == StartedIfPossible(h)
  <2>1. /\ d \in Guests /\ d.on = TRUE /\ d.boot = "no" /\ d.docker = guest.docker /\ d.dir = guest.dir
        /\ d.containers = guest.containers
    BY <1>0 DEF Guests
  <2> HIDE DEF d
  <2>2. h \in Guests /\ Rest(d, h)
    BY <2>1, RestGood
  <2> HIDE DEF h
  <2>3. Rest(h, u) /\ u.daemon.up = CanStart(h) /\ (CanStart(h) => u.dir)
    BY <2>2, RestGood
  <2>4. Effect = u
    BY <1>9 DEF Effect, u, h, d
  <2> HIDE DEF u
  <2> QED
    BY <1>0, <1>9, <2>1, <2>2, <2>3, <2>4 DEF Rest, Starts
<1>12. CASE step = "reboot"
  <2>1. Effect = IF Reachable(guest) THEN [guest EXCEPT !.boot = "told"] ELSE guest
    BY <1>12 DEF Effect
  <2>2. /\ Effect.on = guest.on /\ Effect.docker = guest.docker /\ Effect.daemon = guest.daemon
        /\ Effect.dir = guest.dir /\ Effect.containers = guest.containers
        /\ Effect.boot = guest.boot \/ (Effect.boot = "told" /\ guest.on)
    BY <1>0, <2>1 DEF Guests, Reachable
  <2> QED
    BY <1>0, <1>12, <2>2 DEF Starts
<1>10. CASE step \in Writes \cup {"mkdir", "copyiso", "master", "agent"}
  <2>1. /\ Effect.on = guest.on /\ Effect.docker = guest.docker /\ Effect.daemon = guest.daemon /\ Effect.boot = guest.boot
        /\ guest.dir \/ step = "mkdir" => Effect.dir
        /\ Effect.containers = guest.containers \cup (IF step \in {"master", "agent"} THEN {step} ELSE {})
    BY <1>0, <1>10 DEF Effect, Guests, Writes
  <2> QED
    BY <1>0, <1>10, <2>1 DEF Starts, Writes
<1>11. CASE step \notin Switches \cup Writes \cup {"mkdir", "copyiso", "master", "agent", "reboot"}
  <2>1. Effect = guest
    BY <1>11 DEF Effect, Switches, Writes
  <2> QED
    BY <1>0, <1>11, <2>1 DEF Starts, Switches
<1> QED
  BY <1>4, <1>5, <1>6, <1>7, <1>8, <1>9, <1>10, <1>11, <1>12 DEF Switches

--------------------------------------------------------------------------------
(* The commands.                                                            *)

\* No system is one of two provisioners.
LEMMA OneCompatible ==
  ASSUME NEW r \in Releases, NEW p \in provisioners, NEW q \in provisioners,
         CompatibleWithHost(p, r), CompatibleWithHost(q, r)
  PROVE  p = q
<1>1. ASSUME NEW x \in provisioners, x \notin {"arch", "coreos"}, CompatibleWithHost(x, r)
      PROVE  /\ r.id \in (provisioners \cup {"ubuntu"}) \ {"arch", "coreos"}
             /\ r.id = x \/ (r.id = "fedora" /\ x = "fedora_coreos") \/ (r.id = "ubuntu" /\ x \in {"ubuntu_systemd", "ubuntu_upstart"})
  BY <1>1 DEF CompatibleWithHost, provisioners, RedHats, SUSEs
<1>2. ASSUME NEW x \in {"arch", "coreos"}, CompatibleWithHost(x, r) PROVE r.id = x \/ r.like = x
  BY <1>2 DEF CompatibleWithHost
<1>3. r.like \in {"arch", "coreos"} => r.id \notin (provisioners \cup {"ubuntu"}) \ {r.like}
  BY ReleasesAssumption
<1>4. CASE p \in {"arch", "coreos"} \/ q \in {"arch", "coreos"}
  BY <1>1, <1>2, <1>3, <1>4
<1>5. CASE p \notin {"arch", "coreos"} /\ q \notin {"arch", "coreos"}
  <2>1. r.id = "fedora" => p = q
    BY <1>5 DEF CompatibleWithHost, provisioners, RedHats, SUSEs
  <2>2. r.id = "ubuntu" => p = q
    <3> SUFFICES ASSUME r.id = "ubuntu" PROVE p = q
      OBVIOUS
    <3>1. r.version \in Nat
      BY ReleasesAssumption
    <3>2. p \in {"ubuntu_systemd", "ubuntu_upstart"} /\ q \in {"ubuntu_systemd", "ubuntu_upstart"}
      BY <1>1, <1>5 DEF provisioners, RedHats, SUSEs
    <3>3. ASSUME NEW x \in {"ubuntu_systemd", "ubuntu_upstart"}, CompatibleWithHost(x, r)
          PROVE  IF x = "ubuntu_systemd" THEN r.version >= 1504 ELSE r.version \in 1..1503
      BY <3>3 DEF CompatibleWithHost, FirstUbuntuSystemdVersion
    <3>4. ASSUME CompatibleWithHost("ubuntu_systemd", r), CompatibleWithHost("ubuntu_upstart", r) PROVE FALSE
      <4>1. r.version >= 1504 /\ r.version \in 1..1503
        BY <3>3, <3>4
      <4> QED
        BY <3>1, <4>1
    <3> QED
      BY <3>2, <3>4, Zenon
  <2> QED
    BY <1>1, <1>5, <2>1, <2>2
<1> QED
  BY <1>4, <1>5

\* Where the steps of ConfigureAuth are.
LEMMA AuthSteps ==
  ASSUME NEW P, Len(P) \in Nat, NEW k \in 0..Len(P), LastAuth(P, k)
  PROVE  /\ P[k + 2] = "copy" /\ P[k + 3] = "sign" /\ P[k + 4] = "stop" /\ P[k + 6] = "uploadca" /\ P[k + 7] = "uploadcert"
         /\ P[k + 8] = "uploadkey" /\ P[k + 10] = "options" /\ P[k + 11] = "start" /\ k + 12 <= Len(P)
         /\ P[k + 1] = "call" /\ P[k + 5] = "call" /\ P[k + 9] = "call" /\ P[k + 12] = "port"
         /\ \A i \in 1..k : P[i] \notin {"copy", "sign", "stop", "uploadca", "uploadcert", "uploadkey", "options"}
         /\ \A i \in k + 13..Len(P) : P[i] \in {"call", "master", "agent", "check"}
<1>1. Len(ConfigureAuth) = 12
  BY DEF ConfigureAuth
<1>2. \A i \in 1..12 : P[k + i] = ConfigureAuth[i]
  BY <1>1 DEF LastAuth
<1>3. /\ ConfigureAuth[1] = "call" /\ ConfigureAuth[2] = "copy" /\ ConfigureAuth[3] = "sign" /\ ConfigureAuth[4] = "stop"
      /\ ConfigureAuth[5] = "call" /\ ConfigureAuth[6] = "uploadca" /\ ConfigureAuth[7] = "uploadcert"
      /\ ConfigureAuth[8] = "uploadkey" /\ ConfigureAuth[9] = "call" /\ ConfigureAuth[10] = "options"
      /\ ConfigureAuth[11] = "start" /\ ConfigureAuth[12] = "port"
  BY DEF ConfigureAuth
<1>4. k + 12 <= Len(P) /\ \A i \in k + 12 + 1..Len(P) : P[i] \in {"call", "master", "agent", "check"}
  BY <1>1 DEF LastAuth
<1>5. k + 12 + 1 = k + 13
  OBVIOUS
<1>6. \A i \in 1..k : P[i] \notin {"copy", "sign", "stop", "uploadca", "uploadcert", "uploadkey", "options"}
  BY DEF LastAuth
<1>7. /\ P[k + 1] = "call" /\ P[k + 2] = "copy" /\ P[k + 3] = "sign" /\ P[k + 4] = "stop"
      /\ P[k + 5] = "call" /\ P[k + 6] = "uploadca" /\ P[k + 7] = "uploadcert"
      /\ P[k + 8] = "uploadkey" /\ P[k + 9] = "call" /\ P[k + 10] = "options"
      /\ P[k + 11] = "start" /\ P[k + 12] = "port"
  <2>1. /\ 1 \in 1..12 /\ 2 \in 1..12 /\ 3 \in 1..12 /\ 4 \in 1..12 /\ 5 \in 1..12 /\ 6 \in 1..12
        /\ 7 \in 1..12 /\ 8 \in 1..12 /\ 9 \in 1..12 /\ 10 \in 1..12 /\ 11 \in 1..12 /\ 12 \in 1..12
    OBVIOUS
  <2>2. /\ P[k + 1] = ConfigureAuth[1] /\ P[k + 2] = ConfigureAuth[2] /\ P[k + 3] = ConfigureAuth[3]
        /\ P[k + 4] = ConfigureAuth[4] /\ P[k + 5] = ConfigureAuth[5] /\ P[k + 6] = ConfigureAuth[6]
        /\ P[k + 7] = ConfigureAuth[7] /\ P[k + 8] = ConfigureAuth[8] /\ P[k + 9] = ConfigureAuth[9]
        /\ P[k + 10] = ConfigureAuth[10] /\ P[k + 11] = ConfigureAuth[11] /\ P[k + 12] = ConfigureAuth[12]
    BY <1>2, <2>1, Zenon
  <2> QED
    BY <1>3, <2>2, Zenon
<1> QED
  BY <1>4, <1>5, <1>6, <1>7

\* A place in the steps is before, in or after ConfigureAuth.
LEMMA Places ==
  ASSUME NEW n \in Nat \ {0}, NEW k \in Nat, NEW i \in 1..n
  PROVE  \/ i \in 1..k \/ i \in k + 13..n
         \/ i = k + 1 \/ i = k + 2 \/ i = k + 3 \/ i = k + 4 \/ i = k + 5 \/ i = k + 6
         \/ i = k + 7 \/ i = k + 8 \/ i = k + 9 \/ i = k + 10 \/ i = k + 11 \/ i = k + 12
  OBVIOUS

\* The command that runs.
LEMMA Running ==
  ASSUME TypeOK, Given, running \/ last = "ok"
  PROVE  /\ Len(Steps) \in Nat /\ at \in Nat \ {0} /\ cmds \in Nat \ {0} /\ ca \in Nat \ {0}
         /\ (\E k \in 0..Len(Steps) : LastAuth(Steps, k)) \/ (cmd = "upgrade" /\ Restarts(Steps))
         /\ at <= Len(Steps) /\ step = "reboot" => os = "rancheros"
         /\ cmd = "upgrade" /\ os = "rancheros" => Restarts(Steps)
<1>1. cmd \in {"create", "provision", "regenerate", "upgrade"} /\ os \in provisioners
  BY DEF TypeOK, Given
<1>2. at \in Nat \ {0} /\ cmds \in Nat \ {0} /\ ca \in Nat \ {0}
  <2>1. at \in Nat \ {0} /\ cmds \in 0..MaxCommands /\ cmds >= 1 /\ ca \in 1..MaxFaults + 1
    BY DEF TypeOK, Given
  <2> QED
    BY <2>1, BoundsAssumption
<1> DEFINE x == <<cmd, os, machine.swarm, machine.vbox, began.on, began.old>>
<1>3. x \in Kinds /\ x[1] = cmd /\ x[2] = os
  BY <1>1 DEF Kinds, Given
<1>4. Steps = Programs[x]
  BY DEF Steps
<1> HIDE DEF x
<1>5. Steps \in Seq(STRING)
  BY <1>3, <1>4, OrderAssumption
<1>6. (\E k \in 0..Len(Steps) : LastAuth(Steps, k)) \/ (cmd = "upgrade" /\ Restarts(Steps))
  BY <1>1, <1>3, <1>4, OrderAssumption
<1>7. Len(Steps) \in Nat
  BY <1>5
<1>8. at <= Len(Steps) /\ step = "reboot" => os = "rancheros"
  <2>1. at <= Len(Steps) => at \in 1..Len(Steps)
    BY <1>2, <1>7
  <2> QED
    BY <1>3, <1>4, <2>1, RebootAssumption DEF step
<1>9. cmd = "upgrade" /\ os = "rancheros" => Restarts(Steps)
  BY <1>3, <1>4, RebootAssumption
<1> QED
  BY <1>2, <1>6, <1>7, <1>8, <1>9

\* GenerateCert numbers a certificate by its command.
LEMMA Signed ==
  ASSUME TypeOK, Given, Good(guest, server, ca), running
  PROVE  /\ GenerateCert \in Certs /\ GenerateCert.no <= cmds
         /\ GenerateCert = server \/ (step = "sign" /\ GenerateCert.no = cmds /\ GenerateCert.ca = ca)
         /\ step = "sign" =>
              GenerateCert = [no |-> cmds, ca |-> ca, master |-> machine.swarm = "master" /\ cmd # "regenerate"]
         /\ Good(guest, GenerateCert, ca)
<1>0. /\ guest \in Guests /\ server \in Certs /\ ca \in 1..MaxFaults + 1 /\ cmds \in 0..MaxCommands /\ server.no <= cmds
  BY DEF TypeOK
<1>1. /\ server.no \in Nat /\ server.ca \in Nat /\ guest.cert.ca \in Nat /\ guest.cert.no \in Nat
      /\ guest.daemon.cert.no \in Nat
  BY <1>0, Fields, CertFields, DaemonFields
<1>2. CASE step = "sign"
  <2> DEFINE b == machine.swarm = "master" /\ cmd # "regenerate"
             new == [no |-> cmds, ca |-> ca, master |-> b]
  <2>1. GenerateCert = new
    BY <1>2 DEF GenerateCert
  <2>2. new \in Certs /\ new.no = cmds /\ new.ca = ca
    BY <1>0, BoundsAssumption DEF Certs
  <2> HIDE DEF new
  <2>3. Good(guest, new, ca)
    BY <1>0, <1>1, <2>2 DEF Good
  <2> QED
    BY <1>0, <1>2, <2>1, <2>2, <2>3 DEF new
<1>3. CASE step # "sign"
  BY <1>0, <1>3 DEF GenerateCert
<1> QED
  BY <1>2, <1>3

\* What the next step is, by its place.
LEMMA StepAt ==
  ASSUME Len(Steps) \in Nat, NEW k \in 0..Len(Steps), LastAuth(Steps, k), at \in 1..Len(Steps)
  PROVE  /\ (step = "copy") <=> at = k + 2
         /\ (step = "sign") <=> at = k + 3
         /\ (step = "stop") <=> at = k + 4
         /\ (step = "uploadca") <=> at = k + 6
         /\ (step = "uploadcert") <=> at = k + 7
         /\ (step = "uploadkey") <=> at = k + 8
         /\ (step = "options") <=> at = k + 10
         /\ at = k + 11 => step = "start"
         /\ at > k + 4 /\ at # k + 11 => step \notin Switches
<1> DEFINE P == Steps
<1>0. k \in Nat /\ at \in Nat /\ Len(P) \in Nat \ {0} /\ step = P[at]
  BY DEF step
<1>1. /\ P[k + 2] = "copy" /\ P[k + 3] = "sign" /\ P[k + 4] = "stop" /\ P[k + 6] = "uploadca" /\ P[k + 7] = "uploadcert"
      /\ P[k + 8] = "uploadkey" /\ P[k + 10] = "options" /\ P[k + 11] = "start" /\ k + 12 <= Len(P)
      /\ P[k + 1] = "call" /\ P[k + 5] = "call" /\ P[k + 9] = "call" /\ P[k + 12] = "port"
      /\ \A i \in 1..k : P[i] \notin {"copy", "sign", "stop", "uploadca", "uploadcert", "uploadkey", "options"}
      /\ \A i \in k + 13..Len(P) : P[i] \in {"call", "master", "agent", "check"}
  BY AuthSteps
<1> HIDE DEF P
<1>2. CASE at \in 1..k
  <2>1. step \notin {"copy", "sign", "stop", "uploadca", "uploadcert", "uploadkey", "options"}
    BY <1>0, <1>1, <1>2
  <2> QED
    BY <1>0, <1>2, <2>1
<1>3. CASE at \in k + 13..Len(P)
  <2>1. step \in {"call", "master", "agent", "check"}
    BY <1>0, <1>1, <1>3
  <2> QED
    BY <1>0, <1>3, <2>1 DEF Switches
<1>4. CASE at = k + 1 \/ at = k + 2 \/ at = k + 3 \/ at = k + 4 \/ at = k + 5 \/ at = k + 6
  <2>1. CASE at = k + 1
    <3>1. step = "call"
      BY <1>0, <1>1, <2>1
    <3> QED
      BY <1>0, <2>1, <3>1
  <2>5. CASE at = k + 2
    BY <1>0, <1>1, <2>5
  <2>6. CASE at = k + 3
    BY <1>0, <1>1, <2>6
  <2>2. CASE at = k + 4
    BY <1>0, <1>1, <2>2
  <2>3. CASE at = k + 5
    BY <1>0, <1>1, <2>3 DEF Switches
  <2>4. CASE at = k + 6
    BY <1>0, <1>1, <2>4 DEF Switches
  <2> QED
    BY <1>4, <2>1, <2>2, <2>3, <2>4, <2>5, <2>6
<1>5. CASE at = k + 7 \/ at = k + 8 \/ at = k + 9 \/ at = k + 10 \/ at = k + 11 \/ at = k + 12
  BY <1>0, <1>1, <1>5 DEF Switches
<1> QED
  BY <1>0, <1>2, <1>3, <1>4, <1>5, Places DEF P

\* A step that works brings ConfigureAuth further on the guest.
LEMMA OnGuestStep ==
  ASSUME TypeOK, Given, Good(guest, server, ca), StepWorks,
         NEW k \in 0..Len(Steps), LastAuth(Steps, k), Auth(k), ~rebooted
  PROVE  OnGuest(k)'
<1>0. /\ running /\ at <= Len(Steps) /\ Works /\ guest' = Effect /\ server' = GenerateCert /\ at' = at + 1
      /\ copied' = (IF step = "copy" THEN ca ELSE copied) /\ UNCHANGED <<machine, cmd, ca, cmds>>
  BY DEF StepWorks, Busy, Same
<1>1. Len(Steps) \in Nat /\ at \in Nat \ {0} /\ at \in 1..Len(Steps) /\ cmds \in Nat \ {0} /\ ca \in Nat \ {0} /\ k \in Nat
  BY <1>0, Running
<1>2. /\ (step = "copy") <=> at = k + 2
      /\ (step = "sign") <=> at = k + 3
      /\ (step = "stop") <=> at = k + 4
      /\ (step = "uploadca") <=> at = k + 6
      /\ (step = "uploadcert") <=> at = k + 7
      /\ (step = "uploadkey") <=> at = k + 8
      /\ (step = "options") <=> at = k + 10
      /\ at = k + 11 => step = "start"
      /\ at > k + 4 /\ at # k + 11 => step \notin Switches
  BY <1>1, StepAt
<1>3. Files(guest')
  BY <1>0, EffectGood
<1>4. /\ step # "sign" => server' = server
      /\ step = "sign" => server' = [no |-> cmds, ca |-> ca, master |-> machine.swarm = "master" /\ cmd # "regenerate"]
  BY <1>0, Signed
<1>7. at' \in k + 5..k + 11 => ~guest'.daemon.up
  <2>1. CASE at = k + 4
    <3>1. guest'.daemon = Down
      BY <1>0, <1>2, <2>1, EffectGood
    <3> QED
      BY <3>1 DEF Down
  <2>2. CASE at \in k + 5..k + 10
    <3>1. guest'.daemon = guest.daemon
      BY <1>0, <1>1, <1>2, <2>2, EffectGood
    <3> QED
      BY <1>1, <2>2, <3>1 DEF Auth, OnGuest
  <2> QED
    BY <1>0, <1>1, <2>1, <2>2
<1>8. at' > k + 6 => guest'.ca = ca
  BY <1>0, <1>1, <1>2, <1>3 DEF Auth, OnGuest, Files
<1>9. at' > k + 7 => guest'.cert = server'
  BY <1>0, <1>1, <1>2, <1>3, <1>4 DEF Auth, OnGuest, Files
<1>10. at' > k + 8 => guest'.key = cmds
  <2>1. at > k + 3 => server.no = cmds
    BY DEF Auth, OnGuest
  <2> QED
    BY <1>0, <1>1, <1>2, <1>3, <2>1 DEF Auth, OnGuest, Files
<1>11. at' > k + 10 => guest'.conf
  <2>1. guest'.conf = (step = "options" \/ guest.conf)
    BY <1>3 DEF Files
  <2>2. CASE at = k + 10
    BY <1>2, <2>1, <2>2
  <2>3. CASE at > k + 10
    BY <2>1, <2>3 DEF Auth, OnGuest
  <2> QED
    BY <1>0, <1>1, <2>2, <2>3
<1>12. at' > k + 11 => guest'.docker # "none" /\ guest'.daemon = [up |-> TRUE, tls |-> TRUE, ca |-> ca, cert |-> server']
  <2>0. ASSUME guest'.daemon = [up |-> TRUE, tls |-> TRUE, ca |-> ca, cert |-> server'] PROVE guest'.docker # "none"
    <3>1. Good(Effect, server, ca)
      BY EffectGood
    <3>2. guest'.daemon.up = TRUE
      BY <2>0
    <3> QED
      BY <1>0, <3>1, <3>2 DEF Good
  <2>1. CASE at = k + 11
    <3>1. /\ guest.conf /\ ~guest.daemon.up /\ guest.ca = ca /\ guest.cert = server /\ guest.key = cmds /\ server.no = cmds
      BY <1>1, <2>1 DEF Auth, OnGuest
    <3>2. ~Torn(guest)
      BY <1>1, <3>1 DEF Torn
    <3>3. guest'.daemon = [up |-> TRUE, tls |-> TRUE, ca |-> guest.ca, cert |-> guest.cert]
      BY <1>0, <1>2, <2>1, <3>1, <3>2, EffectGood
    <3> QED
      BY <1>1, <1>2, <1>4, <2>0, <2>1, <3>1, <3>3
  <2>2. CASE at > k + 11
    <3>1. guest'.daemon = guest.daemon
      BY <1>0, <1>1, <1>2, <2>2, EffectGood
    <3>2. server' = server
      BY <1>1, <1>2, <1>4, <2>2
    <3>3. guest.boot # "down"
      BY <1>0 DEF Given
    <3> QED
      BY <2>0, <2>2, <3>1, <3>2, <3>3 DEF Auth, OnGuest
  <2> QED
    BY <1>0, <1>1, <2>1, <2>2
<1> QED
  BY <1>0, <1>7, <1>8, <1>9, <1>10, <1>11, <1>12 DEF OnGuest

\* A step that works brings ConfigureAuth further.
LEMMA AuthStep ==
  ASSUME TypeOK, Given, Good(guest, server, ca), StepWorks,
         NEW k \in 0..Len(Steps), LastAuth(Steps, k), Auth(k)
  PROVE  Auth(k)'
<1>0. /\ running /\ at <= Len(Steps) /\ server' = GenerateCert /\ at' = at + 1
      /\ copied' = (IF step = "copy" THEN ca ELSE copied) /\ UNCHANGED <<machine, cmd, ca, cmds, rebooted>>
  BY DEF StepWorks, Busy, Same
<1>1. Len(Steps) \in Nat /\ at \in Nat \ {0} /\ at \in 1..Len(Steps) /\ cmds \in Nat \ {0} /\ ca \in Nat \ {0} /\ k \in Nat
  BY <1>0, Running
<1>2. /\ (step = "copy") <=> at = k + 2
      /\ (step = "sign") <=> at = k + 3
  BY <1>1, StepAt
<1>4. /\ step # "sign" => server' = server
      /\ step = "sign" => server' = [no |-> cmds, ca |-> ca, master |-> machine.swarm = "master" /\ cmd # "regenerate"]
  BY <1>0, Signed
<1>5. at' > k + 2 => copied' = ca
  BY <1>0, <1>1, <1>2 DEF Auth
<1>6. at' > k + 3 => server' = [no |-> cmds, ca |-> ca, master |-> machine.swarm = "master" /\ cmd # "regenerate"]
  <2>1. CASE at = k + 3
    BY <1>2, <1>4, <2>1
  <2>2. CASE at # k + 3
    BY <1>0, <1>1, <1>2, <1>4, <2>2 DEF Auth
  <2> QED
    BY <2>1, <2>2
<1>7. ~rebooted => OnGuest(k)'
  BY OnGuestStep
<1> QED
  BY <1>0, <1>5, <1>6, <1>7 DEF Auth

\* A step works.
LEMMA WorksStep ==
  ASSUME IInv, StepWorks
  PROVE  IInv'
<1>0. /\ running /\ at <= Len(Steps) /\ Works /\ guest' = Effect /\ server' = GenerateCert /\ at' = at + 1
      /\ copied' = (IF step = "copy" THEN ca ELSE copied)
      /\ UNCHANGED <<machine, os, ca, cmd, began, cmds, running, rebooted, last, faults, clean>>
  BY DEF StepWorks, Busy, Same
<1>1. TypeOK /\ Given /\ Good(guest, server, ca) /\ Steps' = Steps
  BY <1>0 DEF IInv, Steps
<1>2. Len(Steps) \in Nat /\ at \in Nat \ {0} /\ at \in 1..Len(Steps) /\ cmds \in Nat \ {0} /\ ca \in Nat \ {0}
  BY <1>0, <1>1, Running
<1>3. Effect \in Guests /\ Good(Effect, server, ca) /\ Files(Effect)
  BY <1>1, EffectGood
<1>4. /\ GenerateCert \in Certs /\ GenerateCert.no <= cmds /\ Good(guest, GenerateCert, ca)
      /\ GenerateCert = server \/ (step = "sign" /\ GenerateCert.no = cmds /\ GenerateCert.ca = ca)
      /\ step = "sign" => GenerateCert.no = cmds
  BY <1>0, <1>1, Signed
<1>5. TypeOK'
  BY <1>0, <1>1, <1>2, <1>3, <1>4, BoundsAssumption DEF TypeOK
<1>6. Given'
  <2>1. Effect.boot \in {guest.boot, "no"} \/ (step = "reboot" /\ Effect.boot = "told")
    BY <1>1, EffectRest
  <2>2. step = "reboot" => os = "rancheros"
    BY <1>0, <1>1, Running
  <2>3. /\ running' /\ guest'.boot = "down" => rebooted'
        /\ guest'.boot # "no" \/ rebooted' => os' = "rancheros"
    BY <1>0, <1>1, <2>1, <2>2 DEF Given
  <2> QED
    BY <1>0, <1>1, <1>2, <2>3 DEF Given
<1>7. Good(guest, server, ca)'
  <2>1. CASE step = "sign"
    <3>1. Effect = guest
      BY <2>1 DEF Effect
    <3> QED
      BY <1>0, <1>4, <3>1
  <2>2. CASE step # "sign"
    BY <1>0, <1>3, <1>4, <2>2
  <2> QED
    BY <2>1, <2>2
<1>8. Unserved'
  <2> SUFFICES ASSUME NEW k \in 0..Len(Steps), LastAuth(Steps, k)
               PROVE  /\ at' <= k + 4 => guest'.cert.no < cmds
                      /\ at' > k + 3 => server'.no = cmds
    BY <1>0, <1>1 DEF Unserved
  <2>1. /\ at <= k + 4 => guest.cert.no < cmds
        /\ at > k + 3 => server.no = cmds
    BY <1>0 DEF IInv, Unserved
  <2>2. k \in Nat /\ ((step = "sign") <=> at = k + 3) /\ ((step = "uploadcert") <=> at = k + 7)
    BY <1>2, StepAt
  <2>3. at' <= k + 4 => guest'.cert.no < cmds
    BY <1>0, <1>2, <1>3, <2>1, <2>2 DEF Files
  <2>4. at' > k + 3 => server'.no = cmds
    BY <1>0, <1>2, <1>4, <2>1, <2>2
  <2> QED
    BY <2>3, <2>4
<1>9. Served'
  <2> SUFFICES ASSUME clean
               PROVE  /\ \A k \in 0..Len(Steps) : LastAuth(Steps, k) => Auth(k)'
                      /\ \A i \in 1..at' - 1 : i <= Len(Steps) /\ Steps[i] = "version" =>
                           FilesCurrent' /\ (Restarts(Steps) => guest'.docker # "none")
                      /\ Restarts(Steps) => (guest'.conf /\ Torn(guest') => began.torn)
                      /\ Restarts(Steps) /\ at' > Len(Steps) => Restarted'
    BY <1>0, <1>1 DEF Served, Undisturbed
  <2>1. /\ \A k \in 0..Len(Steps) : LastAuth(Steps, k) => Auth(k)
        /\ \A i \in 1..at - 1 : i <= Len(Steps) /\ Steps[i] = "version" =>
             FilesCurrent /\ (Restarts(Steps) => guest.docker # "none")
        /\ Restarts(Steps) => (guest.conf /\ Torn(guest) => began.torn)
    BY <1>0 DEF IInv, Served, Undisturbed
  <2>2. \A k \in 0..Len(Steps) : LastAuth(Steps, k) => Auth(k)'
    BY <1>1, <2>1, AuthStep
  <2>3. /\ guest.ca \in Nat /\ guest.cert.ca \in Nat /\ guest.daemon.ca \in Nat /\ guest.daemon.cert.ca \in Nat
        /\ server.ca \in Nat /\ guest.conf \in BOOLEAN
    <3>1. guest \in Guests /\ server \in Certs
      BY <1>1 DEF TypeOK
    <3> QED
      BY <3>1, Fields, CertFields, DaemonFields
  <2>4. step = "version" => FilesCurrent /\ guest.docker # "none"
    <3> SUFFICES ASSUME step = "version" PROVE FilesCurrent /\ guest.docker # "none"
      OBVIOUS
    <3>1. Trusted(guest)
      BY <1>0 DEF Works
    <3> QED
      BY <1>1, <1>2, <2>3, <3>1 DEF Trusted, Good, FilesCurrent
  <2>5. FilesCurrent => FilesCurrent'
    <3> SUFFICES ASSUME FilesCurrent PROVE Effect.conf /\ Effect.ca = ca /\ Effect.cert.ca = ca
      BY <1>0 DEF FilesCurrent
    <3>1. server.ca = ca
      BY <1>1, <1>2, <2>3 DEF Good, FilesCurrent
    <3>2. Effect.conf
      BY <1>3 DEF Files, FilesCurrent
    <3> QED
      BY <1>3, <3>1, <3>2 DEF Files, FilesCurrent
  <2>8. Restarts(Steps) => step \notin Writes \cup {"purge"}
    BY <1>2 DEF Restarts, step
  <2>9. Restarts(Steps) /\ guest.docker # "none" => guest'.docker # "none"
    <3>1. guest.docker # "none" /\ step # "purge" => Effect.docker # "none"
      BY <1>1, EffectRest
    <3> QED
      BY <1>0, <2>8, <3>1
  <2>10. Restarts(Steps) => (guest'.conf <=> guest.conf) /\ Torn(guest') = Torn(guest)
    <3> SUFFICES ASSUME Restarts(Steps) PROVE (Effect.conf <=> guest.conf) /\ Torn(Effect) = Torn(guest)
      BY <1>0
    <3>1. Effect.ca = guest.ca /\ Effect.cert = guest.cert /\ Effect.key = guest.key /\ (Effect.conf <=> guest.conf)
      BY <1>3, <2>8 DEF Files, Writes
    <3> QED
      BY <3>1 DEF Torn
  <2>6. \A i \in 1..at' - 1 : i <= Len(Steps) /\ Steps[i] = "version" =>
          FilesCurrent' /\ (Restarts(Steps) => guest'.docker # "none")
    <3> SUFFICES ASSUME NEW i \in 1..at, Steps[i] = "version"
                 PROVE  FilesCurrent' /\ (Restarts(Steps) => guest'.docker # "none")
      BY <1>0, <1>2
    <3>1. CASE i = at
      BY <2>4, <2>5, <2>9, <3>1 DEF step
    <3>2. CASE i \in 1..at - 1
      <4>1. i <= Len(Steps)
        BY <1>0, <1>2, <3>2
      <4> QED
        BY <2>1, <2>5, <2>9, <3>2, <4>1
    <3> QED
      BY <1>2, <3>1, <3>2
  <2>7. ASSUME Restarts(Steps), at' > Len(Steps) PROVE Restarted'
    <3>1. at = Len(Steps)
      BY <1>0, <1>2, <2>7
    <3>2. step = "restart"
      BY <2>7, <3>1 DEF Restarts, step
    <3>3. PICK i \in 1..Len(Steps) - 1 : Steps[i] = "version"
      BY <2>7 DEF Restarts
    <3>4. i \in 1..at - 1 /\ i <= Len(Steps)
      BY <1>2, <3>1, <3>3
    <3>5. FilesCurrent /\ guest.docker # "none"
      BY <2>1, <2>7, <3>3, <3>4
    <3>6. Effect.daemon = [up |-> TRUE, tls |-> TRUE, ca |-> guest.ca, cert |-> guest.cert]
      BY <1>0, <1>1, <3>2, <3>5, EffectGood DEF FilesCurrent
    <3>7. Trusted(guest)'
      BY <1>0, <3>5, <3>6 DEF Trusted, FilesCurrent
    <3>8. ~Torn(guest)
      <4>1. CanStart(Reload(guest)) /\ guest \in Guests
        BY <1>0, <1>1, <3>2 DEF Works, TypeOK
      <4> QED
        BY <3>5, <4>1, RestGood DEF FilesCurrent
    <3>9. ~Torn(guest') /\ guest'.docker # "none"
      BY <2>7, <2>9, <2>10, <3>5, <3>8
    <3> QED
      BY <3>7, <3>9 DEF Restarted
  <2>11. Restarts(Steps) => (guest'.conf /\ Torn(guest') => began.torn)
    BY <2>1, <2>10
  <2> QED
    BY <2>2, <2>6, <2>7, <2>11
<1>10. Ended'
  BY <1>0, <1>1 DEF Ended, Given
<1> QED
  BY <1>5, <1>6, <1>7, <1>8, <1>9, <1>10 DEF IInv

\* The command fails; a daemon that could not be started is down.
LEMMA FailStep ==
  ASSUME IInv, StepFails
  PROVE  IInv'
<1>0. /\ running /\ running' = FALSE /\ last' = "failed" /\ at <= Len(Steps)
      /\ guest' = guest \/ (guest' = Effect /\ step \in {"start", "restart"})
      /\ UNCHANGED <<machine, os, ca, server, copied, cmd, at, began, rebooted, cmds, faults, clean>>
  BY DEF StepFails, Busy, Ends, Same
<1>1. TypeOK /\ Given /\ Good(guest, server, ca)
  BY DEF IInv
<1>2. guest' \in Guests /\ Good(guest', server, ca) /\ guest'.boot \in {guest.boot, "no"}
  BY <1>0, <1>1, EffectGood, EffectRest DEF TypeOK
<1>3. TypeOK' /\ Good(guest, server, ca)'
  BY <1>0, <1>1, <1>2 DEF TypeOK
<1>4. Given'
  BY <1>0, <1>1, <1>2 DEF Given
<1>5. Unserved' /\ Served' /\ Ended'
  BY <1>0 DEF Unserved, Served, Undisturbed, Ended
<1> QED
  BY <1>3, <1>4, <1>5 DEF IInv

\* The command ends.
LEMMA EndStep ==
  ASSUME IInv, Done
  PROVE  IInv'
<1>0. /\ running /\ running' = FALSE /\ last' = "ok" /\ at > Len(Steps)
      /\ UNCHANGED <<machine, os, guest, ca, server, copied, cmd, at, began, rebooted, cmds, faults, clean>>
  BY DEF Done, Ends, Same
<1>1. Steps' = Steps
  BY <1>0 DEF Steps
<1>2. TypeOK' /\ Given' /\ Good(guest, server, ca)'
  BY <1>0 DEF IInv, TypeOK, Given
<1>3. Unserved' /\ Ended'
  BY <1>0, <1>1 DEF Unserved, Ended
<1>4. Served'
  <2>1. Undisturbed' => Undisturbed
    BY <1>0 DEF Undisturbed
  <2>2. UNCHANGED <<machine, guest, ca, server, copied, cmd, at, began, rebooted, cmds>>
    BY <1>0
  <2>3. \A k : Auth(k)' = Auth(k)
    BY <2>2 DEF Auth, OnGuest
  <2>4. FilesCurrent' = FilesCurrent /\ Restarted' = Restarted
    BY <2>2 DEF FilesCurrent, Restarted, Trusted
  <2> QED
    BY <1>1, <2>1, <2>2, <2>3, <2>4 DEF IInv, Served
<1> QED
  BY <1>2, <1>3, <1>4 DEF IInv

\* A step that could not be sent to a guest that reboots counts as done.
LEMMA LostStep ==
  ASSUME IInv, OutputLost, UNCHANGED <<faults, clean>>, machine.ssh = "native", step \in Remote, guest.boot = "down"
  PROVE  IInv'
<1>0. /\ running /\ at <= Len(Steps) /\ at' = at + 1
      /\ UNCHANGED <<machine, os, guest, ca, server, copied, cmd, began, running, rebooted, cmds, faults, clean, last>>
  BY DEF OutputLost, Busy, Same
<1>1. TypeOK /\ Given /\ Good(guest, server, ca) /\ Steps' = Steps /\ rebooted
  BY <1>0 DEF IInv, Steps, Given
<1>2. Len(Steps) \in Nat /\ at \in Nat \ {0} /\ at \in 1..Len(Steps)
  BY <1>0, <1>1, Running
<1>3. TypeOK' /\ Given' /\ Good(guest, server, ca)'
  BY <1>0, <1>1, <1>2 DEF TypeOK, Given
<1>4. step \notin {"copy", "sign", "version"}
  BY DEF Remote
<1>5. Unserved'
  <2> SUFFICES ASSUME NEW k \in 0..Len(Steps), LastAuth(Steps, k)
               PROVE  /\ at' <= k + 4 => guest.cert.no < cmds
                      /\ at' > k + 3 => server.no = cmds
    BY <1>0, <1>1 DEF Unserved
  <2>1. /\ at <= k + 4 => guest.cert.no < cmds
        /\ at > k + 3 => server.no = cmds
    BY <1>0 DEF IInv, Unserved
  <2>2. k \in Nat /\ at # k + 3
    BY <1>2, <1>4, StepAt
  <2> QED
    BY <1>0, <1>2, <2>1, <2>2
<1>6. Served'
  <2> SUFFICES ASSUME clean
               PROVE  /\ \A k \in 0..Len(Steps) : LastAuth(Steps, k) => Auth(k)'
                      /\ \A i \in 1..at' - 1 : i <= Len(Steps) /\ Steps[i] = "version" =>
                           FilesCurrent /\ (Restarts(Steps) => guest.docker # "none")
                      /\ Restarts(Steps) => (guest.conf /\ Torn(guest) => began.torn)
                      /\ Restarts(Steps) /\ at' > Len(Steps) => Restarted
    <3>1. FilesCurrent' = FilesCurrent /\ Restarted' = Restarted
      BY <1>0 DEF FilesCurrent, Restarted, Trusted
    <3> QED
      BY <1>0, <1>1, <3>1 DEF Served, Undisturbed
  <2>1. /\ \A k \in 0..Len(Steps) : LastAuth(Steps, k) => Auth(k)
        /\ \A i \in 1..at - 1 : i <= Len(Steps) /\ Steps[i] = "version" =>
             FilesCurrent /\ (Restarts(Steps) => guest.docker # "none")
        /\ Restarts(Steps) => (guest.conf /\ Torn(guest) => began.torn)
    BY <1>0 DEF IInv, Served, Undisturbed
  <2>2. ASSUME NEW k \in 0..Len(Steps), LastAuth(Steps, k) PROVE Auth(k)'
    <3>1. k \in Nat /\ at # k + 2 /\ at # k + 3
      BY <1>2, <1>4, <2>2, StepAt
    <3>2. (at' > k + 2 => at > k + 2) /\ (at' > k + 3 => at > k + 3)
      BY <1>0, <1>2, <3>1
    <3> QED
      BY <1>0, <1>1, <2>1, <2>2, <3>2 DEF Auth
  <2>3. ASSUME NEW i \in 1..at' - 1, i <= Len(Steps), Steps[i] = "version"
        PROVE  FilesCurrent /\ (Restarts(Steps) => guest.docker # "none")
    <3>1. i # at
      BY <1>4, <2>3 DEF step
    <3>2. i \in 1..at - 1
      BY <1>0, <1>2, <3>1
    <3> QED
      BY <2>1, <2>3, <3>2
  <2>4. ASSUME Restarts(Steps), at' > Len(Steps) PROVE Restarted
    <3>1. PICK i \in 1..Len(Steps) - 1 : Steps[i] = "version"
      BY <2>4 DEF Restarts
    <3>2. i \in 1..at - 1 /\ i <= Len(Steps)
      BY <1>0, <1>2, <2>4
    <3>3. FilesCurrent /\ guest.docker # "none"
      BY <2>1, <2>4, <3>1, <3>2
    <3> QED
      BY <1>1, <2>1, <2>4, <3>3 DEF Restarted, FilesCurrent
  <2> QED
    BY <2>1, <2>2, <2>3, <2>4
<1>7. Ended'
  BY <1>0, <1>1 DEF Ended, Given
<1> QED
  BY <1>3, <1>5, <1>6, <1>7 DEF IInv

\* The guest goes down and comes up: with the files that it has.
LEMMA GuestRebooted ==
  ASSUME TypeOK, Good(guest, server, ca), GuestDown \/ GuestUp
  PROVE  /\ guest' \in Guests /\ Good(guest', server, ca) /\ guest'.conf = guest.conf /\ guest'.ca = guest.ca
         /\ guest'.cert = guest.cert /\ guest'.key = guest.key /\ guest'.docker = guest.docker
         /\ guest'.on = guest.on /\ guest'.iso = guest.iso /\ (guest.dir => guest'.dir) /\ guest.boot # "no"
         /\ GuestDown => guest'.boot = "down" /\ ~guest'.daemon.up
         /\ GuestUp => guest'.boot = "no"
         /\ guest'.daemon.up => guest'.dir
         /\ GuestUp /\ guest.docker # "none" /\ ~Torn(guest) => guest'.daemon.up
         /\ GuestUp /\ guest.docker # "none" /\ ~Torn(guest) /\ guest.conf =>
              guest'.daemon = [up |-> TRUE, tls |-> TRUE, ca |-> guest.ca, cert |-> guest.cert]
<1>0. guest \in Guests /\ server \in Certs /\ ca \in Nat
  BY BoundsAssumption DEF TypeOK
<1>1. CASE GuestDown
  <2> DEFINE d == [guest EXCEPT !.boot = "down"]
  <2>1. /\ d \in Guests /\ Good(d, server, ca) /\ d.conf = guest.conf /\ d.ca = guest.ca /\ d.cert = guest.cert
        /\ d.key = guest.key /\ d.docker = guest.docker /\ d.on = guest.on /\ d.boot = "down"
        /\ d.dir = guest.dir /\ d.iso = guest.iso
    BY <1>0, BootGood
  <2>2. guest' = Stopped(d) /\ guest.boot = "told"
    BY <1>1 DEF GuestDown
  <2>3. ~GuestUp
    BY <2>2 DEF GuestUp
  <2> HIDE DEF d
  <2>4. /\ Stopped(d) \in Guests /\ Good(Stopped(d), server, ca) /\ Stopped(d).daemon = Down
        /\ Stopped(d).conf = d.conf /\ Stopped(d).ca = d.ca /\ Stopped(d).cert = d.cert
        /\ Stopped(d).key = d.key /\ Stopped(d).docker = d.docker /\ Stopped(d).on = d.on
    BY <1>0, <2>1, StoppedGood
  <2>5. Stopped(d).boot = d.boot /\ Stopped(d).dir = d.dir /\ Stopped(d).iso = d.iso
    BY <2>1 DEF Stopped, Guests
  <2>6. ~Down.up
    BY DEF Down
  <2> QED
    BY <2>1, <2>2, <2>3, <2>4, <2>5, <2>6
<1>2. CASE GuestUp
  <2> DEFINE d == [guest EXCEPT !.boot = "no"]
             h == Reload(d)
             u == StartedIfPossible(h)
  <2>1. /\ d \in Guests /\ Good(d, server, ca) /\ d.conf = guest.conf /\ d.ca = guest.ca /\ d.cert = guest.cert
        /\ d.key = guest.key /\ d.docker = guest.docker /\ d.on = guest.on /\ d.boot = "no"
        /\ d.dir = guest.dir /\ d.iso = guest.iso
    BY <1>0, BootGood
  <2>2. guest' = u /\ guest.boot = "down"
    BY <1>2 DEF GuestUp
  <2>3. ~GuestDown
    BY <2>2 DEF GuestDown
  <2> HIDE DEF d
  <2>4. /\ h \in Guests /\ Good(h, server, ca) /\ h.loaded = d.conf /\ h.conf = d.conf /\ h.ca = d.ca
        /\ h.cert = d.cert /\ h.key = d.key /\ h.docker = d.docker /\ h.on = d.on
    BY <1>0, <2>1, ReloadGood
  <2>5. Rest(d, h) /\ (CanStart(h) <=> d.docker # "none" /\ ~(d.conf /\ Torn(d)))
    BY <2>1, RestGood
  <2> HIDE DEF h
  <2>6. /\ u \in Guests /\ Good(u, server, ca)
        /\ u.conf = h.conf /\ u.ca = h.ca /\ u.cert = h.cert /\ u.key = h.key /\ u.docker = h.docker /\ u.on = h.on
        /\ u.daemon.up = CanStart(h)
        /\ CanStart(h) /\ h.loaded => u.daemon = [up |-> TRUE, tls |-> TRUE, ca |-> h.ca, cert |-> h.cert]
    BY <1>0, <2>4, IfPossibleGood
  <2>7. Rest(h, u) /\ (CanStart(h) => u.dir)
    BY <2>4, RestGood
  <2> HIDE DEF u
  <2>8. Torn(d) = Torn(guest)
    BY <2>1 DEF Torn
  <2>9. guest.docker # "none" /\ ~Torn(guest) => CanStart(h)
    BY <2>1, <2>5, <2>8
  <2>10. guest.dir \in BOOLEAN /\ (d.dir => u.dir) /\ u.boot = "no" /\ u.iso = guest.iso
    BY <1>0, <2>1, <2>5, <2>7, Fields DEF Rest
  <2> QED
    BY <2>1, <2>2, <2>3, <2>4, <2>6, <2>7, <2>9, <2>10
<1> QED
  BY <1>1, <1>2

LEMMA GuestStep ==
  ASSUME IInv, GuestDown \/ GuestUp
  PROVE  IInv'
<1>0. /\ UNCHANGED <<machine, os, ca, server, copied, cmd, at, began, running, cmds, faults, clean, last>>
      /\ rebooted' \in BOOLEAN /\ (rebooted => rebooted')
      /\ GuestDown /\ running => rebooted'
      /\ rebooted' => rebooted \/ GuestDown
  <2>1. rebooted \in BOOLEAN /\ running \in BOOLEAN
    BY DEF IInv, TypeOK
  <2>2. CASE GuestDown
    <3>1. rebooted' = (rebooted \/ running)
      BY <2>2 DEF GuestDown
    <3> QED
      BY <2>1, <2>2, <3>1 DEF GuestDown
  <2>3. CASE GuestUp
    <3>1. ~GuestDown
      BY <2>3 DEF GuestDown, GuestUp
    <3> QED
      BY <2>1, <2>3, <3>1 DEF GuestUp, Same
  <2> QED
    BY <2>2, <2>3
<1>1. TypeOK /\ Given /\ Good(guest, server, ca) /\ Steps' = Steps
  BY <1>0 DEF IInv, Steps
<1>2. /\ guest' \in Guests /\ Good(guest', server, ca) /\ guest'.conf = guest.conf /\ guest'.ca = guest.ca
      /\ guest'.cert = guest.cert /\ guest'.key = guest.key /\ guest'.docker = guest.docker /\ guest.boot # "no"
      /\ GuestDown => guest'.boot = "down"
      /\ GuestUp => guest'.boot = "no"
      /\ GuestUp /\ guest.docker # "none" /\ ~Torn(guest) /\ guest.conf =>
           guest'.daemon = [up |-> TRUE, tls |-> TRUE, ca |-> guest.ca, cert |-> guest.cert]
  BY <1>1, GuestRebooted
<1>3. GuestUp => guest.boot = "down"
  BY DEF GuestUp
<1>4. running => rebooted'
  BY <1>0, <1>1, <1>3 DEF Given
<1>5. TypeOK' /\ Good(guest, server, ca)'
  BY <1>0, <1>1, <1>2 DEF TypeOK
<1>6. Given'
  BY <1>0, <1>1, <1>2, <1>4 DEF Given
<1>7. Unserved' /\ Ended'
  BY <1>0, <1>1, <1>2 DEF IInv, Unserved, Ended
<1>8. Served'
  <2> SUFFICES ASSUME Undisturbed
               PROVE  /\ \A k \in 0..Len(Steps) : LastAuth(Steps, k) => Auth(k)'
                      /\ \A i \in 1..at - 1 : i <= Len(Steps) /\ Steps[i] = "version" =>
                           FilesCurrent' /\ (Restarts(Steps) => guest'.docker # "none")
                      /\ Restarts(Steps) => (guest'.conf /\ Torn(guest') => began.torn)
                      /\ Restarts(Steps) /\ at > Len(Steps) => Restarted'
    BY <1>0, <1>1 DEF Served, Undisturbed
  <2>1. /\ \A k \in 0..Len(Steps) : LastAuth(Steps, k) => Auth(k)
        /\ \A i \in 1..at - 1 : i <= Len(Steps) /\ Steps[i] = "version" =>
             FilesCurrent /\ (Restarts(Steps) => guest.docker # "none")
        /\ Restarts(Steps) => (guest.conf /\ Torn(guest) => began.torn)
        /\ Restarts(Steps) /\ at > Len(Steps) => Restarted
    BY DEF IInv, Served
  <2>2. /\ Len(Steps) \in Nat /\ at \in Nat \ {0} /\ cmds \in Nat \ {0} /\ ca \in Nat \ {0}
        /\ ~running => at > Len(Steps)
    BY <1>1, Running DEF Undisturbed, IInv, Ended
  <2>3. Torn(guest') = Torn(guest) /\ FilesCurrent' = FilesCurrent
    BY <1>0, <1>2 DEF Torn, FilesCurrent
  <2>4. ASSUME NEW k \in 0..Len(Steps), LastAuth(Steps, k) PROVE Auth(k)'
    <3>1. Auth(k) /\ k \in Nat /\ k + 12 <= Len(Steps)
      BY <2>1, <2>2, <2>4, AuthSteps
    <3>2. ASSUME ~rebooted' PROVE OnGuest(k)'
      <4>1. at > Len(Steps) /\ ~rebooted
        BY <1>0, <1>4, <2>2, <3>2
      <4>2. at > k + 11 /\ at > k + 10 /\ at > k + 8 /\ at > k + 7 /\ at > k + 6 /\ at > k + 3 /\ at \notin k + 5..k + 11
        BY <2>2, <3>1, <4>1
      <4>3. /\ guest.ca = ca /\ guest.cert = server /\ guest.key = cmds /\ guest.conf /\ guest.docker # "none"
            /\ server = [no |-> cmds, ca |-> ca, master |-> machine.swarm = "master" /\ cmd # "regenerate"]
        BY <3>1, <4>1, <4>2 DEF Auth, OnGuest
      <4>4. server.no = cmds
        BY <4>3
      <4>5. ~Torn(guest)
        BY <2>2, <4>3, <4>4 DEF Torn
      <4>6. guest'.boot = "down" \/ guest'.daemon = [up |-> TRUE, tls |-> TRUE, ca |-> ca, cert |-> server]
        BY <1>2, <4>3, <4>5
      <4> QED
        BY <1>0, <1>2, <4>2, <4>3, <4>6 DEF OnGuest
    <3> QED
      BY <1>0, <3>1, <3>2 DEF Auth
  <2>5. ASSUME Restarts(Steps), at > Len(Steps) PROVE Restarted'
    <3>1. PICK i \in 1..Len(Steps) - 1 : Steps[i] = "version"
      BY <2>5 DEF Restarts
    <3>2. i \in 1..at - 1 /\ i <= Len(Steps)
      BY <2>2, <2>5
    <3>3. FilesCurrent
      BY <2>1, <3>1, <3>2
    <3>4. CASE rebooted /\ began.torn /\ machine.ssh = "native"
      BY <1>0, <3>4 DEF Restarted
    <3>5. CASE guest.docker # "none" /\ ~Torn(guest)
      <4>1. ASSUME GuestUp PROVE Trusted(guest)'
        <5>1. guest'.daemon = [up |-> TRUE, tls |-> TRUE, ca |-> guest.ca, cert |-> guest.cert]
          BY <1>2, <3>3, <3>5, <4>1 DEF FilesCurrent
        <5> QED
          BY <1>0, <3>3, <5>1 DEF Trusted, FilesCurrent
      <4>2. guest'.boot = "down" \/ Trusted(guest)'
        BY <1>2, <4>1
      <4> QED
        BY <1>2, <2>3, <3>5, <4>2 DEF Restarted
    <3> QED
      BY <2>1, <2>5, <3>4, <3>5 DEF Restarted
  <2> QED
    BY <1>2, <2>1, <2>3, <2>4, <2>5
<1> QED
  BY <1>5, <1>6, <1>7, <1>8 DEF IInv

\* A failure or an intervention: the command is disturbed.
LEMMA FaultStep ==
  ASSUME IInv, Interrupted \/ (OutputLost /\ Fault) \/ Activated \/ Renewed
  PROVE  IInv'
<1>0. /\ ~clean' /\ faults' = faults + 1 /\ faults < MaxFaults
      /\ UNCHANGED <<machine, os, server, copied, cmd, began, rebooted, cmds>>
  BY DEF Interrupted, OutputLost, Activated, Renewed, Fault, Ends, Same
<1>1. /\ TypeOK /\ Given /\ Good(guest, server, ca) /\ Unserved /\ Steps' = Steps
      /\ guest \in Guests /\ server \in Certs /\ ca \in Nat /\ faults \in Nat /\ MaxFaults \in Nat
  BY <1>0, BoundsAssumption DEF IInv, Steps, TypeOK
<1>2. Served' /\ Ended'
  BY <1>0 DEF Served, Ended, Undisturbed
<1>3. /\ guest' \in Guests /\ Good(guest', server, ca) /\ (running' => guest'.cert = guest.cert)
      /\ running' => guest'.boot = guest.boot
      /\ guest'.boot # "no" => guest.boot # "no" \/ os = "rancheros"
  <2>1. CASE Interrupted
    <3>1. ~running' /\ running /\ at <= Len(Steps) /\ guest' \in {guest, Effect, [guest EXCEPT !.iso = FALSE]}
      BY <2>1 DEF Interrupted, Ends, Busy
    <3>2. /\ [guest EXCEPT !.iso = FALSE] \in Guests /\ Good([guest EXCEPT !.iso = FALSE], server, ca)
          /\ [guest EXCEPT !.iso = FALSE].boot = guest.boot
      BY <1>1 DEF Guests, Good, Torn
    <3>3. Effect.boot \in {guest.boot, "no"} \/ step = "reboot"
      BY <1>1, EffectRest
    <3>4. step = "reboot" => os = "rancheros"
      BY <1>1, <3>1, Running
    <3> QED
      BY <1>1, <3>1, <3>2, <3>3, <3>4, EffectGood
  <2>2. CASE Activated
    <3>1. CanStart(guest) /\ guest' = Started(guest)
      BY <2>2 DEF Activated
    <3>2. Started(guest).boot = guest.boot
      BY <1>1 DEF Started, Guests
    <3> QED
      BY <1>1, <3>1, <3>2, StartedGood
  <2>3. CASE OutputLost \/ Renewed
    <3>1. guest' = guest
      BY <2>3 DEF OutputLost, Renewed
    <3> QED
      BY <1>1, <3>1
  <2> QED
    BY <2>1, <2>2, <2>3
<1>4. ca' \in {ca, ca + 1} /\ last' \in {last, "failed", "renewed"} /\ at' \in {at, at + 1}
  BY DEF Interrupted, OutputLost, Activated, Renewed, Ends, Same
<1>5. running' => running /\ last' = last
  BY DEF Interrupted, OutputLost, Activated, Renewed, Ends, Same
<1>6. TypeOK'
  <2>1. ca' \in 1..MaxFaults + 1
    BY <1>0, <1>1, <1>4 DEF TypeOK, Given
  <2>2. running' \in BOOLEAN /\ clean' \in BOOLEAN
    BY <1>1 DEF Interrupted, OutputLost, Activated, Renewed, Ends, Fault, TypeOK
  <2>3. faults' \in 0..MaxFaults /\ at' \in Nat \ {0}
    BY <1>0, <1>1, <1>4 DEF TypeOK
  <2> QED
    BY <1>0, <1>1, <1>3, <1>4, <2>1, <2>2, <2>3 DEF TypeOK
<1>7. Given'
  <2>1. ca' <= faults' + 1 /\ copied' <= ca'
    BY <1>0, <1>1, <1>4, BoundsAssumption DEF Given, TypeOK
  <2>2. last' = "ok" => last = "ok"
    BY <1>4
  <2>3. /\ running' /\ guest'.boot = "down" => rebooted'
        /\ guest'.boot # "no" \/ rebooted' => os' = "rancheros"
    BY <1>0, <1>1, <1>3, <1>5 DEF Given
  <2> QED
    BY <1>0, <1>1, <1>5, <2>1, <2>2, <2>3 DEF Given
<1>8. Good(guest, server, ca)'
  <2>1. /\ guest'.ca \in Nat /\ server.ca \in Nat
    BY <1>1, <1>3, Fields, CertFields
  <2> QED
    BY <1>0, <1>1, <1>3, <1>4, <2>1 DEF Good
<1>9. Unserved'
  <2> SUFFICES ASSUME running', NEW k \in 0..Len(Steps), LastAuth(Steps, k)
               PROVE  /\ at' <= k + 4 => guest'.cert.no < cmds
                      /\ at' > k + 3 => server.no = cmds
    BY <1>0, <1>1 DEF Unserved
  <2>1. /\ at <= k + 4 => guest.cert.no < cmds
        /\ at > k + 3 => server.no = cmds
    BY <1>1, <1>5 DEF Unserved
  <2>2. Len(Steps) \in Nat /\ at \in Nat \ {0} /\ k \in Nat
    BY <1>1, <1>5, Running
  <2>3. CASE at' = at
    BY <1>3, <2>1, <2>3
  <2>4. CASE at' # at
    <3>0. OutputLost
      BY <2>4 DEF Interrupted, Activated, Renewed, Ends
    <3>1. at \in 1..Len(Steps) /\ step \in Remote \cup {"reboot"} /\ at' = at + 1
      BY <2>2, <3>0 DEF OutputLost, Busy
    <3>2. at # k + 3
      BY <2>2, <3>1, StepAt DEF Remote
    <3> QED
      BY <1>3, <2>1, <2>2, <3>1, <3>2
  <2> QED
    BY <2>3, <2>4
<1> QED
  BY <1>2, <1>6, <1>7, <1>8, <1>9 DEF IInv

\* A command begins.
LEMMA StartStep ==
  ASSUME IInv, NEW c \in {"create", "provision", "regenerate", "upgrade"}, Start(c)
  PROVE  IInv'
<1>0. /\ cmds < MaxCommands /\ cmd' = c /\ at' = 1 /\ running' /\ clean' /\ last' = "running" /\ cmds' = cmds + 1
      /\ os' \in provisioners /\ CompatibleWithHost(os', machine.release) /\ rebooted' = (guest.boot = "down")
      /\ UNCHANGED <<machine, guest, ca, server, copied, faults>>
  BY DEF Start
<1>1. began'.on = guest.on /\ began'.old = (guest.docker = "old") /\ began'.torn = (guest.conf /\ Torn(guest))
  BY DEF Start
<1>2. /\ TypeOK /\ Given /\ Good(guest, server, ca) /\ guest \in Guests /\ server \in Certs /\ cmds \in Nat
      /\ server.no <= cmds /\ MaxCommands \in Nat
  BY BoundsAssumption DEF IInv, TypeOK
<1>3. guest.on \in BOOLEAN /\ guest.cert.no \in Nat /\ server.no \in Nat
  BY <1>2, Fields, CertFields
<1>4. TypeOK'
  <2>1. /\ cmds' \in 0..MaxCommands /\ server.no <= cmds' /\ at' \in Nat \ {0} /\ running' \in BOOLEAN /\ clean' \in BOOLEAN
        /\ rebooted' \in BOOLEAN
    <3>1. running' = TRUE /\ clean' = TRUE
      BY DEF Start
    <3> QED
      BY <1>0, <1>2, <1>3, <3>1
  <2> QED
    BY <1>0, <1>2, <2>1 DEF TypeOK
<1>5. Given'
  <2>1. guest.boot # "no" => os' = "rancheros"
    <3> SUFFICES ASSUME guest.boot # "no" PROVE os' = "rancheros"
      OBVIOUS
    <3>1. os = "rancheros" /\ CompatibleWithHost(os, machine.release) /\ machine.release \in Releases
      BY <1>2 DEF Given
    <3>2. os \in provisioners
      BY <3>1 DEF provisioners
    <3> QED
      BY <1>0, <3>1, <3>2, OneCompatible
  <2>2. /\ running' /\ guest'.boot = "down" => rebooted'
        /\ guest'.boot # "no" \/ rebooted' => os' = "rancheros"
    BY <1>0, <2>1
  <2> QED
    BY <1>0, <1>1, <1>2, <1>3, <2>2 DEF Given
<1>6. Good(guest, server, ca)'
  BY <1>0, <1>2
<1>7. Unserved'
  <2>1. guest.cert.no < cmds'
    BY <1>0, <1>2, <1>3 DEF Good
  <2>2. ASSUME NEW k \in 0..Len(Steps') PROVE ~(at' > k + 3)
    BY <1>0, <2>2
  <2> QED
    BY <1>0, <2>1, <2>2 DEF Unserved
<1>8. Served'
  <2> DEFINE x == <<cmd', os', machine'.swarm, machine'.vbox, began'.on, began'.old>>
  <2>1. x \in Kinds
    BY <1>0, <1>1, <1>2, <1>3 DEF Kinds, Given
  <2>2. Steps' = Programs[x]
    BY DEF Steps
  <2>3. Len(Steps') \in Nat
    <3> HIDE DEF x
    <3> QED
      BY <2>1, <2>2, OrderAssumption
  <2>4. \A k \in 0..Len(Steps') : Auth(k)'
    BY <1>0 DEF Auth, OnGuest
  <2>5. Restarts(Steps') => Len(Steps') > 1
    BY <2>3 DEF Restarts
  <2>6. guest'.conf /\ Torn(guest') => began'.torn
    BY <1>0, <1>1 DEF Torn
  <2> QED
    BY <1>0, <2>3, <2>4, <2>5, <2>6 DEF Served
<1>9. Ended'
  BY <1>0 DEF Ended
<1> QED
  BY <1>4, <1>5, <1>6, <1>7, <1>8, <1>9 DEF IInv

LEMMA InitStep == Init => IInv
<1> SUFFICES ASSUME Init PROVE IInv
  OBVIOUS
<1>1. PICK d \in {"none", "old", "ce"} :
        guest = [on |-> TRUE, boot |-> "no", iso |-> TRUE, docker |-> d, dir |-> d = "old", ca |-> 0, cert |-> NoCert, key |-> 0,
                 conf |-> FALSE, loaded |-> FALSE, containers |-> {},
                 daemon |-> [Down EXCEPT !.up = d # "none"]]
  BY DEF Init
<1>2. /\ os = "none" /\ ca = 1 /\ server = NoCert /\ copied = 0 /\ cmd = "none" /\ at = 1 /\ running = FALSE /\ rebooted = FALSE
      /\ cmds = 0 /\ faults = 0 /\ clean = TRUE /\ last = "none" /\ began.on \in BOOLEAN /\ began.old \in BOOLEAN
      /\ machine.release \in Releases /\ machine.swarm \in {"no", "master", "agent"} /\ machine.vbox \in BOOLEAN
  BY DEF Init
<1> DEFINE up == [Down EXCEPT !.up = d # "none"]
<1>3. /\ up \in Daemons /\ up.up = (d # "none") /\ up.tls = FALSE /\ up.ca = 0 /\ up.cert = NoCert
  BY DownTyped DEF Down, Daemons
<1> HIDE DEF up
<1>4. /\ guest.docker = d /\ guest.ca = 0 /\ guest.cert = NoCert /\ guest.loaded = FALSE /\ guest.conf = FALSE
      /\ guest.daemon = up /\ guest.boot = "no"
  BY <1>1 DEF up
<1>5. guest \in Guests
  BY <1>1, <1>3, DownTyped, BoundsAssumption DEF Guests, up
<1>6. server \in Certs /\ NoCert.no = 0 /\ NoCert.ca = 0
  BY <1>2, DownTyped DEF NoCert
<1>7. TypeOK
  <2>1. 1 \in 1..MaxFaults + 1 /\ 0 \in 0..MaxFaults + 1 /\ 0 \in 0..MaxCommands /\ 0 \in 0..MaxFaults /\ server.no = 0
    BY <1>2, <1>6, BoundsAssumption
  <2>2. /\ os \in provisioners \cup {"none"}
        /\ cmd \in {"none", "create", "provision", "regenerate", "upgrade"}
        /\ last \in {"none", "running", "ok", "failed", "renewed"}
    BY <1>2
  <2>3. running \in BOOLEAN /\ clean \in BOOLEAN /\ rebooted \in BOOLEAN
    BY <1>2
  <2>4. at \in Nat \ {0} /\ ca \in 1..MaxFaults + 1 /\ copied \in 0..MaxFaults + 1
    BY <1>2, <2>1
  <2>5. cmds \in 0..MaxCommands /\ faults \in 0..MaxFaults /\ server.no <= cmds
    BY <1>2, <2>1
  <2> QED
    BY <1>5, <1>6, <2>2, <2>3, <2>4, <2>5 DEF TypeOK
<1>8. Good(guest, server, ca)
  <2>1. /\ server.ca = 0 /\ server.no = 0 /\ guest.cert.ca = 0 /\ guest.cert.no = 0 /\ guest.daemon.ca = 0
        /\ guest.daemon.cert.ca = 0 /\ guest.daemon.cert.no = 0 /\ guest.daemon.tls = FALSE
        /\ guest.daemon.up = (guest.docker # "none")
    BY <1>2, <1>3, <1>4, <1>6
  <2>2. ~guest.daemon.tls /\ ~guest.loaded /\ (guest.docker = "none" => ~guest.daemon.up)
    BY <1>4, <2>1
  <2>3. ca = 1 /\ guest.ca = 0
    BY <1>2, <1>4
  <2>4. /\ server.ca <= ca /\ guest.ca <= ca /\ guest.cert.ca <= server.ca /\ guest.cert.no <= server.no
        /\ guest.daemon.ca <= guest.ca /\ guest.daemon.cert.ca <= guest.cert.ca
        /\ guest.daemon.cert.no <= guest.cert.no
    BY <2>1, <2>3
  <2> QED
    BY <2>2, <2>4 DEF Good
<1>9. Given
  BY <1>2, <1>4 DEF Given
<1> QED
  BY <1>2, <1>7, <1>8, <1>9 DEF IInv, Unserved, Served, Ended, Undisturbed

LEMMA NextStep == IInv /\ [Next]_vars => IInv'
<1> SUFFICES ASSUME IInv, [Next]_vars PROVE IInv'
  OBVIOUS
<1>1. CASE UNCHANGED vars
  <2>1. UNCHANGED <<machine, os, guest, ca, server, copied, cmd, at, began, running, rebooted, cmds, faults, clean, last>>
    BY <1>1 DEF vars
  <2>2. Steps' = Steps /\ FilesCurrent' = FilesCurrent /\ Restarted' = Restarted /\ Undisturbed' = Undisturbed
    BY <2>1 DEF Steps, FilesCurrent, Restarted, Trusted, Undisturbed
  <2>3. \A k : Auth(k)' = Auth(k)
    BY <2>1 DEF Auth, OnGuest
  <2>4. TypeOK' /\ Given' /\ Good(guest, server, ca)'
    BY <2>1 DEF IInv, TypeOK, Given
  <2>5. Unserved' /\ Ended'
    BY <2>1, <2>2 DEF IInv, Unserved, Ended
  <2>6. Served'
    BY <2>1, <2>2, <2>3 DEF IInv, Served
  <2> QED
    BY <2>4, <2>5, <2>6 DEF IInv
<1>2. CASE OutputLost
  <2>1. Fault \/ (UNCHANGED <<faults, clean>> /\ machine.ssh = "native" /\ step \in Remote /\ guest.boot = "down")
    BY <1>2 DEF OutputLost
  <2> QED
    BY <1>2, <2>1, LostStep, FaultStep
<1>3. CASE Next /\ ~OutputLost
  BY <1>3, WorksStep, FailStep, EndStep, FaultStep, GuestStep, StartStep DEF Next
<1> QED
  BY <1>1, <1>2, <1>3

\* TypeOK: certificates are numbered by the commands that signed them, never by later ones,
\* and the guest, the store and the machine's directory have no certificate of a CA that
\* never was.
THEOREM ProvisionTyped == Spec => []TypeOK
<1>1. IInv => TypeOK
  BY DEF IInv
<1> QED
  BY <1>1, InitStep, NextStep, PTL DEF Spec

\* OkMeansServed (provisioner.go:73, host.go:268): a command that nothing disturbed and that
\* succeeded has left a daemon that the client trusts, with the certificate that it signed,
\* whatever any number of earlier commands did before they were cut off; unless the reboot of
\* an upgrade fell into it or is not over.
THEOREM SuccessServes == Spec => []OkMeansServed
<1>1. IInv => OkMeansServed
  <2> SUFFICES ASSUME IInv, last = "ok", clean
               PROVE  /\ \/ guest.boot = "down"
                         \/ Trusted(guest)
                         \/ rebooted /\ (cmd # "upgrade" \/ (began.torn /\ machine.ssh = "native"))
                      /\ cmd # "upgrade" /\ ~rebooted =>
                           copied = ca /\ (guest.boot = "down" \/ guest.daemon.cert = server)
                      /\ cmd \in {"create", "provision"} => server.master = (machine.swarm = "master")
    BY DEF OkMeansServed
  <2>1. TypeOK /\ Given /\ Undisturbed /\ at > Len(Steps)
    BY DEF IInv, Undisturbed, Ended
  <2>2. Len(Steps) \in Nat /\ at \in Nat
    BY <2>1, Running
  <2>3. CASE \E k \in 0..Len(Steps) : LastAuth(Steps, k)
    <3>1. PICK k \in 0..Len(Steps) : LastAuth(Steps, k)
      BY <2>3
    <3>2. Auth(k)
      BY <2>1, <3>1 DEF IInv, Served
    <3>3. k + 12 <= Len(Steps)
      BY <2>2, <3>1, AuthSteps
    <3>4. at > k + 2 /\ at > k + 3 /\ at > k + 11
      BY <2>1, <2>2, <3>3
    <3>5. /\ copied = ca
          /\ server = [no |-> cmds, ca |-> ca, master |-> machine.swarm = "master" /\ cmd # "regenerate"]
          /\ ~rebooted => guest.boot = "down" \/ guest.daemon = [up |-> TRUE, tls |-> TRUE, ca |-> ca, cert |-> server]
      BY <3>2, <3>4 DEF Auth, OnGuest
    <3>6. server.ca = ca /\ server.master = (machine.swarm = "master" /\ cmd # "regenerate")
      BY <3>5
    <3>7. rebooted => cmd # "upgrade"
      <4> SUFFICES ASSUME rebooted, cmd = "upgrade" PROVE FALSE
        OBVIOUS
      <4>1. Restarts(Steps)
        BY <2>1, Running DEF Given
      <4>2. Steps[k + 3] = "sign" /\ k + 3 \in 1..Len(Steps)
        BY <2>2, <3>1, <3>3, AuthSteps
      <4> QED
        BY <4>1, <4>2 DEF Restarts
    <3>8. ~rebooted => guest.boot = "down" \/ (Trusted(guest) /\ guest.daemon.cert = server)
      BY <3>5, <3>6 DEF Trusted
    <3> QED
      BY <3>5, <3>6, <3>7, <3>8
  <2>4. CASE cmd = "upgrade" /\ Restarts(Steps)
    BY <2>1, <2>4 DEF IInv, Served, Restarted
  <2> QED
    BY <2>1, <2>3, <2>4, Running
<1> QED
  BY <1>1, InitStep, NextStep, PTL DEF Spec

\* NoIdleOutage (utils.go:63 to 115): no step, and no step that is cut off, takes a daemon
\* down that serves before a newer certificate is in the store.
THEOREM ServesUntilSigned == Spec => NoIdleOutage
<1> DEFINE A == guest.daemon.tls /\ ~guest'.daemon.up /\ Reachable(guest') /\ guest'.docker # "none"
                  => server.no > guest.daemon.cert.no
<1>1. ASSUME IInv, [Next]_vars PROVE [A]_vars
  <2> SUFFICES ASSUME Next, guest.daemon.tls, ~guest'.daemon.up, Reachable(guest'), guest'.docker # "none"
               PROVE  server.no > guest.daemon.cert.no
    BY <1>1
  <2>1. TypeOK /\ Given /\ Good(guest, server, ca) /\ guest \in Guests /\ server \in Certs /\ ca \in Nat
    BY <1>1, BoundsAssumption DEF IInv, TypeOK
  <2>2. /\ guest.daemon.cert.no \in Nat /\ guest.cert.no \in Nat /\ server.no \in Nat
        /\ guest.daemon.cert.no <= guest.cert.no /\ guest.cert.no <= server.no
        /\ guest.daemon.up /\ guest.docker # "none"
    BY <2>1, Fields, CertFields, DaemonFields DEF Good
  <2>8. CASE GuestUp
    <3>1. Torn(guest)
      BY <2>1, <2>2, <2>8, GuestRebooted
    <3> QED
      BY <2>1, <2>2, <3>1 DEF Good
  <2> SUFFICES ASSUME ~GuestUp PROVE server.no > guest.daemon.cert.no
    BY <2>8
  <2>3. running /\ at <= Len(Steps) /\ guest' = Effect /\ (Works \/ step \in {"start", "restart"})
    <3>1. guest'.daemon # guest.daemon
      BY <2>2
    <3>2. ~Activated
      BY <2>2 DEF Activated
    <3>3. [guest EXCEPT !.iso = FALSE].daemon = guest.daemon
      BY <2>1 DEF Guests
    <3>4. ~GuestDown
      BY <2>1, GuestRebooted DEF Reachable
    <3> QED
      BY <3>1, <3>2, <3>3, <3>4 DEF Next, StepWorks, StepFails, Done, Interrupted, OutputLost, Renewed, Start, Busy
  <2>4. Len(Steps) \in Nat /\ at \in 1..Len(Steps) /\ cmds \in Nat
    BY <2>1, <2>3, Running
  <2>5. step \in {"stop", "poweron", "start", "restart"}
    BY <2>1, <2>2, <2>3, EffectGood DEF Switches, Reachable
  <2>6. CASE step = "stop"
    <3>1. ~Restarts(Steps)
      BY <2>4, <2>6 DEF Restarts, step
    <3>2. PICK k \in 0..Len(Steps) : LastAuth(Steps, k)
      BY <2>1, <2>3, <3>1, Running
    <3>3. at = k + 4
      BY <2>4, <2>6, <3>2, StepAt
    <3>4. guest.cert.no < cmds /\ server.no = cmds
      BY <1>1, <2>3, <2>4, <3>2, <3>3 DEF IInv, Unserved
    <3> QED
      BY <2>2, <2>4, <3>4
  <2>7. CASE step \in {"poweron", "start", "restart"}
    <3>1. Torn(guest)
      BY <2>1, <2>2, <2>3, <2>7, EffectGood, EffectRest DEF Whole
    <3> QED
      BY <2>1, <2>2, <3>1 DEF Good
  <2> QED
    BY <2>5, <2>6, <2>7
<1> QED
  BY <1>1, InitStep, NextStep, PTL DEF Spec, NoIdleOutage

\* SameProvisioner (provisioner.go:122): in whatever order DetectProvisioner asks them, every
\* command takes the provisioner of the ones before.
THEOREM OneProvisioner == Spec => SameProvisioner
<1>1. ASSUME IInv, [Next]_vars PROVE [os # "none" => os' = os]_vars
  <2> SUFFICES ASSUME Next, os # "none" PROVE os' = os
    BY <1>1
  <2>1. ASSUME NEW c \in {"create", "provision", "regenerate", "upgrade"}, Start(c) PROVE os' = os
    <3>1. os' \in provisioners /\ CompatibleWithHost(os', machine.release)
      BY <2>1 DEF Start
    <3>2. os \in provisioners /\ CompatibleWithHost(os, machine.release) /\ machine.release \in Releases
      BY <1>1 DEF IInv, TypeOK, Given
    <3> QED
      BY <3>1, <3>2, OneCompatible
  <2> QED
    BY <2>1 DEF Next, StepWorks, StepFails, Done, Interrupted, OutputLost, Activated, Renewed, GuestDown, GuestUp, Same
<1> QED
  BY <1>1, InitStep, NextStep, PTL DEF Spec, SameProvisioner

--------------------------------------------------------------------------------
(* A command that nothing disturbs succeeds.                                *)

\* The machine runs an image that has Docker.
Imaged == \E p \in Images : CompatibleWithHost(p, machine.release)

\* What is so at any time, also after a step that was cut off.
Lasting ==
  /\ machine.activates \in BOOLEAN
  /\ \A p \in provisioners : CompatibleWithHost(p, machine.release) => (machine.activates => p \in Systemd)
  /\ began.trusted => began.up
  /\ began.up => began.on
  /\ guest.daemon.up \/ guest.boot # "no" => guest.on
  /\ guest.daemon.up => guest.dir \/ Imaged
  /\ Imaged => guest.docker # "none"

\* The command found none of the obstacles that RetryConverges names.
Able ==
  /\ began.on \/ cmd = "upgrade"
  /\ began.up \/ began.bare \/ os \notin MayStick \/ machine.activates
  /\ ~began.torn \/ os \notin MayChoke
  /\ began.containers = {} \/ cmd = "regenerate"
  /\ cmd = "upgrade" => began.trusted /\ ~began.torn /\ ~(began.old /\ os \in {"arch"} \cup SUSEs)

\* What the steps before the next one have brought about, or left as the command found it.
PowerOn == ~Since(Steps, at, {"poweroff"}, {"poweron"}) => guest.on
DockerThere == HasDocker(Steps, os, at) => guest.docker # "none"
DirThere == HasDir(Steps, os, at) => guest.dir
FilesWhole == (cmd = "upgrade" \/ os \in MayChoke) /\ ~Since(Steps, at, Writes, {}) => Whole
DaemonUp == Since(Steps, at, Starts, Stops \cup {"purge"}) => guest.daemon.up
Alive == guest.daemon.up \/ guest.docker = "none" \/ machine.activates
DaemonAlive == os \in MayStick \cap (Apt \cup {"boot2docker"}) /\ ~Since(Steps, at, Stops, {}) => Alive
StillTrusted ==
  cmd = "upgrade" /\ ~Since(Steps, at, Starts \cup Stops \cup {"install", "purge"}, {}) => Trusted(guest)
OwnContainers == cmd # "regenerate" => \A c \in guest.containers : Since(Steps, at, {c}, {})

Prepared == PowerOn /\ DockerThere /\ DirThere /\ FilesWhole /\ DaemonUp /\ DaemonAlive /\ StillTrusted /\ OwnContainers

RInv == IInv /\ Lasting /\ (running /\ clean /\ ~rebooted /\ Able => Prepared) /\ RetryConverges

\* One of the steps A is before the next place if it is here, or before here.
LEMMA SinceNext ==
  ASSUME NEW P, NEW n \in Nat \ {0}, NEW A, NEW B
  PROVE  Since(P, n + 1, A, B) <=> P[n] \in A \/ (Since(P, n, A, B) /\ P[n] \notin B)
<1>1. ASSUME P[n] \in A PROVE Since(P, n + 1, A, B)
  <2>1. n \in 1..n + 1 - 1 /\ \A m \in n + 1..n + 1 - 1 : P[m] \notin B
    OBVIOUS
  <2> QED
    BY <1>1, <2>1 DEF Since
<1>2. ASSUME Since(P, n, A, B), P[n] \notin B PROVE Since(P, n + 1, A, B)
  <2>1. PICK j \in 1..n - 1 : P[j] \in A /\ \A m \in j + 1..n - 1 : P[m] \notin B
    BY <1>2 DEF Since
  <2>2. j \in 1..n + 1 - 1 /\ \A m \in j + 1..n + 1 - 1 : m \in j + 1..n - 1 \/ m = n
    OBVIOUS
  <2>3. \A m \in j + 1..n + 1 - 1 : P[m] \notin B
    BY <1>2, <2>1, <2>2
  <2> QED
    BY <2>1, <2>2, <2>3 DEF Since
<1>3. ASSUME Since(P, n + 1, A, B), P[n] \notin A PROVE Since(P, n, A, B) /\ P[n] \notin B
  <2>1. PICK j \in 1..n + 1 - 1 : P[j] \in A /\ \A m \in j + 1..n + 1 - 1 : P[m] \notin B
    BY <1>3 DEF Since
  <2>2. j # n
    BY <1>3, <2>1
  <2>3. j \in 1..n - 1 /\ n \in j + 1..n + 1 - 1 /\ \A m \in j + 1..n - 1 : m \in j + 1..n + 1 - 1
    BY <2>2
  <2> QED
    BY <2>1, <2>3 DEF Since
<1> QED
  BY <1>1, <1>2, <1>3

LEMMA SinceFirst ==
  ASSUME NEW P, NEW A, NEW B
  PROVE  ~Since(P, 1, A, B)
  BY DEF Since

\* What the next step needs, by ReadyAssumption.
LEMMA ReadyHere ==
  ASSUME TypeOK, Given, running, began.on, at \in 1..Len(Steps)
  PROVE  /\ step \in Remote \cup {"port"} => ~Since(Steps, at, {"poweroff"}, {"poweron"})
         /\ step \in Starts \cup {"stop", "options"} => HasDocker(Steps, os, at)
         /\ step \in {"uploadca", "uploadcert", "uploadkey"} => HasDir(Steps, os, at)
         /\ step \in Starts \cup {"install"} =>
              Configured(Steps, at) \/ (~Since(Steps, at, Writes, {}) /\ (cmd = "upgrade" \/ os \in MayChoke))
         /\ step = "responding" => Since(Steps, at, Starts, Stops \cup {"purge"}) \/ Awaits(Steps, os, at)
         /\ step = "port" => Configured(Steps, at) \/ (os = "boot2docker" /\ Awaits(Steps, os, at))
         /\ step \in {"master", "agent", "check"} => Configured(Steps, at)
         /\ step \in {"master", "agent"} => cmd # "regenerate" /\ ~Since(Steps, at, {step}, {})
         /\ step = "poweron" => cmd = "upgrade"
         /\ step = "version" => cmd = "upgrade" /\ ~Since(Steps, at, Starts \cup Stops \cup {"install", "purge"}, {})
         /\ step = "refused" => cmd = "upgrade" /\ began.old /\ os \in {"arch"} \cup SUSEs
<1> DEFINE x == <<cmd, os, machine.swarm, machine.vbox, began.on, began.old>>
<1>1. x \in Kinds /\ x[1] = cmd /\ x[2] = os /\ x[5] = began.on /\ x[6] = began.old
  BY DEF Kinds, Given, TypeOK
<1>2. Steps = Programs[x] /\ step = Steps[at]
  BY DEF Steps, step
<1> HIDE DEF x
<1>3. Ready(x, at)
  BY <1>1, <1>2, ReadyAssumption
<1> QED
  BY <1>1, <1>2, <1>3, Zenon DEF Ready

\* The provisioner of the machine is the one for an image, or there is none for an image.
LEMMA ImagedOs ==
  ASSUME TypeOK, Given, os # "none"
  PROVE  Imaged <=> os \in Images
<1>1. os \in provisioners /\ CompatibleWithHost(os, machine.release) /\ machine.release \in Releases
  BY DEF TypeOK, Given
<1>2. Images \subseteq provisioners
  BY DEF Images, provisioners
<1> QED
  BY <1>1, <1>2, OneCompatible DEF Imaged

LEMMA NoPurge ==
  ASSUME TypeOK, Given, running, at \in 1..Len(Steps), step = "purge"
  PROVE  ~Imaged
<1> DEFINE x == <<cmd, os, machine.swarm, machine.vbox, began.on, began.old>>
<1>1. x \in Kinds /\ x[2] = os /\ os \in provisioners
  BY DEF Kinds, Given, TypeOK
<1>2. Programs[x][at] = "purge" /\ at \in 1..Len(Programs[x])
  BY DEF Steps, step
<1>3. os # "none"
  BY <1>1 DEF provisioners, RedHats, SUSEs
<1> HIDE DEF x
<1>4. os \notin Images
  BY <1>1, <1>2, ReadyAssumption
<1> QED
  BY <1>3, <1>4, ImagedOs

\* A step that works, or that fails to start the daemon, keeps what lasts, whether the command
\* goes on or is cut off.
LEMMA LastingEffect ==
  ASSUME IInv, Lasting, Busy, Works \/ (step \in {"start", "restart"} /\ Reachable(guest))
  PROVE  /\ Effect.daemon.up \/ Effect.boot # "no" => Effect.on
         /\ Effect.daemon.up => Effect.dir \/ Imaged
         /\ Imaged => Effect.docker # "none"
<1>1. /\ TypeOK /\ Given /\ Good(guest, server, ca) /\ running /\ at \in 1..Len(Steps)
      /\ step \in Remote => guest.on
  <2>1. TypeOK /\ Given /\ Good(guest, server, ca) /\ running /\ at <= Len(Steps)
    BY DEF IInv, Busy
  <2>2. at \in Nat \ {0} /\ Len(Steps) \in Nat
    BY <2>1, Running
  <2> QED
    BY <2>1, <2>2 DEF Works, Reachable
<1>2. /\ guest.on /\ step # "poweroff" => Effect.on
      /\ step = "poweron" => Effect.on
      /\ Effect.boot \in {guest.boot, "no"} \/ (step = "reboot" /\ Effect.boot = "told" /\ guest.on)
      /\ step = "poweroff" => Effect.boot = "no"
      /\ guest.docker # "none" /\ step # "purge" => Effect.docker # "none"
      /\ guest.dir => Effect.dir
      /\ Effect.daemon.up => guest.daemon.up \/ Effect.dir
      /\ Effect.daemon.up => guest.daemon.up \/ step \in Starts \cup {"install", "poweron"}
      /\ Effect.daemon.up => step \notin {"stop", "purge", "poweroff"}
  BY <1>1, EffectRest
<1>3. Starts \cup {"install"} \subseteq Remote
  BY DEF Starts, Remote
<1>4. Effect.daemon.up => Effect.on
  BY <1>1, <1>2, <1>3 DEF Lasting
<1>7. Effect.boot # "no" => Effect.on
  BY <1>2 DEF Lasting
<1>5. Effect.daemon.up => Effect.dir \/ Imaged
  BY <1>2 DEF Lasting
<1>6. Imaged => Effect.docker # "none"
  BY <1>1, <1>2, NoPurge DEF Lasting
<1> QED
  BY <1>4, <1>5, <1>6, <1>7

LEMMA LastingStep ==
  ASSUME IInv, Lasting, Next
  PROVE  Lasting'
<1>0. TypeOK /\ Given /\ guest \in Guests /\ Good(guest, server, ca)
  BY DEF IInv, TypeOK
<1>1. machine' = machine /\ Imaged' = Imaged
  BY DEF Next, StepWorks, StepFails, Done, Interrupted, OutputLost, Activated, Renewed, GuestDown, GuestUp, Start, Same, Imaged
<1>2. /\ machine'.activates \in BOOLEAN
      /\ \A p \in provisioners : CompatibleWithHost(p, machine'.release) => (machine'.activates => p \in Systemd)
  BY <1>1 DEF Lasting
<1>3. /\ guest'.daemon.up \/ guest'.boot # "no" => guest'.on
      /\ guest'.daemon.up => guest'.dir \/ Imaged
      /\ Imaged => guest'.docker # "none"
  <2>1. CASE guest' = guest
    BY <2>1 DEF Lasting
  <2>2. CASE Busy /\ (Works \/ (step \in {"start", "restart"} /\ Reachable(guest))) /\ guest' = Effect
    BY <2>2, LastingEffect
  <2>3. CASE guest' = [guest EXCEPT !.iso = FALSE]
    <3>1. /\ guest'.daemon = guest.daemon /\ guest'.on = guest.on /\ guest'.dir = guest.dir /\ guest'.docker = guest.docker
          /\ guest'.boot = guest.boot
      BY <1>0, <2>3 DEF Guests
    <3> QED
      BY <3>1 DEF Lasting
  <2>4. CASE Activated
    <3>1. guest.on /\ CanStart(guest) /\ guest' = Started(guest)
      BY <2>4 DEF Activated, Reachable
    <3>2. guest'.on = guest.on /\ guest'.dir = TRUE /\ guest'.docker = guest.docker
      BY <1>0, <3>1 DEF Started, Guests
    <3> QED
      BY <3>1, <3>2 DEF Lasting
  <2>5. CASE GuestDown \/ GuestUp
    BY <1>0, <2>5, GuestRebooted DEF Lasting
  <2> QED
    BY <2>1, <2>2, <2>3, <2>4, <2>5
    DEF Next, StepWorks, StepFails, Done, Interrupted, OutputLost, Renewed, Start
<1>4. (began'.trusted => began'.up) /\ (began'.up => began'.on)
  <2>1. CASE began' = began
    BY <2>1 DEF Lasting
  <2>2. ASSUME NEW c \in {"create", "provision", "regenerate", "upgrade"}, Start(c)
        PROVE  (began'.trusted => began'.up) /\ (began'.up => began'.on)
    <3>1. began'.trusted = Trusted(guest) /\ began'.up = guest.daemon.up /\ began'.on = guest.on
      BY <2>2 DEF Start
    <3>2. Trusted(guest) => guest.daemon.up
      BY <1>0 DEF Good, Trusted
    <3> QED
      BY <3>1, <3>2 DEF Lasting
  <2> QED
    BY <2>1, <2>2 DEF Next, StepWorks, StepFails, Done, Interrupted, OutputLost, Activated, Renewed, GuestDown, GuestUp, Same
<1> QED
  BY <1>1, <1>2, <1>3, <1>4 DEF Lasting

\* Once the options are written, the files are whole and Docker is started; then it serves.
LEMMA ConfiguredHere ==
  ASSUME IInv, running, clean, ~rebooted, at \in 1..Len(Steps), Configured(Steps, at)
  PROVE  \/ step = "start" /\ ~Torn(guest)
         \/ step \notin Switches /\ guest.daemon.up /\ guest.daemon.tls /\ Trusted(guest)
<1>1. TypeOK /\ Given
  BY DEF IInv
<1>2. Len(Steps) \in Nat /\ at \in Nat /\ cmds \in Nat \ {0} /\ ca \in Nat \ {0}
  BY <1>1, Running
<1>3. PICK k \in 0..Len(Steps) : LastAuth(Steps, k) /\ at > k + 10
  BY DEF Configured
<1>4. k \in Nat /\ Auth(k)
  BY <1>2, <1>3 DEF IInv, Served, Undisturbed
<1>5. at = k + 11 => step = "start"
  BY <1>2, <1>3, StepAt
<1>6. at > k + 4 /\ at # k + 11 => step \notin Switches
  BY <1>2, <1>3, StepAt
<1>7. at > k + 3 /\ at > k + 6 /\ at > k + 7 /\ at > k + 8
  BY <1>2, <1>3, <1>4
<1>8. /\ server = [no |-> cmds, ca |-> ca, master |-> machine.swarm = "master" /\ cmd # "regenerate"]
      /\ guest.ca = ca /\ guest.cert = server /\ guest.key = cmds
  BY <1>4, <1>7 DEF Auth, OnGuest
<1>9. server.no = cmds /\ server.ca = ca
  BY <1>8
<1>10. CASE at = k + 11
  <2>1. ~Torn(guest)
    BY <1>2, <1>8, <1>9 DEF Torn
  <2> QED
    BY <1>5, <1>10, <2>1
<1>11. CASE at > k + 11
  <2>1. guest.daemon = [up |-> TRUE, tls |-> TRUE, ca |-> ca, cert |-> server]
    BY <1>1, <1>4, <1>11 DEF Auth, OnGuest, Given
  <2>2. guest.daemon.up /\ guest.daemon.tls /\ guest.daemon.ca = ca /\ guest.daemon.cert.ca = ca
    BY <1>9, <2>1
  <2>3. at > k + 4 /\ at # k + 11
    BY <1>2, <1>4, <1>11
  <2> QED
    BY <1>6, <2>2, <2>3 DEF Trusted
<1> QED
  BY <1>2, <1>3, <1>4, <1>10, <1>11

\* Where Docker is started or installed, its files are whole.
LEMMA WholeHere ==
  ASSUME IInv, Prepared, running, clean, ~rebooted, began.on, at \in 1..Len(Steps), step \in Starts \cup {"install"}
  PROVE  Whole
<1>1. Configured(Steps, at) \/ (~Since(Steps, at, Writes, {}) /\ (cmd = "upgrade" \/ os \in MayChoke))
  BY ReadyHere DEF IInv
<1>2. Configured(Steps, at) => ~Torn(guest)
  BY ConfiguredHere DEF Starts, Switches
<1> QED
  BY <1>1, <1>2 DEF Prepared, FilesWhole, Whole

LEMMA AbleOn ==
  ASSUME Lasting, Able
  PROVE  began.on
  BY DEF Lasting, Able

\* Nothing but an image that is not whole keeps the next step from its work.
LEMMA StepReady ==
  ASSUME IInv, Lasting, Able, Prepared, running, clean, ~rebooted, at \in 1..Len(Steps)
  PROVE  Works \/ (cmd = "upgrade" /\ ~guest.iso)
<1>0. TypeOK /\ Given /\ Good(guest, server, ca) /\ guest \in Guests /\ began.on /\ os # "none" /\ os \in provisioners
  <2>1. os \in provisioners
    BY DEF IInv, Given
  <2>2. "none" \notin provisioners
    BY DEF provisioners, RedHats, SUSEs
  <2> QED
    BY <2>1, <2>2, AbleOn DEF IInv, TypeOK
<1>1. /\ step \in Remote \cup {"port"} => ~Since(Steps, at, {"poweroff"}, {"poweron"})
      /\ step \in Starts \cup {"stop", "options"} => HasDocker(Steps, os, at)
      /\ step \in {"uploadca", "uploadcert", "uploadkey"} => HasDir(Steps, os, at)
      /\ step = "responding" => Since(Steps, at, Starts, Stops \cup {"purge"}) \/ Awaits(Steps, os, at)
      /\ step = "port" => Configured(Steps, at) \/ (os = "boot2docker" /\ Awaits(Steps, os, at))
      /\ step \in {"master", "agent", "check"} => Configured(Steps, at)
      /\ step \in {"master", "agent"} => cmd # "regenerate" /\ ~Since(Steps, at, {step}, {})
      /\ step = "poweron" => cmd = "upgrade"
      /\ step = "version" => cmd = "upgrade" /\ ~Since(Steps, at, Starts \cup Stops \cup {"install", "purge"}, {})
      /\ step = "refused" => cmd = "upgrade" /\ began.old /\ os \in {"arch"} \cup SUSEs
  BY <1>0, ReadyHere
<1>2. step \in Remote \cup {"port"} => Reachable(guest)
  BY <1>0, <1>1 DEF Prepared, PowerOn, Given, Reachable
<1>3. step \in Starts \cup {"stop", "options"} => guest.docker # "none"
  BY <1>1 DEF Prepared, DockerThere
<1>4. CanStart(Reload(guest)) <=> guest.docker # "none" /\ Whole
  BY <1>0, RestGood DEF Whole
<1>5. Awaits(Steps, os, at) => guest.daemon.up \/ machine.activates
  BY DEF Prepared, DaemonAlive, DockerThere, Awaits, Alive
<1>6. guest.docker # "none" /\ Whole => CanStart(guest)
  BY <1>0 DEF Good, CanStart, Whole
<1>7. CASE step \in {"start", "restart"}
  <2>1. Whole /\ guest.docker # "none"
    BY <1>0, <1>3, <1>7, WholeHere DEF Starts
  <2> QED
    BY <1>2, <1>4, <1>7, <2>1 DEF Works
<1>8. CASE step = "responding"
  <2>1. Whole /\ guest.docker # "none"
    BY <1>0, <1>3, <1>8, WholeHere DEF Starts
  <2>2. guest.daemon.up \/ machine.activates
    BY <1>1, <1>5, <1>8 DEF Prepared, DaemonUp
  <2> QED
    BY <1>2, <1>6, <1>8, <2>1, <2>2 DEF Works
<1>9. CASE step \in {"stop", "options"}
  BY <1>2, <1>3, <1>9 DEF Works
<1>10. CASE step \in {"uploadca", "uploadcert", "uploadkey"}
  <2>1. guest.dir
    BY <1>1, <1>10 DEF Prepared, DirThere
  <2> QED
    BY <1>2, <1>10, <2>1 DEF Works
<1>11. CASE step = "port"
  <2>1. CASE Configured(Steps, at)
    <3>1. guest.daemon.up /\ guest.daemon.tls
      BY <1>11, <2>1, ConfiguredHere
    <3> QED
      BY <1>2, <1>11, <3>1 DEF Works, Listens
  <2>2. CASE os = "boot2docker" /\ Awaits(Steps, os, at)
    <3>1. ~machine.activates
      BY <1>0, <2>2 DEF Lasting, Given, Systemd
    <3>2. guest.daemon.up
      BY <1>5, <2>2, <3>1
    <3> QED
      BY <1>2, <1>11, <2>2, <3>2 DEF Works, Listens
  <2> QED
    BY <1>1, <1>11, <2>1, <2>2
<1>12. CASE step \in {"master", "agent", "check"}
  <2>1. Trusted(guest)
    BY <1>1, <1>12, ConfiguredHere
  <2>2. step \in {"master", "agent"} => step \notin guest.containers
    BY <1>1 DEF Prepared, OwnContainers
  <2> QED
    BY <1>2, <1>12, <2>1, <2>2 DEF Works
<1>13. CASE step = "version"
  <2>1. Trusted(guest)
    BY <1>1, <1>13 DEF Prepared, StillTrusted
  <2> QED
    BY <1>2, <1>13, <2>1 DEF Works
<1>14. CASE step = "poweron"
  <2>1. step \notin Remote \cup {"port"}
    BY <1>14 DEF Remote
  <2> QED
    BY <1>1, <1>14, <2>1 DEF Works
<1>15. step # "refused"
  BY <1>1 DEF Able
<1>16. CASE step \notin Starts \cup {"stop", "options", "uploadca", "uploadcert", "uploadkey", "port", "master", "agent", "check", "version", "poweron"}
  BY <1>2, <1>15, <1>16 DEF Works, Starts
<1> QED
  BY <1>7, <1>8, <1>9, <1>10, <1>11, <1>12, <1>13, <1>14, <1>16 DEF Starts

\* A step that works prepares the next one.
LEMMA PreparedStep ==
  ASSUME IInv, Lasting, Able, Prepared, clean, ~rebooted, StepWorks, Lasting'
  PROVE  Prepared'
<1>0. /\ running /\ at <= Len(Steps) /\ Works /\ guest' = Effect /\ at' = at + 1
      /\ UNCHANGED <<machine, os, ca, cmd, began>>
  BY DEF StepWorks, Busy, Same
<1>1. TypeOK /\ Given /\ Good(guest, server, ca) /\ guest \in Guests /\ Steps' = Steps /\ began.on
  BY <1>0, AbleOn DEF IInv, TypeOK, Steps
<1>2. at \in Nat \ {0} /\ at \in 1..Len(Steps) /\ step = Steps[at]
  <2>1. at \in Nat \ {0} /\ Len(Steps) \in Nat
    BY <1>0, <1>1, Running
  <2> QED
    BY <1>0, <2>1 DEF step
<1>3. /\ guest.on /\ step # "poweroff" => guest'.on
      /\ step = "poweron" => guest'.on
      /\ guest.docker # "none" /\ step # "purge" => guest'.docker # "none"
      /\ step = "install" => guest'.docker # "none"
      /\ guest.docker = "none" /\ step # "install" => guest'.docker = "none"
      /\ guest.dir \/ step = "mkdir" => guest'.dir
      /\ guest'.containers = guest.containers \cup (IF step \in {"master", "agent"} THEN {step} ELSE {})
      /\ guest'.daemon.up => guest.daemon.up \/ guest'.dir
      /\ step \in {"start", "restart"} /\ guest.docker # "none" /\ Whole => guest'.daemon.up
      /\ step = "responding" => guest'.daemon.up
      /\ step = "install" /\ os \in Apt /\ guest.docker = "none" /\ Whole => guest'.daemon.up
  BY <1>0, <1>1, EffectRest
<1>4. /\ step \notin Switches => guest'.daemon = guest.daemon
      /\ step \in {"start", "restart", "responding", "install"} /\ guest.daemon.up => guest'.daemon.up
      /\ step = "purge" => guest'.docker = "none"
  BY <1>0, <1>1, EffectGood
<1>5. \A A, B : Since(Steps, at', A, B) <=> step \in A \/ (Since(Steps, at, A, B) /\ step \notin B)
  BY <1>0, <1>2, SinceNext
<1>6. step \in Starts => guest.docker # "none" /\ guest'.daemon.up
  <2> SUFFICES ASSUME step \in Starts PROVE guest.docker # "none" /\ guest'.daemon.up
    OBVIOUS
  <2>1. HasDocker(Steps, os, at)
    BY <1>0, <1>1, <1>2, ReadyHere
  <2>2. guest.docker # "none"
    BY <2>1 DEF Prepared, DockerThere
  <2>3. Whole
    BY <1>0, <1>1, <1>2, WholeHere
  <2> QED
    BY <1>3, <2>2, <2>3 DEF Starts
<1>7. os # "none"
  <2>1. os \in provisioners
    BY <1>0, <1>1 DEF Given
  <2> QED
    BY <2>1 DEF provisioners, RedHats, SUSEs
<1>8. PowerOn'
  BY <1>1, <1>3, <1>5 DEF Prepared, PowerOn
<1>9. DockerThere'
  <2> SUFFICES ASSUME HasDocker(Steps, os, at') PROVE guest'.docker # "none"
    BY <1>0, <1>1 DEF DockerThere
  <2>1. CASE os \in Images
    <3>1. Imaged
      BY <1>1, <1>7, <2>1, ImagedOs
    <3>2. Imaged'
      BY <1>0, <3>1 DEF Imaged
    <3> QED
      BY <3>2 DEF Lasting
  <2>2. CASE Since(Steps, at', {"install", "version"}, {"purge"})
    <3>1. step \in {"install", "version"} \/ (HasDocker(Steps, os, at) /\ step # "purge")
      BY <1>5, <2>2 DEF HasDocker
    <3>2. step = "version" => guest.docker # "none"
      BY <1>0, <1>1 DEF Works, Trusted, Good
    <3> QED
      BY <1>3, <3>1, <3>2 DEF Prepared, DockerThere
  <2> QED
    BY <2>1, <2>2 DEF HasDocker
<1>10. DirThere'
  <2> SUFFICES ASSUME HasDir(Steps, os, at') PROVE guest'.dir
    BY <1>0, <1>1 DEF DirThere
  <2>1. step = "mkdir" \/ HasDir(Steps, os, at) \/ (os \notin Images /\ step \in Starts)
    BY <1>5 DEF HasDir
  <2>2. ASSUME os \notin Images, step \in Starts PROVE guest'.dir
    <3>1. ~Imaged
      BY <1>1, <1>7, <2>2, ImagedOs
    <3> QED
      BY <1>3, <1>6, <2>2, <3>1 DEF Lasting
  <2> QED
    BY <1>3, <2>1, <2>2 DEF Prepared, DirThere
<1>11. FilesWhole'
  <2> SUFFICES ASSUME cmd = "upgrade" \/ os \in MayChoke, ~Since(Steps, at', Writes, {}) PROVE Whole'
    BY <1>0, <1>1 DEF FilesWhole
  <2>1. step \notin Writes /\ Whole
    BY <1>5 DEF Prepared, FilesWhole
  <2>2. guest'.ca = guest.ca /\ guest'.cert = guest.cert /\ guest'.key = guest.key /\ (guest'.conf <=> guest.conf)
    BY <1>0, <1>1, <2>1, EffectGood DEF Files, Writes
  <2> QED
    BY <2>1, <2>2 DEF Whole, Torn
<1>12. DaemonUp'
  <2> SUFFICES ASSUME Since(Steps, at', Starts, Stops \cup {"purge"}) PROVE guest'.daemon.up
    BY <1>0, <1>1 DEF DaemonUp
  <2>1. step \in Starts \/ (guest.daemon.up /\ step \notin Stops \cup {"purge"})
    BY <1>5 DEF Prepared, DaemonUp
  <2> QED
    BY <1>4, <1>6, <2>1 DEF Switches, Stops, Starts
<1>13. DaemonAlive'
  <2> SUFFICES ASSUME os \in MayStick \cap (Apt \cup {"boot2docker"}), ~Since(Steps, at', Stops, {}) PROVE Alive'
    BY <1>0, <1>1 DEF DaemonAlive
  <2>1. step \notin Stops /\ Alive
    BY <1>5 DEF Prepared, DaemonAlive
  <2>2. CASE machine.activates
    BY <1>0, <2>2 DEF Alive
  <2>3. CASE guest.daemon.up
    BY <1>4, <2>1, <2>3 DEF Alive, Switches, Stops
  <2>4. CASE guest.docker = "none" /\ step # "install"
    BY <1>3, <2>4 DEF Alive
  <2>5. CASE guest.docker = "none" /\ step = "install"
    <3>1. Whole
      BY <1>0, <1>1, <1>2, <2>5, WholeHere
    <3>2. os \in Apt
      <4>1. "boot2docker" \in Images
        BY DEF Images
      <4> QED
        BY <1>1, <1>7, <2>5, <4>1, ImagedOs DEF Lasting
    <3> QED
      BY <1>3, <2>5, <3>1, <3>2 DEF Alive
  <2> QED
    BY <2>1, <2>2, <2>3, <2>4, <2>5 DEF Alive
<1>14. StillTrusted'
  <2> SUFFICES ASSUME cmd = "upgrade", ~Since(Steps, at', Starts \cup Stops \cup {"install", "purge"}, {})
               PROVE  Trusted(guest)'
    BY <1>0, <1>1 DEF StillTrusted
  <2>1. step \notin Starts \cup Stops \cup {"install", "purge"} /\ Trusted(guest)
    BY <1>5 DEF Prepared, StillTrusted
  <2>2. guest'.daemon = guest.daemon
    BY <1>4, <2>1 DEF Switches, Starts, Stops
  <2> QED
    BY <1>0, <2>1, <2>2 DEF Trusted
<1>15. OwnContainers'
  <2> SUFFICES ASSUME cmd # "regenerate", NEW c \in guest'.containers PROVE Since(Steps, at', {c}, {})
    BY <1>0, <1>1 DEF OwnContainers
  <2>1. c \in guest.containers \/ c = step
    BY <1>3
  <2> QED
    BY <1>5, <2>1 DEF Prepared, OwnContainers
<1> QED
  BY <1>8, <1>9, <1>10, <1>11, <1>12, <1>13, <1>14, <1>15 DEF Prepared

\* A command finds the machine prepared for its first step.
LEMMA PreparedStart ==
  ASSUME IInv, Lasting, NEW c \in {"create", "provision", "regenerate", "upgrade"}, Start(c), Able', IInv', Lasting'
  PROVE  Prepared'
<1>0. /\ at' = 1 /\ UNCHANGED <<machine, guest, ca>> /\ os' \in provisioners /\ cmd' = c
      /\ began'.on = guest.on /\ began'.bare = (guest.docker = "none") /\ began'.up = guest.daemon.up
      /\ began'.torn = (guest.conf /\ Torn(guest)) /\ began'.trusted = Trusted(guest)
      /\ began'.containers = guest.containers
  BY DEF Start
<1>1. \A A, B : ~Since(Steps', at', A, B)
  BY <1>0, SinceFirst
<1>2. guest.on
  BY <1>0 DEF Able, Lasting
<1>3. PowerOn'
  BY <1>0, <1>2 DEF PowerOn
<1>4. DockerThere'
  <2> SUFFICES ASSUME os' \in Images PROVE guest'.docker # "none"
    BY <1>1 DEF DockerThere, HasDocker
  <2>1. CompatibleWithHost(os', machine.release)
    BY DEF Start
  <2>2. Imaged
    BY <2>1 DEF Imaged
  <2> QED
    BY <1>0, <2>2 DEF Lasting
<1>5. DirThere' /\ DaemonUp'
  BY <1>1 DEF DirThere, HasDir, DaemonUp
<1>6. FilesWhole'
  <2> SUFFICES ASSUME cmd' = "upgrade" \/ os' \in MayChoke PROVE Whole'
    BY DEF FilesWhole
  <2>1. ~began'.torn
    BY DEF Able
  <2> QED
    BY <1>0, <2>1 DEF Whole, Torn
<1>7. DaemonAlive'
  <2> SUFFICES ASSUME os' \in MayStick PROVE Alive'
    BY DEF DaemonAlive
  <2>1. began'.up \/ began'.bare \/ machine'.activates
    BY DEF Able
  <2> QED
    BY <1>0, <2>1 DEF Alive
<1>8. StillTrusted'
  BY <1>0 DEF StillTrusted, Able, Trusted
<1>9. OwnContainers'
  BY <1>0 DEF OwnContainers, Able
<1> QED
  BY <1>3, <1>4, <1>5, <1>6, <1>7, <1>8, <1>9 DEF Prepared

LEMMA RetryNext ==
  ASSUME RInv, Next
  PROVE  RInv'
<1>1. IInv /\ Lasting /\ IInv' /\ Lasting'
  BY NextStep, LastingStep DEF RInv
<1>2. running /\ clean /\ ~rebooted /\ Able => Prepared
  BY DEF RInv
<1>3. CASE StepWorks
  <2>1. UNCHANGED <<machine, os, cmd, began, running, rebooted, clean, last>> /\ running
    BY <1>3 DEF StepWorks, Same, Busy
  <2>2. Able' = Able
    BY <2>1 DEF Able
  <2>3. last' # "failed"
    BY <1>1, <2>1 DEF IInv, Given
  <2>4. RetryConverges'
    BY <2>3 DEF RetryConverges
  <2> QED
    BY <1>1, <1>2, <1>3, <2>1, <2>2, <2>4, PreparedStep DEF RInv
<1>4. CASE StepFails
  <2>1. UNCHANGED <<machine, os, cmd, began, rebooted, clean>> /\ running /\ ~running' /\ at <= Len(Steps) /\ ~Works
    BY <1>4 DEF StepFails, Same, Busy, Ends
  <2>5. guest'.iso = guest.iso
    <3>1. step \in {"start", "restart"} => Effect.iso = guest.iso
      BY <1>1, EffectRest DEF IInv
    <3> QED
      BY <1>4, <3>1 DEF StepFails
  <2>2. at \in 1..Len(Steps)
    <3>1. TypeOK /\ Given
      BY <1>1 DEF IInv
    <3>2. at \in Nat \ {0} /\ Len(Steps) \in Nat
      BY <2>1, <3>1, Running
    <3> QED
      BY <2>1, <3>2
  <2>3. clean => rebooted \/ ~Able \/ (cmd = "upgrade" /\ ~guest.iso)
    BY <1>1, <1>2, <2>1, <2>2, StepReady
  <2>4. RetryConverges'
    BY <2>1, <2>3, <2>5 DEF RetryConverges, Able
  <2> QED
    BY <1>1, <2>1, <2>4 DEF RInv
<1>5. CASE Done
  <2>1. ~running' /\ last' = "ok"
    BY <1>5 DEF Done, Ends
  <2> QED
    BY <1>1, <2>1 DEF RInv, RetryConverges
<1>6. CASE Interrupted \/ (OutputLost /\ Fault) \/ Activated \/ Renewed
  <2>1. ~clean'
    BY <1>6 DEF Interrupted, OutputLost, Activated, Renewed, Fault
  <2> QED
    BY <1>1, <2>1 DEF RInv, RetryConverges
<1>7. ASSUME NEW c \in {"create", "provision", "regenerate", "upgrade"}, Start(c) PROVE RInv'
  <2>1. last' = "running"
    BY <1>7 DEF Start
  <2> QED
    BY <1>1, <1>7, <2>1, PreparedStart DEF RInv, RetryConverges
<1>8. CASE OutputLost /\ ~Fault
  <2>1. running /\ guest.boot = "down" /\ UNCHANGED <<last, rebooted>>
    BY <1>8 DEF OutputLost, Busy, Same
  <2>2. rebooted /\ last' # "failed"
    BY <1>1, <2>1 DEF IInv, Given
  <2> QED
    BY <1>1, <2>1, <2>2 DEF RInv, RetryConverges
<1>9. CASE GuestDown \/ GuestUp
  <2>1. UNCHANGED <<machine, os, cmd, began, running, clean, last>> /\ (rebooted => rebooted')
    <3>1. CASE GuestDown
      <4>1. rebooted' = (rebooted \/ running) /\ UNCHANGED <<machine, os, cmd, began, running, clean, last>>
        BY <3>1 DEF GuestDown
      <4>2. rebooted => rebooted'
        BY <4>1, Zenon
      <4> QED
        BY <4>1, <4>2
    <3>2. CASE GuestUp
      BY <3>2 DEF GuestUp, Same
    <3> QED
      BY <1>9, <3>1, <3>2
  <2>2. guest'.iso = guest.iso
    BY <1>1, <1>9, GuestRebooted DEF IInv
  <2>3. running => rebooted'
    BY <1>1, <1>9 DEF GuestDown, GuestUp, Same, IInv, Given
  <2>4. RetryConverges'
    BY <2>1, <2>2 DEF RInv, RetryConverges
  <2> QED
    BY <1>1, <2>1, <2>3, <2>4 DEF RInv
<1> QED
  BY <1>3, <1>4, <1>5, <1>6, <1>7, <1>8, <1>9 DEF Next

LEMMA RetryInit == Init => RInv
<1> SUFFICES ASSUME Init PROVE RInv
  OBVIOUS
<1>1. IInv /\ ~running /\ last = "none"
  BY InitStep DEF Init
<1>2. PICK d \in {"none", "old", "ce"} :
        /\ Imaged <=> d = "ce"
        /\ guest = [on |-> TRUE, boot |-> "no", iso |-> TRUE, docker |-> d, dir |-> d = "old", ca |-> 0, cert |-> NoCert, key |-> 0,
                    conf |-> FALSE, loaded |-> FALSE, containers |-> {},
                    daemon |-> [Down EXCEPT !.up = d # "none"]]
  BY DEF Init, Imaged
<1>3. guest.on = TRUE /\ guest.boot = "no" /\ guest.docker = d /\ guest.dir = (d = "old") /\ guest.daemon.up = (d # "none")
  BY <1>2 DEF Down
<1>4. /\ machine.activates \in BOOLEAN
      /\ \A p \in provisioners : CompatibleWithHost(p, machine.release) => (machine.activates => p \in Systemd)
      /\ began.trusted = FALSE /\ began.up = FALSE
  BY DEF Init
<1>5. Lasting
  BY <1>2, <1>3, <1>4 DEF Lasting
<1> QED
  BY <1>1, <1>5 DEF RInv, RetryConverges

\* RetryConverges (provisioner.go:73, utils.go:63 to 135): a command that nothing disturbs fails
\* only over an obstacle that it found, whatever any number of earlier commands left behind when
\* they were cut off, or over the guest's reboot, if that falls into it; for every system, and
\* every choice of the provisioners that may wait for Docker, or need it, for which
\* ReadyAssumption holds.
THEOREM RetriesConverge == Spec => []RetryConverges
<1>1. RInv /\ [Next]_vars => RInv'
  <2> SUFFICES ASSUME RInv, [Next]_vars PROVE RInv'
    OBVIOUS
  <2>1. CASE Next
    BY <2>1, RetryNext
  <2>2. CASE UNCHANGED vars
    <3>1. IInv'
      BY NextStep DEF RInv
    <3>2. UNCHANGED <<machine, os, guest, ca, server, copied, cmd, at, began, running, rebooted, cmds, faults, clean, last>>
      BY <2>2 DEF vars
    <3>3. Steps' = Steps /\ Able' = Able /\ RetryConverges' = RetryConverges /\ Lasting' = Lasting
      BY <3>2 DEF Steps, Able, RetryConverges, Lasting, Imaged
    <3>4. Prepared' = Prepared
      BY <3>2, <3>3 DEF Prepared, PowerOn, DockerThere, DirThere, FilesWhole, Whole, DaemonUp, DaemonAlive, Alive,
                        StillTrusted, Trusted, OwnContainers
    <3> QED
      BY <3>1, <3>2, <3>3, <3>4 DEF RInv
  <2> QED
    BY <2>1, <2>2
<1>2. RInv => RetryConverges
  BY DEF RInv
<1> QED
  BY <1>1, <1>2, RetryInit, PTL DEF Spec
================================================================================
