------------------------------- MODULE CertsProofs -------------------------------
(***************************************************************************)
(* Proofs about Certs, for any set of processes and any bounds.             *)
(***************************************************************************)
EXTENDS Certs, TLAPS

\* What a file may hold: its number and that of its signer, both issued.
LEMMA ContentFacts ==
  /\ Absent.id = -1 /\ Empty.id = 0 /\ Absent = Key(-1) /\ Empty = Key(0)
  /\ \A n \in Int : Key(n).id = n
  /\ \A n, m \in Int : Cert(n, m).id = n /\ Cert(n, m).by = m
  /\ issued \in Nat =>
       /\ Absent \in Contents /\ Empty \in Contents
       /\ \A n \in 0..issued : Key(n) \in Contents
       /\ \A n, m \in 0..issued : Cert(n, m) \in Contents
       /\ \A f \in Contents : f.id \in -1..issued /\ f.by \in 0..issued
  BY DEF Absent, Empty, Key, Cert, Contents

\* The steps are the same in all states.
LEMMA StepsConstant == Steps' = Steps
  BY DEF Steps, Idle

\* Contents only grow.
LEMMA ContentsGrow ==
  ASSUME issued \in Nat, issued' \in Nat, issued <= issued' PROVE Contents \subseteq Contents'
  BY DEF Contents

Names == {"ca", "cakey", "cert", "key"}
Places == [ca : Contents, cert : Contents, key : Contents, server : 0..issued, sent : Contents]

\* The CA that a process has loaded is a certificate.
LoadedAt(p) ==
  pc[p] \in {<<"cert", "loadkey">>, <<"server", "loadkey">>, <<"cert", "create">>, <<"cert", "write">>} => Whole(ca[p])
Loaded == \A p \in Procs : LoadedAt(p)

\* The types are kept by every step.
LEMMA TypeStep == TypeOK /\ Loaded /\ [Next]_vars => TypeOK'
<1> SUFFICES ASSUME TypeOK, Loaded, [Next]_vars PROVE TypeOK'
  OBVIOUS
<1>a. issued \in Nat /\ issued' \in Nat /\ issued <= issued'
  BY DEF TypeOK, Next, Step, Stat, Date, RemoveKey, StatKey, Load, LoadKey, Create, Write, Open, WriteKey, Copy,
         Send, Begin, CallFails, Crash, Fault, Expire, Reading, vars
<1>b. Contents \subseteq Contents'
  BY <1>a, ContentsGrow
<1>c. Places \subseteq Places'
  BY <1>a, <1>b DEF Places
<1>d. machine \in [Procs -> Places']
  BY <1>c DEF TypeOK, Places
<1>1. ASSUME NEW p \in Procs, Step(p) PROVE TypeOK'
  <2>1. pc' \in [Procs -> Steps] /\ result' \in [Procs -> {"none", "running", "ok", "failed"}]
    <3>1. pc[p] \in Steps
      BY DEF TypeOK
    <3>2. ASSUME NEW st \in Steps, pc' = [pc EXCEPT ![p] = st] PROVE pc' \in [Procs -> Steps]
      BY <3>2 DEF TypeOK
    <3>3. \E st \in Steps : pc' = [pc EXCEPT ![p] = st]
      BY <1>1, <3>1 DEF Step, Stat, Date, RemoveKey, StatKey, Load, LoadKey, Create, Write, Open, WriteKey, Copy, Send,
         At, which, Go, Return, AfterCert, Steps, Idle
    <3>4. result' \in [Procs -> {"none", "running", "ok", "failed"}]
      BY <1>1 DEF TypeOK, Step, Stat, Date, RemoveKey, StatKey, Load, LoadKey, Create, Write, Open, WriteKey, Copy, Send,
         Go, Return, AfterCert
    <3> QED
      BY <3>2, <3>3, <3>4
  <2>2. pc[p] \in Steps /\ own[p] \in 0..issued /\ ca[p] \in Contents /\ ca[p].id \in -1..issued
    BY <1>a, ContentFacts DEF TypeOK
  <2>3. file' = file \/ \E f \in Names, k \in Contents' : file' = [file EXCEPT ![f] = k]
    <3>1. CASE RemoveKey(p) \/ Create(p) \/ Open(p)
      <4>1. which(p) \in {"ca", "cert"}
        BY <2>2, <3>1 DEF RemoveKey, Create, Open, At, which, Steps, Idle
      <4>2. Absent \in Contents' /\ Empty \in Contents'
        BY <1>a, <1>b, ContentFacts
      <4> QED
        BY <3>1, <4>1, <4>2 DEF RemoveKey, Create, Open, Put, KeyOf, Names
    <3>2. CASE WriteKey(p)
      <4>1. which(p) \in {"ca", "cert"}
        BY <2>2, <3>2 DEF WriteKey, At, which, Steps, Idle
      <4>2. Key(own[p]) \in Contents'
        BY <1>a, <1>b, <2>2, ContentFacts
      <4> QED
        BY <3>2, <4>1, <4>2 DEF WriteKey, Put, KeyOf, Names
    <3>3. CASE Write(p)
      <4>1. which(p) \in {"ca", "cert"}
        BY <2>2, <3>3 DEF Write, At, which, Steps, Idle
      <4> DEFINE m == IF which(p) = "ca" THEN own[p] ELSE ca[p].id
      <4>2. which(p) = "cert" => ca[p].id > 0
        BY <2>2, <3>3, <4>1 DEF Write, At, which, Loaded, LoadedAt, Whole, Steps, Idle
      <4>3. m \in 0..issued
        BY <2>2, <4>1, <4>2
      <4>4. Cert(own[p], m) \in Contents'
        BY <1>a, <1>b, <2>2, <4>3, ContentFacts
      <4>5. file' = [file EXCEPT ![which(p)] = Cert(own[p], m)]
        BY <3>3 DEF Write, Put
      <4> QED
        BY <4>1, <4>4, <4>5 DEF Names
    <3>4. CASE ~(RemoveKey(p) \/ Create(p) \/ Open(p) \/ WriteKey(p) \/ Write(p))
      BY <1>1, <3>4 DEF Step, Stat, Date, StatKey, Load, LoadKey, Copy, Send, Reading
    <3> QED
      BY <3>1, <3>2, <3>3, <3>4
  <2>4. file' \in [Names -> Contents']
    BY <1>b, <2>3 DEF TypeOK, Names
  <2>5. own' \in [Procs -> 0..issued']
    BY <1>1, <1>a DEF TypeOK, Step, Stat, Date, RemoveKey, StatKey, Load, LoadKey, Create, Write, Open, WriteKey,
       Copy, Send, Reading
  <2>6. ca' = ca \/ ca' = [ca EXCEPT ![p] = file["ca"]]
    BY <1>1 DEF Step, Stat, Date, RemoveKey, StatKey, Load, LoadKey, Create, Write, Open, WriteKey, Copy, Send
  <2>7. ca' \in [Procs -> Contents']
    BY <1>b, <2>6 DEF TypeOK
  <2>8. machine' \in [Procs -> Places']
    <3>1. CASE LoadKey(p)
      <4>1. machine' = machine \/ (machine' = [machine EXCEPT ![p].server = ca[p].id] /\ file["cakey"] = Key(ca[p].id))
        BY <3>1 DEF LoadKey
      <4>2. CASE machine' = [machine EXCEPT ![p].server = ca[p].id] /\ file["cakey"] = Key(ca[p].id)
        <5>1. ca[p].id \in 0..issued'
          BY <1>a, <2>2, <3>1 DEF LoadKey, At, Loaded, LoadedAt, Whole, Steps, Idle
        <5> QED
          BY <1>d, <4>2, <5>1 DEF Places
      <4> QED
        BY <1>d, <4>1, <4>2
    <3>2. CASE Copy(p)
      <4>1. which(p) \in {"ca", "cert", "key"}
        BY <2>2, <3>2 DEF Copy, At, which, Steps, Idle
      <4>2. file[which(p)] \in Contents'
        BY <1>b, <4>1 DEF TypeOK
      <4> QED
        BY <1>d, <3>2, <4>1, <4>2 DEF Copy, Places
    <3>3. CASE Send(p)
      <4>1. file["ca"] \in Contents'
        BY <1>b DEF TypeOK
      <4> QED
        BY <1>d, <3>3, <4>1 DEF Send, Places
    <3>4. CASE ~(LoadKey(p) \/ Copy(p) \/ Send(p))
      BY <1>1, <1>d, <3>4 DEF Step, Stat, Date, RemoveKey, StatKey, Load, Create, Write, Open, WriteKey
    <3> QED
      BY <3>1, <3>2, <3>3, <3>4
  <2>9. renewed' \in [Procs -> BOOLEAN] /\ harmed' \in BOOLEAN
    <3>1. \/ renewed' = renewed /\ harmed' = harmed
          \/ \E f \in Names : \E k : Put(p, f, k)
      BY <1>1, <2>2 DEF Step, Stat, Date, RemoveKey, StatKey, Load, LoadKey, Create, Write, Open, WriteKey, Copy, Send,
         Reading, At, which, Steps, Idle, KeyOf, Names
    <3> QED
      BY <3>1, Zenon DEF TypeOK, Put
  <2>10. UNCHANGED <<expired, bootstraps, crossed, runs, faults, hit>>
    BY <1>1 DEF Step, Stat, Date, RemoveKey, StatKey, Load, LoadKey, Create, Write, Open, WriteKey, Copy, Send,
       Books, Well
  <2>11. expired' \in 0..issued'
    BY <1>a, <2>10 DEF TypeOK
  <2>12. /\ bootstraps' \in [Procs -> BOOLEAN] /\ crossed' \in [Procs -> BOOLEAN] /\ hit' \in [Procs -> BOOLEAN]
         /\ runs' \in 0..MaxRuns /\ faults' \in 0..MaxFaults
    BY <2>10 DEF TypeOK
  <2> QED
    BY <1>a, <2>1, <2>4, <2>5, <2>7, <2>8, <2>9, <2>11, <2>12, StepsConstant, Zenon DEF TypeOK, Places, Names
<1>2. ASSUME NEW p \in Procs, Begin(p) PROVE TypeOK'
  <2>1. pc' \in [Procs -> Steps] /\ result' \in [Procs -> {"none", "running", "ok", "failed"}]
    BY <1>2 DEF TypeOK, Begin, Steps
  <2>2. bootstraps' \in [Procs -> BOOLEAN]
    BY <1>2, Zenon DEF TypeOK, Begin
  <2>3. crossed' \in [Procs -> BOOLEAN] /\ hit' \in [Procs -> BOOLEAN] /\ renewed' \in [Procs -> BOOLEAN]
    BY <1>2, Zenon DEF TypeOK, Begin
  <2>4. Nothing \in Places
    BY <1>a DEF Places, Nothing, Contents, Absent
  <2>5. machine' \in [Procs -> Places]
    BY <1>2, <2>4 DEF Begin, TypeOK, Places
  <2>6. runs' \in 0..MaxRuns
    BY <1>2, BoundsAssumption DEF TypeOK, Begin
  <2>7. UNCHANGED <<file, issued, expired, own, ca, faults, harmed>>
    BY <1>2 DEF Begin
  <2>8. Contents' = Contents
    BY <2>7 DEF Contents
  <2> QED
    BY <2>1, <2>2, <2>3, <2>5, <2>6, <2>7, <2>8, StepsConstant DEF TypeOK, Places
<1>3. ASSUME NEW p \in Procs, CallFails(p) \/ Crash(p) PROVE TypeOK'
  <2>1. pc[p] \in Steps
    BY DEF TypeOK
  <2>2. \E st \in Steps : pc' = [pc EXCEPT ![p] = st]
    BY <1>3, <2>1 DEF CallFails, Crash, which, Go, Return, AfterCert, Steps, Idle
  <2>3. pc' \in [Procs -> Steps]
    BY <2>2 DEF TypeOK
  <2>4. result' \in [Procs -> {"none", "running", "ok", "failed"}]
    BY <1>3 DEF TypeOK, CallFails, Crash, Go, Return, AfterCert
  <2>5. hit' \in [Procs -> BOOLEAN] /\ harmed' \in BOOLEAN
    BY <1>3, Zenon DEF TypeOK, CallFails, Crash, Fault
  <2>6. faults' \in 0..MaxFaults
    BY <1>3, BoundsAssumption DEF TypeOK, CallFails, Crash, Fault
  <2>7. UNCHANGED <<file, renewed, issued, own, ca, machine, expired, bootstraps, crossed, runs>>
    BY <1>3, Zenon DEF CallFails, Crash, Fault, Books
  <2>8. Contents' = Contents
    BY <2>7 DEF Contents
  <2> QED
    BY <2>3, <2>4, <2>5, <2>6, <2>7, <2>8, StepsConstant DEF TypeOK
<1>4. CASE Expire
  BY <1>4 DEF TypeOK, Expire, Contents, Steps, Idle
<1>5. CASE UNCHANGED vars
  BY <1>5 DEF TypeOK, vars, Contents, Steps, Idle
<1> QED
  BY <1>1, <1>2, <1>3, <1>4, <1>5 DEF Next

\* A process that goes on to these steps has loaded a certificate.
LEMMA LoadedStep == TypeOK /\ Loaded /\ [Next]_vars => Loaded'
<1> SUFFICES ASSUME TypeOK, Loaded, [Next]_vars, NEW q \in Procs PROVE LoadedAt(q)'
  BY DEF Loaded
<1> USE DEF Loaded, LoadedAt, Idle
<1>0. pc[q] \in Steps
  BY DEF TypeOK
<1>1. ASSUME NEW p \in Procs, Step(p) \/ CallFails(p) \/ Crash(p), p # q PROVE LoadedAt(q)'
  <2>1. pc'[q] = pc[q]
    BY <1>1 DEF TypeOK, Step, Stat, Date, RemoveKey, StatKey, Load, LoadKey, Create, Write, Open, WriteKey, Copy, Send,
       CallFails, Crash, Go, Return, AfterCert
  <2>2. ca'[q] = ca[q]
    BY <1>1 DEF TypeOK, Step, Stat, Date, RemoveKey, StatKey, Load, LoadKey, Create, Write, Open, WriteKey, Copy, Send,
       CallFails, Crash, Fault
  <2> QED
    BY <2>1, <2>2 DEF Whole
<1>2. ASSUME Step(q) PROVE LoadedAt(q)'
  <2>1. CASE Load(q)
    BY <2>1 DEF TypeOK, Load, Go, Return, At, which, Whole
  <2>2. CASE LoadKey(q) \/ Create(q)
    BY <1>0, <2>2 DEF TypeOK, LoadKey, Create, Go, Return, At, which, Whole, Steps
  <2>3. CASE StatKey(q)
    BY <1>0, <2>3 DEF TypeOK, StatKey, Go, Return, At, which, Whole, Steps
  <2>4. CASE ~(Load(q) \/ LoadKey(q) \/ Create(q) \/ StatKey(q))
    <3>1. pc'[q] \notin {<<"cert", "loadkey">>, <<"server", "loadkey">>, <<"cert", "create">>, <<"cert", "write">>}
      BY <1>0, <1>2, <2>4 DEF TypeOK, Step, Stat, Date, RemoveKey, Write, Open, WriteKey, Copy, Send, Go, Return,
         AfterCert, At, which
    <3> QED
      BY <3>1
  <2> QED
    BY <2>1, <2>2, <2>3, <2>4
<1>3. ASSUME CallFails(q) \/ Crash(q) PROVE LoadedAt(q)'
  <2>1. pc'[q] \notin {<<"cert", "loadkey">>, <<"server", "loadkey">>, <<"cert", "create">>, <<"cert", "write">>}
    BY <1>0, <1>3 DEF TypeOK, CallFails, Crash, Go, Return, AfterCert, which, Steps
  <2> QED
    BY <2>1
<1>5. ASSUME NEW p \in Procs, Begin(p) PROVE LoadedAt(q)'
  BY <1>5 DEF TypeOK, Begin, Whole
<1>4. CASE Expire \/ UNCHANGED vars
  BY <1>4 DEF Expire, vars, Whole
<1> QED
  BY <1>1, <1>2, <1>3, <1>4, <1>5 DEF Next

\* The types hold at first.
LEMMA InitType == Init => TypeOK /\ Loaded
<1> SUFFICES ASSUME Init PROVE TypeOK /\ Loaded
  OBVIOUS
<1>1. /\ bootstraps \in [Procs -> BOOLEAN] /\ crossed \in [Procs -> BOOLEAN] /\ hit \in [Procs -> BOOLEAN]
      /\ renewed \in [Procs -> BOOLEAN] /\ harmed \in BOOLEAN
  BY Zenon DEF Init
<1> QED
  BY <1>1, BoundsAssumption DEF Init, TypeOK, Loaded, LoadedAt, Contents, Steps, Idle, Absent, Empty, Nothing

\* TypeOK holds: the types of all variables, and no bound is passed.
THEOREM TypeCorrect == Spec => []TypeOK
  BY InitType, TypeStep, LoadedStep, PTL DEF Spec

--------------------------------------------------------------------------------
(* The inductive invariant.                                                 *)

Kinds == {"ca", "cert"}

\* The steps of BootstrapCertificates.
BootSteps ==
  Kinds \X {"stat", "date", "removekey", "statkey", "create", "write", "open", "writekey"}
    \cup {<<"cert", "load">>, <<"cert", "loadkey">>}

\* A running process has no result yet, and only one that bootstraps is at these steps.
Under(p) ==
  /\ pc[p] # Idle => result[p] = "running"
  /\ pc[p] \in BootSteps => bootstraps[p]

\* As long as nobody else writes the CA, it is the one that was loaded, and that signed.
Trust(p) ==
  ~renewed[p] =>
    /\ pc[p] = <<"server", "loadkey">> => ca[p].id = file["ca"].id
    /\ pc[p] = <<"ca", "send">> => machine[p].server = file["ca"].id
    /\ result[p] = "ok" => machine[p].server = machine[p].sent.id

\* As long as nothing is harmed, the files are as the process has found or left them.
ViewOf(p, c) ==
  /\ pc[p] \in {<<c, "removekey">>, <<c, "statkey">>, <<c, "create">>} => ~Current(file[c])
  /\ pc[p] = <<c, "removekey">> => Whole(file[c])
  /\ pc[p] = <<c, "write">> => file[c] = Empty /\ own[p] > 0
  /\ pc[p] \in {<<c, "open">>, <<c, "writekey">>} => file[c].id = own[p] /\ own[p] > 0

View(p) ==
  ~harmed =>
    /\ ViewOf(p, "ca") /\ ViewOf(p, "cert")
    /\ pc[p] \in {<<"cert", "load">>, <<"cert", "loadkey">>} => ~Current(file["cert"])
    /\ pc[p] \in {<<"cert", "loadkey">>, <<"cert", "create">>, <<"cert", "write">>} => ca[p].id = file["ca"].id

\* A certificate and its key while nobody writes them.
Good(c) == Whole(file[c]) /\ file[KeyOf(c)] = Key(file[c].id)
Rest(c) ==
  \/ Good(c)
  \/ file[KeyOf(c)] = Absent /\ (file[c] = Absent \/ (Whole(file[c]) /\ ~Current(file[c])))

Writing(p, c) == pc[p] \in {<<c, "write">>, <<c, "open">>, <<c, "writekey">>}

Paired(c) == ~harmed => Rest(c) \/ \E p \in Procs : Writing(p, c)

\* The client's certificate is signed by the CA or by an outdated one.
Signed ==
  ~harmed /\ Whole(file["cert"]) =>
    file["cert"].by >= 1 /\ (file["cert"].by = file["ca"].id \/ file["cert"].by <= expired)

\* The steps after BootstrapCertificates.
AuthSteps == {"ca", "cert", "key"} \X {"copy"} \cup {<<"server", "load">>, <<"server", "loadkey">>, <<"ca", "send">>}

\* The steps of BootstrapCertificates once the CA is there.
CertSteps ==
  {"cert"} \X {"stat", "date", "removekey", "statkey", "load", "loadkey", "create", "write", "open", "writekey"}

\* What holds as long as nothing disturbs a process that bootstraps.
Quiet(p) ==
  ~harmed /\ bootstraps[p] /\ ~crossed[p] /\ ~hit[p] =>
    /\ result[p] # "failed"
    /\ \A c \in Kinds : pc[p] = <<c, "date">> => file[c] # Absent
    /\ \A c \in Kinds : pc[p] = <<c, "statkey">> => file[KeyOf(c)] = Absent
    /\ pc[p] \in AuthSteps \cup CertSteps => Good("ca")
    /\ pc[p] \in AuthSteps => Good("cert")
    /\ pc[p] \in {<<"cert", "loadkey">>, <<"server", "loadkey">>} => ca[p].id = file["ca"].id

Marked == \A p, q \in Running : p # q => crossed[p]

IInv ==
  /\ \A p \in Procs : Under(p) /\ Trust(p) /\ View(p) /\ Quiet(p)
  /\ \A c \in Kinds : Paired(c)
  /\ Signed /\ Marked

--------------------------------------------------------------------------------

\* What a step of p, or a fault of p, leaves alone: another process that bootstraps sees no
\* file change unless that is marked as harm, and none sees the CA change unmarked.
Frame(p) ==
  /\ pc[p] # Idle
  /\ expired' = expired /\ bootstraps' = bootstraps /\ crossed' = crossed
  /\ harmed => harmed'
  /\ \A q \in Procs \ {p} :
       /\ pc'[q] = pc[q] /\ result'[q] = result[q] /\ ca'[q] = ca[q] /\ own'[q] = own[q]
       /\ machine'[q] = machine[q] /\ hit'[q] = hit[q]
       /\ renewed[q] => renewed'[q]
       /\ pc[q] # Idle /\ bootstraps[q] /\ file' # file => harmed'
       /\ pc[q] # Idle /\ file'["ca"] # file["ca"] => renewed'[q]

\* Writing a file is framed.
LEMMA PutFrame ==
  ASSUME TypeOK, NEW p \in Procs, NEW f \in Names, NEW k, Put(p, f, k), NEW q \in Procs \ {p}
  PROVE  /\ harmed => harmed'
         /\ renewed[q] => renewed'[q]
         /\ pc[q] # Idle /\ bootstraps[q] => harmed'
         /\ pc[q] # Idle /\ file'["ca"] # file["ca"] => renewed'[q]
<1>1. renewed' = [r \in Procs |-> renewed[r] \/ (f = "ca" /\ r # p /\ r \in Running)]
  BY DEF Put
<1>2. renewed'[q] <=> (renewed[q] \/ (f = "ca" /\ q # p /\ q \in Running))
  BY <1>1, Zenon
<1>3. file'["ca"] # file["ca"] => f = "ca"
  BY DEF Put, TypeOK, Names
<1>4. harmed' <=> (harmed \/ \E r \in Running \ {p} : bootstraps[r])
  BY Zenon DEF Put
<1>5. pc[q] # Idle => q \in Running
  BY DEF Running
<1> QED
  BY <1>2, <1>3, <1>4, <1>5, Zenon

\* Every step and every fault of a process is framed.
LEMMA StepFrame ==
  ASSUME TypeOK, NEW p \in Procs, Step(p) \/ CallFails(p) \/ Crash(p)
  PROVE  Frame(p)
<1>1. pc[p] # Idle
  BY DEF Step, Stat, Date, RemoveKey, StatKey, Load, LoadKey, Create, Write, Open, WriteKey, Copy, Send, CallFails,
         Crash, At
<1>2. expired' = expired /\ bootstraps' = bootstraps /\ crossed' = crossed
  BY DEF Step, Stat, Date, RemoveKey, StatKey, Load, LoadKey, Create, Write, Open, WriteKey, Copy, Send, CallFails,
         Crash, Books
<1>3. ASSUME NEW q \in Procs \ {p}
      PROVE /\ pc'[q] = pc[q] /\ result'[q] = result[q] /\ ca'[q] = ca[q] /\ own'[q] = own[q]
            /\ machine'[q] = machine[q] /\ hit'[q] = hit[q]
  <2>1. pc'[q] = pc[q] /\ result'[q] = result[q]
    BY DEF TypeOK, Step, Stat, Date, RemoveKey, StatKey, Load, LoadKey, Create, Write, Open, WriteKey, Copy, Send,
           CallFails, Crash, Go, Return, AfterCert
  <2>2. ca'[q] = ca[q] /\ own'[q] = own[q] /\ hit'[q] = hit[q]
    BY DEF TypeOK, Step, Stat, Date, RemoveKey, StatKey, Load, LoadKey, Create, Write, Open, WriteKey, Copy, Send,
           CallFails, Crash, Fault, Reading, Well
  <2>3. machine'[q] = machine[q]
    BY DEF TypeOK, Step, Stat, Date, RemoveKey, StatKey, Load, LoadKey, Create, Write, Open, WriteKey, Copy, Send,
           CallFails, Crash, Fault
  <2> QED
    BY <2>1, <2>2, <2>3
<1>4. (file' = file /\ renewed' = renewed /\ (harmed => harmed')) \/ \E f \in Names : \E k : Put(p, f, k)
  <2>1. pc[p] \in Steps
    BY DEF TypeOK
  <2>2. CASE RemoveKey(p) \/ Create(p) \/ Write(p) \/ Open(p) \/ WriteKey(p)
    <3>1. which(p) \in Names /\ KeyOf(which(p)) \in Names
      BY <2>1, <2>2 DEF RemoveKey, Create, Write, Open, WriteKey, At, which, Steps, Idle, KeyOf, Names
    <3> QED
      BY <2>2, <3>1 DEF RemoveKey, Create, Write, Open, WriteKey
  <2>3. CASE CallFails(p) \/ Crash(p)
    BY <2>3 DEF CallFails, Crash, Fault
  <2>4. CASE Stat(p) \/ Date(p) \/ StatKey(p) \/ Load(p) \/ LoadKey(p) \/ Copy(p) \/ Send(p)
    BY <2>4 DEF Stat, Date, StatKey, Load, LoadKey, Copy, Send, Reading
  <2> QED
    BY <2>2, <2>3, <2>4 DEF Step
<1>5. harmed => harmed'
  BY <1>4 DEF Put
<1>6. ASSUME NEW q \in Procs \ {p}
      PROVE /\ renewed[q] => renewed'[q]
            /\ pc[q] # Idle /\ bootstraps[q] /\ file' # file => harmed'
            /\ pc[q] # Idle /\ file'["ca"] # file["ca"] => renewed'[q]
  BY <1>4, PutFrame
<1> QED
  BY <1>1, <1>2, <1>3, <1>5, <1>6 DEF Frame

\* The others keep their part of the invariant.
LEMMA Others ==
  ASSUME TypeOK, IInv, NEW p \in Procs, Frame(p), NEW q \in Procs, q # p
  PROVE  Under(q)' /\ Trust(q)' /\ View(q)' /\ Quiet(q)'
<1> USE DEF Frame
<1>0. Under(q) /\ Trust(q) /\ View(q) /\ Quiet(q)
  BY DEF IInv
<1>1. Under(q)'
  BY <1>0 DEF Under, BootSteps, Kinds, Idle
<1>2. Trust(q)'
  BY <1>0 DEF Trust, Idle
<1>3. View(q)'
  <2>1. CASE pc[q] \in BootSteps
    <3>1. harmed' \/ file' = file
      BY <1>0, <2>1 DEF Under, BootSteps, Kinds, Idle
    <3> QED
      BY <1>0, <3>1 DEF View, ViewOf, Current, Whole, Empty
  <2>2. CASE pc[q] \notin BootSteps
    <3>1. pc'[q] = pc[q]
      OBVIOUS
    <3>2. \A c \in Kinds : pc[q] \notin {<<c, "removekey">>, <<c, "statkey">>, <<c, "create">>, <<c, "write">>,
                                         <<c, "open">>, <<c, "writekey">>}
      BY <2>2 DEF BootSteps
    <3>3. pc[q] \notin {<<"cert", "load">>, <<"cert", "loadkey">>}
      BY <2>2 DEF BootSteps
    <3> QED
      BY <3>1, <3>2, <3>3 DEF View, ViewOf, Kinds
  <2> QED
    BY <2>1, <2>2
<1>4. Quiet(q)'
  <2>1. pc[q] # Idle => crossed[q]
    BY DEF IInv, Marked, Running
  <2> QED
    BY <1>0, <2>1 DEF Quiet, AuthSteps, CertSteps, Kinds, Idle
<1> QED
  BY <1>1, <1>2, <1>3, <1>4

\* What is left to show for a step of p.
LEMMA Mine ==
  ASSUME TypeOK, IInv, NEW p \in Procs, Frame(p),
         Under(p)', Trust(p)', View(p)', Quiet(p)', Paired("ca")', Paired("cert")', Signed'
  PROVE  IInv'
<1>1. \A q \in Procs : Under(q)' /\ Trust(q)' /\ View(q)' /\ Quiet(q)'
  BY Others
<1>2. Marked'
  BY DEF Frame, IInv, Marked, Running, Idle
<1> QED
  BY <1>1, <1>2 DEF IInv, Kinds

\* A reader: the files stay, and nobody who writes stops.
LEMMA Reader ==
  ASSUME TypeOK, IInv, NEW p \in Procs, Frame(p), file' = file, \A c \in Kinds : ~Writing(p, c) \/ harmed'
  PROVE  Paired("ca")' /\ Paired("cert")' /\ Signed'
<1>1. ASSUME NEW c \in Kinds PROVE Paired(c)'
  <2>1. Paired(c)
    BY DEF IInv
  <2> QED
    BY <2>1 DEF Frame, Paired, Rest, Good, Writing, Current, Whole, KeyOf, Key, Absent
<1>2. Signed'
  BY DEF IInv, Signed, Frame, Whole
<1> QED
  BY <1>1, <1>2 DEF Kinds

\* A certificate that p does not touch.
LEMMA OtherPair ==
  ASSUME TypeOK, NEW p \in Procs, Frame(p), NEW k \in Kinds, Paired(k), ~Writing(p, k),
         file'[k] = file[k], file'[KeyOf(k)] = file[KeyOf(k)]
  PROVE  Paired(k)'
<1>1. \A q \in Procs : Writing(q, k) => Writing(q, k)'
  BY DEF Frame, Writing
<1>2. Rest(k) => Rest(k)'
  BY DEF Frame, Rest, Good, Current, Whole, KeyOf, Key, Absent
<1> QED
  BY <1>1, <1>2 DEF Frame, Paired

\* A step of p that writes file f of certificate c.
Wrote(p, c, f, k) == f \in {c, KeyOf(c)} /\ file' = [file EXCEPT ![f] = k]

\* What a writer leaves alone.
LEMMA Writer ==
  ASSUME TypeOK, IInv, NEW p \in Procs, Frame(p), NEW c \in Kinds, NEW f, NEW k, Wrote(p, c, f, k),
         \A j \in Kinds \ {c} : ~Writing(p, j)
  PROVE  /\ \A j \in Kinds \ {c} : file'[j] = file[j] /\ file'[KeyOf(j)] = file[KeyOf(j)] /\ Paired(j)'
         /\ \A j \in Kinds \ {c} : Good(j)' = Good(j)
         /\ file'[f] = k
         /\ f # c => file'[c] = file[c]
         /\ f # KeyOf(c) => file'[KeyOf(c)] = file[KeyOf(c)]
<1>1. f \in Names /\ c # KeyOf(c)
  BY DEF Wrote, KeyOf, Kinds, Names
<1>2. file'[f] = k /\ (f # c => file'[c] = file[c]) /\ (f # KeyOf(c) => file'[KeyOf(c)] = file[KeyOf(c)])
  BY <1>1 DEF Wrote, KeyOf, Kinds, TypeOK
<1>3. ASSUME NEW j \in Kinds \ {c} PROVE file'[j] = file[j] /\ file'[KeyOf(j)] = file[KeyOf(j)]
  BY DEF Wrote, KeyOf, Kinds, TypeOK
<1>4. ASSUME NEW j \in Kinds \ {c} PROVE Paired(j)' /\ Good(j)' = Good(j)
  BY <1>3, OtherPair DEF IInv, Good, Whole, KeyOf, Key
<1> QED
  BY <1>2, <1>3, <1>4

\* The invariant is inductive.
LEMMA InvStep == TypeOK /\ TypeOK' /\ Loaded /\ IInv /\ [Next]_vars => IInv'
<1> SUFFICES ASSUME TypeOK, TypeOK', Loaded, IInv, [Next]_vars PROVE IInv'
  OBVIOUS
<1>1. ASSUME NEW p \in Procs, Step(p) \/ CallFails(p) \/ Crash(p) PROVE IInv'
  <2>0. Frame(p)
    BY <1>1, StepFrame
  <2>a. pc[p] \in Steps /\ pc'[p] \in Steps
    BY StepsConstant DEF TypeOK
  <2>b. Under(p) /\ Trust(p) /\ View(p) /\ Quiet(p) /\ Paired("ca") /\ Paired("cert") /\ Signed
    BY DEF IInv, Kinds
  <2>c. ~crossed[p] => \A q \in Procs \ {p} : pc[q] = Idle
    BY <2>0 DEF IInv, Marked, Running, Frame
  <2>d. ASSUME ~harmed, ~crossed[p], NEW c \in Kinds, ~Writing(p, c) PROVE Rest(c)
    <3>1. \A q \in Procs \ {p} : ~Writing(q, c)
      BY <2>c, <2>d DEF Writing, Idle
    <3> QED
      BY <2>b, <2>d, <3>1 DEF Paired, Kinds
  <2>1. CASE Stat(p)
    <3>1. PICK c \in Kinds : pc[p] = <<c, "stat">>
      BY <2>1, <2>a DEF Stat, At, Steps, Kinds, Idle
    <3>2. pc'[p] = <<c, IF file[c] = Absent THEN "statkey" ELSE "date">> /\ file' = file /\ result' = result /\ harmed' = harmed
            /\ hit' = hit /\ renewed' = renewed
      BY <2>1, <3>1 DEF Stat, Go, which, Reading, Well, TypeOK
    <3>3. Under(p)'
      BY <2>0, <2>b, <3>1, <3>2 DEF Under, Frame, BootSteps, Kinds, Idle
    <3>4. Trust(p)'
      BY <2>b, <3>2, <3>3 DEF Trust, Under, Idle, Kinds
    <3>5. View(p)'
      BY <2>0, <3>2, ContentFacts DEF View, ViewOf, Kinds, Current, Frame, TypeOK
    <3>6. Quiet(p)'
      <4>1. SUFFICES ASSUME ~harmed, bootstraps[p], ~crossed[p], ~hit[p] PROVE Quiet(p)'
        BY <2>0, <3>2 DEF Quiet, Frame
      <4>2. Rest(c)
        BY <2>d, <3>1, <4>1 DEF Writing, Kinds
      <4>3. file[c] = Absent => file[KeyOf(c)] = Absent
        BY <4>2, ContentFacts DEF Rest, Good, Whole
      <4>4. c = "cert" => Good("ca")
        BY <2>b, <3>1, <4>1 DEF Quiet, CertSteps
      <4> QED
        BY <2>b, <3>1, <3>2, <4>1, <4>3, <4>4 DEF Quiet, CertSteps, AuthSteps, Kinds, Good, Whole, KeyOf, Key, Absent
    <3>7. \A k \in Kinds : ~Writing(p, k)
      BY <3>1 DEF Writing
    <3> QED
      BY <2>0, <3>2, <3>3, <3>4, <3>5, <3>6, <3>7, Reader, Mine
  <2>2. CASE Date(p)
    <3>1. PICK c \in Kinds : pc[p] = <<c, "date">>
      BY <2>2, <2>a DEF Date, At, Steps, Kinds, Idle
    <3>2. file' = file /\ harmed' = harmed /\ hit' = hit /\ renewed' = renewed /\ own' = own /\ ca' = ca /\ machine' = machine
      BY <2>2 DEF Date, Reading, Well
    <3>3. /\ ~Whole(file[c]) => pc'[p] = Idle /\ result'[p] = "failed"
          /\ Whole(file[c]) /\ Current(file[c]) =>
               pc'[p] = (IF c = "ca" THEN <<"cert", "stat">> ELSE <<"ca", "copy">>) /\ result'[p] = result[p]
          /\ Whole(file[c]) /\ ~Current(file[c]) => pc'[p] = <<c, "removekey">> /\ result'[p] = result[p]
      BY <2>2, <3>1 DEF Date, Go, Return, AfterCert, which, TypeOK
    <3>4. Under(p)'
      BY <2>0, <2>b, <3>1, <3>3 DEF Under, Frame, BootSteps, Kinds, Idle
    <3>5. Trust(p)'
      BY <2>b, <3>1, <3>2, <3>3 DEF Trust, Under, Idle, Kinds
    <3>6. View(p)'
      BY <2>0, <3>2, <3>3 DEF View, ViewOf, Kinds, Current, Whole, Frame, Idle
    <3>7. Quiet(p)'
      <4>1. SUFFICES ASSUME ~harmed, bootstraps[p], ~crossed[p], ~hit[p] PROVE Quiet(p)'
        BY <2>0, <3>2 DEF Quiet, Frame
      <4>2. Rest(c)
        BY <2>d, <3>1, <4>1 DEF Writing, Kinds
      <4>3. Whole(file[c]) /\ (Current(file[c]) => Good(c))
        BY <2>b, <3>1, <4>1, <4>2 DEF Rest, Good, Quiet
      <4>4. c = "cert" => Good("ca")
        BY <2>b, <3>1, <4>1 DEF Quiet, CertSteps
      <4> QED
        BY <2>b, <3>1, <3>2, <3>3, <4>1, <4>3, <4>4 DEF Quiet, CertSteps, AuthSteps, Kinds, Good, Whole, KeyOf, Key, Under, Idle
    <3>8. \A k \in Kinds : ~Writing(p, k)
      BY <3>1 DEF Writing
    <3> QED
      BY <2>0, <3>2, <3>4, <3>5, <3>6, <3>7, <3>8, Reader, Mine
  <2>3. CASE StatKey(p)
    <3>1. PICK c \in Kinds : pc[p] = <<c, "statkey">>
      BY <2>3, <2>a DEF StatKey, At, Steps, Kinds, Idle
    <3>2. file' = file /\ harmed' = harmed /\ hit' = hit /\ renewed' = renewed /\ own' = own /\ ca' = ca /\ machine' = machine
      BY <2>3 DEF StatKey, Reading, Well
    <3>3. IF file[KeyOf(c)] # Absent THEN pc'[p] = Idle /\ result'[p] = "failed"
          ELSE pc'[p] = <<c, IF c = "ca" THEN "create" ELSE "load">> /\ result'[p] = result[p]
      BY <2>3, <3>1 DEF StatKey, Go, Return, which, TypeOK
    <3>4. Under(p)'
      BY <2>0, <2>b, <3>1, <3>3 DEF Under, Frame, BootSteps, Kinds, Idle
    <3>5. Trust(p)'
      BY <2>b, <3>1, <3>2, <3>3 DEF Trust, Under, Idle, Kinds
    <3>6. View(p)'
      BY <2>0, <2>b, <3>1, <3>2, <3>3 DEF View, ViewOf, Kinds, Current, Whole, Frame, Idle
    <3>7. Quiet(p)'
      BY <2>0, <2>b, <3>1, <3>2, <3>3 DEF Frame, Quiet, CertSteps, AuthSteps, Kinds, Good, Whole, KeyOf, Key, Under, Idle
    <3>8. \A k \in Kinds : ~Writing(p, k)
      BY <3>1 DEF Writing
    <3> QED
      BY <2>0, <3>2, <3>4, <3>5, <3>6, <3>7, <3>8, Reader, Mine
  <2>4. CASE Load(p)
    <3>1. PICK c \in {"cert", "server"} : pc[p] = <<c, "load">>
      BY <2>4, <2>a DEF Load, At, Steps, Idle
    <3>2. file' = file /\ harmed' = harmed /\ hit' = hit /\ renewed' = renewed /\ own' = own /\ ca'[p] = file["ca"] /\ machine' = machine
      BY <2>4 DEF Load, Reading, Well, TypeOK
    <3>3. IF Whole(file["ca"]) THEN pc'[p] = <<c, "loadkey">> /\ result'[p] = result[p]
          ELSE pc'[p] = Idle /\ result'[p] = "failed"
      BY <2>4, <3>1 DEF Load, Go, Return, which, TypeOK
    <3>4. Under(p)'
      BY <2>0, <2>b, <3>1, <3>3 DEF Under, Frame, BootSteps, Kinds, Idle
    <3>5. Trust(p)'
      BY <2>b, <3>1, <3>2, <3>3 DEF Trust, Under, Idle
    <3>6. View(p)'
      BY <2>0, <2>b, <3>1, <3>2, <3>3 DEF View, ViewOf, Current, Frame, Idle
    <3>7. Quiet(p)'
      BY <2>0, <2>b, <3>1, <3>2, <3>3 DEF Frame, Quiet, CertSteps, AuthSteps, Kinds, Good, Whole, KeyOf, Key, Under, Idle
    <3>8. \A k \in Kinds : ~Writing(p, k)
      BY <3>1 DEF Writing
    <3> QED
      BY <2>0, <3>2, <3>4, <3>5, <3>6, <3>7, <3>8, Reader, Mine
  <2>5. CASE LoadKey(p)
    <3>1. PICK c \in {"cert", "server"} : pc[p] = <<c, "loadkey">>
      BY <2>5, <2>a DEF LoadKey, At, Steps, Idle
    <3>2. file' = file /\ harmed' = harmed /\ hit' = hit /\ renewed' = renewed /\ own' = own /\ ca' = ca
      BY <2>5 DEF LoadKey, Reading, Well
    <3>3. IF file["cakey"] # Key(ca[p].id) THEN pc'[p] = Idle /\ result'[p] = "failed"
          ELSE /\ pc'[p] = (IF c = "cert" THEN <<"cert", "create">> ELSE <<"ca", "send">>)
               /\ result'[p] = result[p]
               /\ c = "server" => machine'[p].server = ca[p].id
      BY <2>5, <3>1 DEF LoadKey, Go, Return, which, TypeOK
    <3>4. Under(p)'
      BY <2>0, <2>b, <3>1, <3>3 DEF Under, Frame, BootSteps, Kinds, Idle
    <3>5. Trust(p)'
      BY <2>b, <3>1, <3>2, <3>3 DEF Trust, Under, Idle
    <3>6. View(p)'
      BY <2>0, <2>b, <3>1, <3>2, <3>3 DEF View, ViewOf, Current, Frame, Idle
    <3>7. Quiet(p)'
      BY <2>0, <2>b, <3>1, <3>2, <3>3 DEF Frame, Quiet, CertSteps, AuthSteps, Kinds, Good, Whole, KeyOf, Key, Under, Idle
    <3>8. \A k \in Kinds : ~Writing(p, k)
      BY <3>1 DEF Writing
    <3> QED
      BY <2>0, <3>2, <3>4, <3>5, <3>6, <3>7, <3>8, Reader, Mine
  <2>6. CASE Copy(p)
    <3>1. PICK c \in {"ca", "cert", "key"} : pc[p] = <<c, "copy">>
      BY <2>6, <2>a DEF Copy, At, Steps, Idle
    <3>2. file' = file /\ harmed' = harmed /\ hit' = hit /\ renewed' = renewed /\ own' = own /\ ca' = ca
      BY <2>6 DEF Copy, Reading, Well
    <3>3. IF file[c] = Absent THEN pc'[p] = Idle /\ result'[p] = "failed"
          ELSE /\ pc'[p] \in {<<"cert", "copy">>, <<"key", "copy">>, <<"server", "load">>}
               /\ result'[p] = result[p]
      BY <2>6, <3>1 DEF Copy, Go, Return, which, TypeOK
    <3>4. Under(p)'
      BY <2>0, <2>b, <3>1, <3>3 DEF Under, Frame, BootSteps, Kinds, Idle
    <3>5. Trust(p)'
      BY <2>b, <3>1, <3>2, <3>3 DEF Trust, Under, Idle
    <3>6. View(p)'
      BY <3>2, <3>3 DEF View, ViewOf, Idle
    <3>7. Quiet(p)'
      <4>1. SUFFICES ASSUME ~harmed, bootstraps[p], ~crossed[p], ~hit[p] PROVE Quiet(p)'
        BY <2>0, <3>2 DEF Quiet, Frame
      <4>2. Good("ca") /\ Good("cert")
        BY <2>b, <3>1, <4>1 DEF Quiet, AuthSteps
      <4>3. file[c] # Absent
        <5>1. file["cert"].id \in Int
          BY ContentFacts DEF TypeOK
        <5>2. file["key"].id = file["cert"].id
          BY <4>2, <5>1, ContentFacts DEF Good, KeyOf
        <5> QED
          BY <4>2, <5>2, ContentFacts DEF Good, Whole
      <4> QED
        BY <2>b, <3>1, <3>2, <3>3, <4>1, <4>2, <4>3 DEF Quiet, CertSteps, AuthSteps, Kinds, Good, Whole, KeyOf, Key, Under, Idle
    <3>8. \A k \in Kinds : ~Writing(p, k)
      BY <3>1 DEF Writing
    <3> QED
      BY <2>0, <3>2, <3>4, <3>5, <3>6, <3>7, <3>8, Reader, Mine
  <2>7. CASE Send(p)
    <3>1. pc[p] = <<"ca", "send">>
      BY <2>7, <2>a DEF Send, At, Steps, Idle
    <3>2. file' = file /\ harmed' = harmed /\ hit' = hit /\ renewed' = renewed /\ own' = own /\ ca' = ca
      BY <2>7 DEF Send, Reading, Well
    <3>3. /\ pc'[p] = Idle /\ result'[p] = "ok"
          /\ machine'[p].server = machine[p].server /\ machine'[p].sent = file["ca"]
      BY <2>7 DEF Send, Return, TypeOK
    <3>4. Under(p)' /\ Trust(p)' /\ View(p)'
      BY <2>b, <3>1, <3>2, <3>3 DEF Under, Trust, View, ViewOf, BootSteps, Kinds, Idle
    <3>5. Quiet(p)'
      BY <3>3 DEF Quiet, CertSteps, AuthSteps, Kinds, Idle
    <3>6. \A k \in Kinds : ~Writing(p, k)
      BY <3>1 DEF Writing
    <3> QED
      BY <2>0, <3>2, <3>4, <3>5, <3>6, Reader, Mine
  <2>e. \A k \in Names : file[k].id \in Int /\ file[k].by \in Nat
    <3>1. \A k \in Names : file[k] \in Contents
      BY DEF TypeOK, Names
    <3> QED
      BY <3>1, ContentFacts DEF TypeOK
  <2>f. expired \in Nat /\ own[p] \in Nat /\ own'[p] \in Nat
    BY DEF TypeOK
  <2>8. CASE RemoveKey(p)
    <3>1. PICK c \in Kinds : pc[p] = <<c, "removekey">>
      BY <2>8, <2>a DEF RemoveKey, At, Steps, Kinds, Idle
    <3>2. /\ Wrote(p, c, KeyOf(c), Absent) /\ pc'[p] = <<c, "statkey">>
          /\ result' = result /\ hit' = hit
      BY <2>8, <3>1 DEF RemoveKey, Put, Wrote, Go, Well, which, TypeOK
    <3>3. \A j \in Kinds : ~Writing(p, j)
      BY <3>1 DEF Writing
    <3>4. /\ \A j \in Kinds \ {c} : file'[j] = file[j] /\ Paired(j)' /\ Good(j)' = Good(j)
          /\ file'[c] = file[c] /\ file'[KeyOf(c)] = Absent
      BY <2>0, <3>2, <3>3, Writer DEF KeyOf, Kinds
    <3>5. Under(p)' /\ Trust(p)'
      BY <2>0, <2>b, <3>1, <3>2 DEF Under, Trust, Frame, BootSteps, Kinds, Idle
    <3>6. View(p)'
      BY <2>0, <2>b, <3>1, <3>2, <3>4 DEF View, ViewOf, Frame, Kinds, Current
    <3>7. Quiet(p)'
      BY <2>0, <2>b, <3>1, <3>2, <3>4 DEF Quiet, CertSteps, AuthSteps, Kinds, Frame, Under, Idle
    <3>8. Paired(c)'
      BY <2>0, <2>b, <3>1, <3>4 DEF Paired, Rest, View, ViewOf, Frame, Whole, Current, Kinds
    <3>9. Signed'
      BY <2>0, <2>b, <3>4 DEF Signed, Frame, Whole, Kinds
    <3> QED
      BY <2>0, <3>4, <3>5, <3>6, <3>7, <3>8, <3>9, Mine DEF Kinds
  <2>9. CASE Create(p)
    <3>1. PICK c \in Kinds : pc[p] = <<c, "create">>
      BY <2>9, <2>a DEF Create, At, Steps, Kinds, Idle
    <3>2. /\ Wrote(p, c, c, Empty) /\ pc'[p] = <<c, "write">> /\ own'[p] = issued + 1 /\ ca' = ca
          /\ result' = result /\ hit' = hit
      BY <2>9, <3>1 DEF Create, Put, Wrote, Go, Well, which, TypeOK
    <3>3. \A j \in Kinds : ~Writing(p, j)
      BY <3>1 DEF Writing
    <3>4. /\ \A j \in Kinds \ {c} : file'[j] = file[j] /\ Paired(j)' /\ Good(j)' = Good(j)
          /\ file'[c] = Empty
      BY <2>0, <3>2, <3>3, Writer DEF KeyOf, Kinds
    <3>5. Under(p)' /\ Trust(p)'
      BY <2>0, <2>b, <3>1, <3>2 DEF Under, Trust, Frame, BootSteps, Kinds, Idle
    <3>6. View(p)'
      <4>1. own'[p] > 0
        BY <3>2 DEF TypeOK
      <4> QED
        BY <2>0, <2>b, <3>1, <3>2, <3>4, <4>1 DEF View, ViewOf, Frame, Kinds, Current, Empty
    <3>7. Quiet(p)'
      BY <2>0, <2>b, <3>1, <3>2, <3>4 DEF Quiet, CertSteps, AuthSteps, Kinds, Frame, Under, Idle
    <3>8. Paired(c)'
      BY <3>2 DEF Paired, Writing
    <3>9. Signed'
      <4>1. CASE c = "cert"
        BY <3>4, <4>1, ContentFacts DEF Signed, Whole
      <4>2. CASE c = "ca"
        BY <2>0, <2>b, <2>e, <2>f, <3>1, <3>4, <4>2 DEF Signed, View, ViewOf, Frame, Whole, Current, Kinds, Names
      <4> QED
        BY <4>1, <4>2 DEF Kinds
    <3> QED
      BY <2>0, <3>4, <3>5, <3>6, <3>7, <3>8, <3>9, Mine DEF Kinds
  <2>10. CASE Write(p)
    <3>1. PICK c \in Kinds : pc[p] = <<c, "write">>
      BY <2>10, <2>a DEF Write, At, Steps, Kinds, Idle
    <3> DEFINE m == IF c = "ca" THEN own[p] ELSE ca[p].id
    <3>2. /\ Wrote(p, c, c, Cert(own[p], m)) /\ pc'[p] = <<c, "open">> /\ own' = own /\ ca' = ca
          /\ result' = result /\ hit' = hit
      BY <2>10, <3>1 DEF Write, Put, Wrote, Go, Well, which, TypeOK
    <3>3. \A j \in Kinds \ {c} : ~Writing(p, j)
      BY <3>1 DEF Writing, Kinds
    <3>4. /\ \A j \in Kinds \ {c} : file'[j] = file[j] /\ Paired(j)' /\ Good(j)' = Good(j)
          /\ file'[c] = Cert(own[p], m)
      BY <2>0, <3>2, <3>3, Writer DEF KeyOf, Kinds
    <3>5. ca[p].id \in Int
      BY ContentFacts DEF TypeOK
    <3>6. file'[c].id = own[p] /\ file'[c].by = m
      BY <2>f, <3>4, <3>5, ContentFacts
    <3>7. Under(p)' /\ Trust(p)'
      BY <2>0, <2>b, <3>1, <3>2 DEF Under, Trust, Frame, BootSteps, Kinds, Idle
    <3>8. View(p)'
      BY <2>0, <2>b, <3>1, <3>2, <3>6 DEF View, ViewOf, Frame, Kinds
    <3>9. Quiet(p)'
      BY <2>0, <2>b, <3>1, <3>2, <3>4 DEF Quiet, CertSteps, AuthSteps, Kinds, Frame, Under, Idle
    <3>10. Paired(c)'
      BY <3>2 DEF Paired, Writing
    <3>11. Signed'
      <4>1. CASE c = "cert"
        <5>1. ca[p].id > 0
          BY <3>1, <4>1 DEF Loaded, LoadedAt, Whole
        <5> QED
          BY <2>0, <2>b, <3>1, <3>4, <3>5, <3>6, <4>1, <5>1 DEF Signed, View, Frame, Kinds
      <4>2. CASE c = "ca"
        BY <2>0, <2>b, <2>e, <2>f, <3>1, <3>4, <4>2, ContentFacts DEF Signed, View, ViewOf, Frame, Whole, Kinds, Names
      <4> QED
        BY <4>1, <4>2 DEF Kinds
    <3> QED
      BY <2>0, <3>4, <3>7, <3>8, <3>9, <3>10, <3>11, Mine DEF Kinds
  <2>11. CASE Open(p)
    <3>1. PICK c \in Kinds : pc[p] = <<c, "open">>
      BY <2>11, <2>a DEF Open, At, Steps, Kinds, Idle
    <3>2. /\ Wrote(p, c, KeyOf(c), Empty) /\ pc'[p] = <<c, "writekey">> /\ own' = own
          /\ result' = result /\ hit' = hit
      BY <2>11, <3>1 DEF Open, Put, Wrote, Go, Well, which, TypeOK
    <3>3. \A j \in Kinds \ {c} : ~Writing(p, j)
      BY <3>1 DEF Writing, Kinds
    <3>4. /\ \A j \in Kinds \ {c} : file'[j] = file[j] /\ Paired(j)' /\ Good(j)' = Good(j)
          /\ file'[c] = file[c]
      BY <2>0, <3>2, <3>3, Writer DEF KeyOf, Kinds
    <3>5. Under(p)' /\ Trust(p)'
      BY <2>0, <2>b, <3>1, <3>2 DEF Under, Trust, Frame, BootSteps, Kinds, Idle
    <3>6. View(p)'
      BY <2>0, <2>b, <3>1, <3>2, <3>4 DEF View, ViewOf, Frame, Kinds
    <3>7. Quiet(p)'
      BY <2>0, <2>b, <3>1, <3>2, <3>4 DEF Quiet, CertSteps, AuthSteps, Kinds, Frame, Under, Idle
    <3>8. Paired(c)'
      BY <3>2 DEF Paired, Writing
    <3>9. Signed'
      BY <2>0, <2>b, <3>4 DEF Signed, Frame, Whole, Kinds
    <3> QED
      BY <2>0, <3>4, <3>5, <3>6, <3>7, <3>8, <3>9, Mine DEF Kinds
  <2>12. CASE WriteKey(p)
    <3>1. PICK c \in Kinds : pc[p] = <<c, "writekey">>
      BY <2>12, <2>a DEF WriteKey, At, Steps, Kinds, Idle
    <3>2. /\ Wrote(p, c, KeyOf(c), Key(own[p])) /\ own' = own
          /\ pc'[p] = (IF c = "ca" THEN <<"cert", "stat">> ELSE <<"ca", "copy">>)
          /\ result' = result /\ hit' = hit
      BY <2>12, <3>1 DEF WriteKey, Put, Wrote, AfterCert, Go, Well, which, TypeOK
    <3>3. \A j \in Kinds \ {c} : ~Writing(p, j)
      BY <3>1 DEF Writing, Kinds
    <3>4. /\ \A j \in Kinds \ {c} : file'[j] = file[j] /\ Paired(j)' /\ Good(j)' = Good(j)
          /\ file'[c] = file[c] /\ file'[KeyOf(c)] = Key(own[p])
      BY <2>0, <3>2, <3>3, Writer DEF KeyOf, Kinds
    <3>5. Under(p)' /\ Trust(p)'
      BY <2>0, <2>b, <3>1, <3>2 DEF Under, Trust, Frame, BootSteps, Kinds, Idle
    <3>6. View(p)'
      BY <3>2 DEF View, ViewOf, Kinds
    <3>7. ~harmed => Good(c)'
      BY <2>b, <3>1, <3>4 DEF View, ViewOf, Good, Whole, Kinds
    <3>8. Quiet(p)'
      BY <2>0, <2>b, <3>1, <3>2, <3>4, <3>7 DEF Quiet, CertSteps, AuthSteps, Kinds, Frame, Under, Idle
    <3>9. Paired(c)'
      BY <2>0, <3>7 DEF Paired, Rest, Frame
    <3>10. Signed'
      BY <2>0, <2>b, <3>4 DEF Signed, Frame, Whole, Kinds
    <3> QED
      BY <2>0, <3>4, <3>5, <3>6, <3>8, <3>9, <3>10, Mine DEF Kinds
  <2>13. CASE CallFails(p) \/ Crash(p)
    <3>1. file' = file /\ own' = own /\ ca' = ca /\ machine' = machine /\ renewed' = renewed
      BY <2>13 DEF CallFails, Crash, Fault
    <3>2. hit'[p] = TRUE
      BY <2>13, Zenon DEF CallFails, Crash, Fault, TypeOK
    <3>3. pc[p][2] \in Fragile => harmed'
      BY <2>13 DEF CallFails, Crash, Fault
    <3>4. /\ pc'[p] = Idle => result'[p] = "failed"
          /\ pc'[p] # Idle => result'[p] = result[p]
          /\ pc'[p] = Idle \/ pc[p] \in BootSteps
          /\ pc'[p] \notin {<<"server", "loadkey">>, <<"ca", "send">>, <<"cert", "loadkey">>, <<"cert", "create">>}
          /\ \A c \in Kinds :
               /\ pc'[p] = <<c, "statkey">> => pc[p] = <<c, "removekey">>
               /\ pc'[p] # <<c, "removekey">> /\ pc'[p] # <<c, "write">> /\ pc'[p] # <<c, "writekey">>
               /\ pc'[p] = <<c, "create">> => pc[p] = <<c, "statkey">>
               /\ pc'[p] = <<c, "open">> => pc[p] = <<c, "write">>
          /\ pc'[p] = <<"cert", "load">> => pc[p] = <<"cert", "statkey">>
      BY <2>13, <2>a DEF CallFails, Crash, Go, Return, AfterCert, which, Steps, Kinds, Idle, BootSteps, TypeOK
    <3>5. Under(p)' /\ Trust(p)'
      BY <2>0, <2>b, <3>1, <3>4 DEF Under, Trust, Frame, BootSteps, Kinds, Idle
    <3>6. View(p)'
      BY <2>0, <2>b, <3>1, <3>3, <3>4 DEF View, ViewOf, Frame, Kinds, Current, Fragile
    <3>7. Quiet(p)'
      BY <3>2 DEF Quiet
    <3>8. \A c \in Kinds : ~Writing(p, c) \/ harmed'
      BY <3>3 DEF Writing, Fragile
    <3> QED
      BY <2>0, <3>1, <3>5, <3>6, <3>7, <3>8, Reader, Mine
  <2> QED
    BY <1>1, <2>1, <2>2, <2>3, <2>4, <2>5, <2>6, <2>7, <2>8, <2>9, <2>10, <2>11, <2>12, <2>13 DEF Step
<1>2. ASSUME NEW p \in Procs, Begin(p) PROVE IInv'
  <2>1. pc[p] = Idle /\ \A q \in Procs \ {p} : pc'[q] = pc[q] /\ result'[q] = result[q] /\ bootstraps'[q] = bootstraps[q]
                                                /\ hit'[q] = hit[q] /\ renewed'[q] = renewed[q] /\ machine'[q] = machine[q]
    BY <1>2 DEF Begin, TypeOK
  <2>2. UNCHANGED <<file, issued, expired, own, ca, harmed>>
    BY <1>2 DEF Begin
  <2>3. crossed' = [q \in Procs |-> IF q = p THEN Running # {} ELSE crossed[q] \/ q \in Running]
    BY <1>2 DEF Begin
  <2>4. ASSUME NEW q \in Procs, q # p PROVE Under(q)' /\ Trust(q)' /\ View(q)' /\ Quiet(q)'
    <3>0. Under(q) /\ Trust(q) /\ View(q) /\ Quiet(q)
      BY DEF IInv
    <3>1. crossed'[q] <=> (crossed[q] \/ q \in Running)
      BY <2>3, <2>4, Zenon
    <3>2. Under(q)' /\ Trust(q)'
      BY <2>1, <2>2, <2>4, <3>0 DEF Under, Trust, BootSteps, Kinds, Idle
    <3>3. View(q)'
      BY <2>1, <2>2, <2>4, <3>0 DEF View, ViewOf, Current, Whole, Empty
    <3>4. Quiet(q)'
      BY <2>1, <2>2, <2>4, <3>0, <3>1 DEF Quiet, Running, AuthSteps, CertSteps, Kinds, Idle
    <3> QED
      BY <3>2, <3>3, <3>4
  <2>5. Under(p)' /\ Trust(p)' /\ View(p)' /\ Quiet(p)'
    <3>1. PICK b \in BOOLEAN : /\ bootstraps' = [bootstraps EXCEPT ![p] = b]
                               /\ pc' = [pc EXCEPT ![p] = IF b THEN <<"ca", "stat">> ELSE <<"ca", "copy">>]
      BY <1>2 DEF Begin
    <3>2. bootstraps'[p] = b /\ pc'[p] = (IF b THEN <<"ca", "stat">> ELSE <<"ca", "copy">>) /\ result'[p] = "running"
      BY <1>2, <3>1 DEF Begin, TypeOK
    <3>3. Under(p)' /\ Trust(p)' /\ View(p)'
      BY <3>2 DEF Under, Trust, View, ViewOf, BootSteps, Kinds, Idle
    <3>4. Quiet(p)'
      BY <3>2 DEF Quiet, AuthSteps, CertSteps, Kinds
    <3> QED
      BY <3>3, <3>4
  <2>6. ASSUME NEW c \in Kinds PROVE Paired(c)'
    <3>1. \A q \in Procs : Writing(q, c) => Writing(q, c)'
      BY <2>1 DEF Writing, Idle
    <3>2. Paired(c)
      BY DEF IInv
    <3> QED
      BY <2>2, <3>1, <3>2 DEF Paired, Rest, Good, Whole, Current, KeyOf, Key, Absent
  <2>7. Signed'
    BY <2>2 DEF IInv, Signed, Whole
  <2>8. Marked'
    <3>1. SUFFICES ASSUME NEW q \in Running', NEW r \in Running', q # r PROVE crossed'[q]
      BY DEF Marked
    <3>2. q \in Procs /\ r \in Procs
      BY DEF Running
    <3>3. \A t \in Procs \ {p} : t \in Running' => t \in Running
      BY <2>1 DEF Running, Idle
    <3> QED
      BY <2>3, <3>1, <3>2, <3>3, Zenon
  <2> QED
    BY <2>4, <2>5, <2>6, <2>7, <2>8 DEF IInv
<1>3. CASE Expire
  <2>1. /\ expired' = expired + 1 /\ expired \in Nat
        /\ UNCHANGED <<file, issued, pc, own, ca, machine, result, bootstraps, crossed, hit, renewed, harmed>>
    BY <1>3 DEF Expire, TypeOK
  <2>2. \A k \in Names : file[k].id \in Int /\ file[k].by \in Nat
    <3>1. \A k \in Names : file[k] \in Contents
      BY DEF TypeOK, Names
    <3> QED
      BY <3>1, ContentFacts DEF TypeOK
  <2>3. ASSUME NEW q \in Procs PROVE Under(q)' /\ Trust(q)' /\ View(q)' /\ Quiet(q)'
    <3>0. Under(q) /\ Trust(q) /\ View(q) /\ Quiet(q)
      BY DEF IInv
    <3>1. Under(q)' /\ Trust(q)'
      BY <2>1, <3>0 DEF Under, Trust, BootSteps, Kinds, Idle
    <3>2. View(q)'
      BY <2>1, <2>2, <3>0 DEF View, ViewOf, Current, Whole, Empty, Names
    <3>3. Quiet(q)'
      BY <2>1, <3>0 DEF Quiet, AuthSteps, CertSteps, Kinds, Idle, Good, Whole, KeyOf, Key, Absent
    <3> QED
      BY <3>1, <3>2, <3>3
  <2>4. ASSUME NEW c \in Kinds PROVE Paired(c)'
    <3>1. Paired(c)
      BY DEF IInv
    <3>2. file[c].id \in Int
      BY <2>2 DEF Kinds, Names
    <3> QED
      BY <2>1, <3>1, <3>2 DEF Paired, Rest, Good, Writing, Whole, Current, KeyOf, Key, Absent
  <2>5. Signed'
    BY <2>1, <2>2 DEF IInv, Signed, Whole, Names
  <2>6. Marked'
    BY <2>1 DEF IInv, Marked, Running, Idle
  <2> QED
    BY <2>3, <2>4, <2>5, <2>6 DEF IInv
<1>4. CASE UNCHANGED vars
  BY <1>4 DEF vars, IInv, Under, Trust, View, ViewOf, Quiet, Paired, Signed, Marked, Running, Rest, Good, Writing,
     Current, Whole, KeyOf, Key, Absent, Empty, BootSteps, AuthSteps, CertSteps, Kinds, Idle
<1> QED
  BY <1>1, <1>2, <1>3, <1>4 DEF Next

\* The invariant always holds.
LEMMA Invariant == Spec => [](TypeOK /\ Loaded /\ IInv)
<1>1. ASSUME Init PROVE IInv
  <2>1. \A p \in Procs : Under(p) /\ Trust(p) /\ View(p) /\ Quiet(p)
    BY <1>1 DEF Init, Under, Trust, View, ViewOf, Quiet, BootSteps, AuthSteps, CertSteps, Kinds, Idle
  <2>2. \A c \in Kinds : Paired(c)
    BY <1>1 DEF Init, Paired, Rest, KeyOf, Kinds
  <2>3. Signed /\ Marked
    BY <1>1 DEF Init, Signed, Whole, Absent, Marked, Running
  <2> QED
    BY <2>1, <2>2, <2>3 DEF IInv
<1>2. Init => TypeOK /\ Loaded
  BY InitType
<1> QED
  BY <1>1, <1>2, TypeStep, LoadedStep, InvStep, PTL DEF Spec

\* PairsMatch (bootstrap.go:99): between commands certificates and keys belong together,
\* whatever happened outside the three steps that write a pair.
THEOREM KeysMatch == Spec => []PairsMatch
<1>1. ASSUME IInv PROVE PairsMatch
  <2>1. SUFFICES ASSUME ~harmed, Running = {}, NEW c \in Kinds
                 PROVE  file[KeyOf(c)] = Key(file[c].id) \/ (file[KeyOf(c)] = Absent /\ ~Current(file[c]))
    BY DEF PairsMatch, Kinds
  <2>2. \A p \in Procs : ~Writing(p, c)
    BY <2>1 DEF Running, Writing, Idle
  <2>3. Rest(c)
    BY <1>1, <2>1, <2>2 DEF IInv, Paired
  <2>4. file[c] = Absent => Key(file[c].id) = Absent
    BY ContentFacts
  <2> QED
    BY <2>3, <2>4 DEF Rest, Good
<1> QED
  BY <1>1, Invariant, PTL

\* BootstrapConverges (bootstrap.go:104, 110): a command that bootstraps alone and meets no
\* fault succeeds, whatever happened before outside those steps.
THEOREM Converges == Spec => []BootstrapConverges
<1>1. IInv => BootstrapConverges
  BY DEF IInv, Quiet, BootstrapConverges
<1> QED
  BY <1>1, Invariant, PTL

\* ClientSigned (bootstrap.go:110): the client's certificate is signed by the CA or by one
\* that is outdated.
THEOREM SignedByCA == Spec => []ClientSigned
<1>1. ASSUME IInv, TypeOK PROVE ClientSigned
  <2>1. file["cert"].by \in Nat /\ expired \in Nat
    BY <1>1, ContentFacts DEF TypeOK
  <2> QED
    BY <1>1, <2>1 DEF IInv, Signed, ClientSigned
<1> QED
  BY <1>1, Invariant, PTL

\* ServerTrusted (utils.go:102, 126): a machine gets the CA that signed its certificate,
\* unless another command wrote the CA meanwhile.
THEOREM TrustedByMachine == Spec => []ServerTrusted
<1>1. IInv => ServerTrusted
  BY DEF IInv, Trust, ServerTrusted
<1> QED
  BY <1>1, Invariant, PTL

\* CurrentKept (bootstrap.go:108): a certificate that is whole and current is replaced only
\* if another command bootstraps at the same time.
THEOREM CurrentStays == Spec => CurrentKept
<1>1. ASSUME TypeOK, IInv, [Next]_vars, NEW c \in Kinds, Whole(file[c]), Current(file[c]), file'[c] # file[c]
      PROVE  harmed'
  <2>1. PICK p \in Procs : Create(p) \/ Write(p) \/ RemoveKey(p) \/ Open(p) \/ WriteKey(p)
    BY <1>1 DEF Next, Step, Stat, Date, StatKey, Load, LoadKey, Copy, Send, Begin, CallFails, Crash, Fault, Expire,
                Reading, vars
  <2>2. pc[p] \in Steps /\ View(p) /\ (harmed => harmed')
    BY <1>1, <2>1, StepFrame DEF TypeOK, IInv, Frame, Step
  <2>3. PICK k \in Kinds : pc[p] \in {<<k, "create">>, <<k, "write">>, <<k, "removekey">>, <<k, "open">>, <<k, "writekey">>}
    BY <2>1, <2>2 DEF Create, Write, RemoveKey, Open, WriteKey, At, Steps, Kinds, Idle
  <2>4. c = k /\ pc[p] \in {<<k, "create">>, <<k, "write">>}
    BY <1>1, <2>1, <2>3 DEF Create, Write, RemoveKey, Open, WriteKey, At, Put, which, KeyOf, Kinds, TypeOK
  <2>5. ~harmed => ~Current(file[c]) \/ ~Whole(file[c])
    BY <2>2, <2>4, ContentFacts DEF View, ViewOf, Whole, Kinds
  <2> QED
    BY <1>1, <2>2, <2>5
<1>2. TypeOK /\ IInv /\ [Next]_vars
        => [\A c \in {"ca", "cert"} : Whole(file[c]) /\ Current(file[c]) /\ file'[c] # file[c] => harmed']_vars
  BY <1>1 DEF Kinds
<1> QED
  BY <1>2, Invariant, PTL DEF Spec, CurrentKept
==================================================================================
