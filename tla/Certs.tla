---------------------------------- MODULE Certs ----------------------------------
(***************************************************************************)
(* The CA and the client's certificate (libmachine/cert), four files that   *)
(* all machines share: BootstrapCertificates makes those that are missing   *)
(* or outdated, and ConfigureAuth copies them to the machine's directory,   *)
(* signs the server's certificate and sends it with the CA.  Commands do    *)
(* this at the same time, `regenerate-certs --client-certs` in one          *)
(* goroutine per machine, and there is no lock.                             *)
(*                                                                          *)
(* Certificates are numbered in the order in which they are issued, and     *)
(* become outdated in that order; a key has the number of its certificate.  *)
(***************************************************************************)
EXTENDS Integers

CONSTANTS
  Procs,       \* who runs commands
  MaxRuns,     \* bound: commands
  MaxFaults,   \* bound: failed system calls and crashes
  MaxExpired   \* bound: certificates that become outdated

ASSUME BoundsAssumption == MaxRuns \in Nat /\ MaxFaults \in Nat /\ MaxExpired \in Nat

VARIABLES
  file,              \* the four files
  issued, expired,   \* the number of the newest certificate, and of the newest outdated one
  pc,                \* for each of Procs <<which certificate, which step>>
  own, ca,           \* the certificate it writes, and the CA that it has loaded
  machine,           \* what its machine got: copies, the server's certificate and CA
  result,            \* how its last command ended
  bootstraps,        \* its command calls BootstrapCertificates
  crossed, hit,      \* it ran at the same time as another one; it met a fault
  renewed,           \* another one has touched the CA's certificate meanwhile
  harmed,            \* the files may have suffered: see Put and Fragile
  runs, faults       \* commands and faults so far

vars == <<file, issued, expired, pc, own, ca, machine, result, bootstraps, crossed, hit, renewed,
          harmed, runs, faults>>

Absent == [id |-> -1, by |-> 0]
Empty == [id |-> 0, by |-> 0]
Cert(n, m) == [id |-> n, by |-> m]
Key(n) == [id |-> n, by |-> 0]
Whole(f) == f.id > 0
Current(f) == f.id > expired

KeyOf(c) == IF c = "ca" THEN "cakey" ELSE "key"
Idle == <<"none", "idle">>
Running == {p \in Procs : pc[p] # Idle}

Nothing == [ca |-> Absent, cert |-> Absent, key |-> Absent, server |-> 0, sent |-> Absent]

Init ==
  /\ file = [f \in {"ca", "cakey", "cert", "key"} |-> Absent]
  /\ issued = 0 /\ expired = 0
  /\ pc = [p \in Procs |-> Idle]
  /\ own = [p \in Procs |-> 0] /\ ca = [p \in Procs |-> Empty]
  /\ machine = [p \in Procs |-> Nothing]
  /\ result = [p \in Procs |-> "none"] /\ bootstraps = [p \in Procs |-> FALSE]
  /\ crossed = [p \in Procs |-> FALSE] /\ hit = [p \in Procs |-> FALSE] /\ renewed = [p \in Procs |-> FALSE]
  /\ harmed = FALSE /\ runs = 0 /\ faults = 0

--------------------------------------------------------------------------------
(* Steps.                                                                   *)

At(p, step) == pc[p] # Idle /\ pc[p][2] = step
which(p) == pc[p][1]
Go(p, c, step) == pc' = [pc EXCEPT ![p] = <<c, step>>] /\ UNCHANGED result
Return(p, r) == pc' = [pc EXCEPT ![p] = Idle] /\ result' = [result EXCEPT ![p] = r]

\* The CA is there: the client's certificate.  That is there too: ConfigureAuth.
AfterCert(p) == IF which(p) = "ca" THEN Go(p, "cert", "stat") ELSE Go(p, "ca", "copy")

\* A file is written, perhaps while another command bootstraps.
Put(p, f, content) ==
  /\ file' = [file EXCEPT ![f] = content]
  /\ harmed' = (harmed \/ \E q \in Running \ {p} : bootstraps[q])
  /\ renewed' = [q \in Procs |-> renewed[q] \/ (f = "ca" /\ q # p /\ q \in Running)]

Books == UNCHANGED <<expired, bootstraps, crossed, runs>>
Well == UNCHANGED <<faults, hit>>
Reading == UNCHANGED <<file, harmed, renewed, issued, own>>

\* BootstrapCertificates: is the certificate there?
Stat(p) ==
  /\ At(p, "stat")
  /\ Go(p, which(p), IF file[which(p)] = Absent THEN "statkey" ELSE "date")
  /\ Reading /\ Well /\ Books /\ UNCHANGED <<ca, machine>>

\* CheckCertificateDate
Date(p) ==
  /\ At(p, "date")
  /\ LET f == file[which(p)]
     IN CASE ~Whole(f) -> Return(p, "failed")
          [] Whole(f) /\ Current(f) -> AfterCert(p)
          [] OTHER -> Go(p, which(p), "removekey")
  /\ Reading /\ Well /\ Books /\ UNCHANGED <<ca, machine>>

\* Wrong variant: the outdated certificate is removed, not its key.
RemoveCert(p) ==
  /\ At(p, "removekey")
  /\ Put(p, which(p), Absent)
  /\ Go(p, which(p), "statkey")
  /\ Well /\ Books /\ UNCHANGED <<issued, own, ca, machine>>

\* Wrong variant: the key stays.
RemoveNothing(p) ==
  /\ At(p, "removekey")
  /\ Go(p, which(p), "statkey")
  /\ Reading /\ Well /\ Books /\ UNCHANGED <<ca, machine>>

\* The key of an outdated certificate goes.
RemoveKey(p) ==
  /\ At(p, "removekey")
  /\ Put(p, KeyOf(which(p)), Absent)
  /\ Go(p, which(p), "statkey")
  /\ Well /\ Books /\ UNCHANGED <<issued, own, ca, machine>>

\* createCACert and createCert do not overwrite a key.
StatKey(p) ==
  /\ At(p, "statkey")
  /\ IF file[KeyOf(which(p))] # Absent THEN Return(p, "failed")
     ELSE Go(p, which(p), IF which(p) = "ca" THEN "create" ELSE "load")
  /\ Reading /\ Well /\ Books /\ UNCHANGED <<ca, machine>>

\* tls.LoadX509KeyPair reads the CA's certificate ...
Load(p) ==
  /\ At(p, "load")
  /\ IF Whole(file["ca"]) THEN Go(p, which(p), "loadkey") ELSE Return(p, "failed")
  /\ ca' = [ca EXCEPT ![p] = file["ca"]]
  /\ Reading /\ Well /\ Books /\ UNCHANGED machine

\* Wrong variant: the certificate and the key are not compared.
LoadKeyUnpaired(p) ==
  /\ At(p, "loadkey")
  /\ CASE ~Whole(file["cakey"]) -> Return(p, "failed") /\ UNCHANGED machine
       [] which(p) = "cert" /\ Whole(file["cakey"]) -> Go(p, "cert", "create") /\ UNCHANGED machine
       [] OTHER -> Go(p, "ca", "send") /\ machine' = [machine EXCEPT ![p].server = file["cakey"].id]
  /\ Reading /\ Well /\ Books /\ UNCHANGED ca

\* ... and its key, which must belong to it.  The server's certificate goes to files of the
\* machine's own.
LoadKey(p) ==
  /\ At(p, "loadkey")
  /\ CASE file["cakey"] # Key(ca[p].id) -> Return(p, "failed") /\ UNCHANGED machine
       [] file["cakey"] = Key(ca[p].id) /\ which(p) = "cert" -> Go(p, "cert", "create") /\ UNCHANGED machine
       [] OTHER -> Go(p, "ca", "send") /\ machine' = [machine EXCEPT ![p].server = ca[p].id]
  /\ Reading /\ Well /\ Books /\ UNCHANGED ca

\* The new certificate exists, and os.Create empties its file.
Create(p) ==
  /\ At(p, "create")
  /\ issued' = issued + 1
  /\ own' = [own EXCEPT ![p] = issued + 1]
  /\ Put(p, which(p), Empty)
  /\ Go(p, which(p), "write")
  /\ Well /\ Books /\ UNCHANGED <<ca, machine>>

\* Wrong variant: every certificate is signed with its own key.
WriteSelfSigned(p) ==
  /\ At(p, "write")
  /\ Put(p, which(p), Cert(own[p], own[p]))
  /\ Go(p, which(p), "open")
  /\ Well /\ Books /\ UNCHANGED <<issued, own, ca, machine>>

\* The CA signs itself and the client's certificate.
Write(p) ==
  /\ At(p, "write")
  /\ Put(p, which(p), Cert(own[p], IF which(p) = "ca" THEN own[p] ELSE ca[p].id))
  /\ Go(p, which(p), "open")
  /\ Well /\ Books /\ UNCHANGED <<issued, own, ca, machine>>

\* os.OpenFile empties the file of the key.
Open(p) ==
  /\ At(p, "open")
  /\ Put(p, KeyOf(which(p)), Empty)
  /\ Go(p, which(p), "writekey")
  /\ Well /\ Books /\ UNCHANGED <<issued, own, ca, machine>>

WriteKey(p) ==
  /\ At(p, "writekey")
  /\ Put(p, KeyOf(which(p)), Key(own[p]))
  /\ AfterCert(p)
  /\ Well /\ Books /\ UNCHANGED <<issued, own, ca, machine>>

\* ConfigureAuth: CopyFile of the CA's certificate, the client's and its key.
Copy(p) ==
  /\ At(p, "copy")
  /\ IF file[which(p)] = Absent THEN Return(p, "failed") /\ UNCHANGED machine
     ELSE /\ machine' = [machine EXCEPT ![p][which(p)] = file[which(p)]]
          /\ CASE which(p) = "ca" -> Go(p, "cert", "copy")
               [] which(p) = "cert" -> Go(p, "key", "copy")
               [] OTHER -> Go(p, "server", "load")
  /\ Reading /\ Well /\ Books /\ UNCHANGED ca

\* The CA's certificate is read once more and sent to the machine with the server's.
Send(p) ==
  /\ At(p, "send")
  /\ machine' = [machine EXCEPT ![p].sent = file["ca"]]
  /\ Return(p, "ok")
  /\ Reading /\ Well /\ Books /\ UNCHANGED ca

Step(p) ==
  \/ Stat(p) \/ Date(p) \/ RemoveKey(p) \/ StatKey(p) \/ Load(p) \/ LoadKey(p)
  \/ Create(p) \/ Write(p) \/ Open(p) \/ WriteKey(p) \/ Copy(p) \/ Send(p)

--------------------------------------------------------------------------------
(* Commands, faults and time.                                               *)

\* create and regenerate-certs --client-certs bootstrap; regenerate-certs and provision do not.
Begin(p) ==
  /\ pc[p] = Idle /\ runs < MaxRuns
  /\ runs' = runs + 1
  /\ \E b \in BOOLEAN :
       /\ bootstraps' = [bootstraps EXCEPT ![p] = b]
       /\ pc' = [pc EXCEPT ![p] = IF b THEN <<"ca", "stat">> ELSE <<"ca", "copy">>]
  /\ result' = [result EXCEPT ![p] = "running"]
  /\ crossed' = [q \in Procs |-> IF q = p THEN Running # {} ELSE crossed[q] \/ q \in Running]
  /\ hit' = [hit EXCEPT ![p] = FALSE]
  /\ renewed' = [renewed EXCEPT ![p] = FALSE]
  /\ machine' = [machine EXCEPT ![p] = Nothing]
  /\ UNCHANGED <<file, issued, expired, own, ca, faults, harmed>>

\* The steps between the emptying of a certificate's file and the end of its key: what hurts
\* a command there leaves files that do not belong together.
Fragile == {"write", "open", "writekey"}

Fault(p) ==
  /\ faults < MaxFaults
  /\ faults' = faults + 1
  /\ hit' = [hit EXCEPT ![p] = TRUE]
  /\ harmed' = (harmed \/ pc[p][2] \in Fragile)
  /\ UNCHANGED <<file, renewed, issued, own, ca, machine>>

\* A system call fails.  The results of Remove and of the writes are not looked at, and a
\* Stat that fails says that the certificate is there and that the key is not.
CallFails(p) ==
  /\ pc[p] # Idle /\ Fault(p)
  /\ CASE pc[p][2] = "stat" -> Go(p, which(p), "date")
       [] pc[p][2] = "removekey" -> Go(p, which(p), "statkey")
       [] pc[p][2] = "statkey" -> Go(p, which(p), IF which(p) = "ca" THEN "create" ELSE "load")
       [] pc[p][2] = "write" -> Go(p, which(p), "open")
       [] pc[p][2] = "writekey" -> AfterCert(p)
       [] OTHER -> Return(p, "failed")
  /\ Books

Crash(p) ==
  /\ pc[p] # Idle /\ Fault(p)
  /\ Return(p, "failed")
  /\ Books

\* Another certificate is outdated.
Expire ==
  /\ expired < issued /\ expired < MaxExpired
  /\ expired' = expired + 1
  /\ UNCHANGED <<file, issued, pc, own, ca, machine, result, bootstraps, crossed, hit, renewed, harmed, runs, faults>>

Next ==
  \/ \E p \in Procs : Step(p) \/ Begin(p) \/ CallFails(p) \/ Crash(p)
  \/ Expire

Spec == Init /\ [][Next]_vars

--------------------------------------------------------------------------------
(* Properties.                                                              *)

Contents == [id : -1..issued, by : 0..issued]
Steps == {<<c, s>> : c \in {"ca", "cert"}, s \in {"stat", "date", "removekey", "statkey", "create", "write", "open", "writekey"}}
           \cup {<<c, "copy">> : c \in {"ca", "cert", "key"}}
           \cup {<<c, s>> : c \in {"cert", "server"}, s \in {"load", "loadkey"}}
           \cup {<<"ca", "send">>, Idle}

TypeOK ==
  /\ file \in [{"ca", "cakey", "cert", "key"} -> Contents]
  /\ issued \in Nat /\ expired \in 0..issued
  /\ pc \in [Procs -> Steps]
  /\ own \in [Procs -> 0..issued] /\ ca \in [Procs -> Contents]
  /\ machine \in [Procs -> [ca : Contents, cert : Contents, key : Contents, server : 0..issued, sent : Contents]]
  /\ result \in [Procs -> {"none", "running", "ok", "failed"}]
  /\ bootstraps \in [Procs -> BOOLEAN] /\ crossed \in [Procs -> BOOLEAN]
  /\ hit \in [Procs -> BOOLEAN] /\ renewed \in [Procs -> BOOLEAN]
  /\ harmed \in BOOLEAN /\ runs \in 0..MaxRuns /\ faults \in 0..MaxFaults

\* Between commands the CA and its key belong together and so do the client's certificate
\* and its key, or the key is missing and the certificate outdated: in any sequence of
\* commands, expirations and crashes that does no harm while a pair is written. ~harmed
\* leaves out a crash or a failing call in a Fragile step, between a certificate and its
\* key (cert.go:144), and a command that writes while another one runs (bootstrap.go:99).
PairsMatch ==
  ~harmed /\ Running = {} =>
    \A c \in {"ca", "cert"} :
      LET k == file[KeyOf(c)]
      IN k = Key(file[c].id) \/ (k = Absent /\ ~Current(file[c]))

\* A command that bootstraps, alone and without a fault, succeeds, whatever hurt those before
\* it outside the Fragile steps (bootstrap.go:104, 110).
BootstrapConverges ==
  \A p \in Procs : ~harmed /\ bootstraps[p] /\ ~crossed[p] /\ ~hit[p] => result[p] # "failed"

\* The client's certificate is signed by the CA, or by one that was outdated since and
\* replaced without it (bootstrap.go:110).
ClientSigned ==
  ~harmed /\ Running = {} /\ Whole(file["cert"]) => file["cert"].by \in {file["ca"].id} \cup 1..expired

\* The CA that is sent to a machine is the one that signed the server's certificate: it is
\* read twice (utils.go:102, 126), and only another command that writes it in between can
\* make a difference.
ServerTrusted ==
  \A p \in Procs : result[p] = "ok" /\ ~renewed[p] => machine[p].server = machine[p].sent.id

\* A certificate that is whole and current is replaced only if another command bootstraps at
\* the same time (bootstrap.go:108): every machine depends on it.
CurrentKept ==
  [][\A c \in {"ca", "cert"} : Whole(file[c]) /\ Current(file[c]) /\ file'[c] # file[c] => harmed']_vars
==================================================================================
