------------------------------- MODULE ListHosts -------------------------------
(***************************************************************************)
(* The ls command asking its hosts for their state (commands/ls.go): one   *)
(* goroutine per host (getHostState), which starts another one to query    *)
(* the driver (attemptGetHostState) and waits for it or for a timeout, and *)
(* the main goroutine, which collects one item per host over an unbuffered *)
(* channel and sorts them.  Calls to virtualbox drivers hold one lock, the *)
(* SerialDriver's (libmachine/drivers/serial.go), until the driver answers.*)
(***************************************************************************)
EXTENDS Naturals, Sequences, FiniteSets

CONSTANTS Hosts,      \* the hosts ls lists, each with a plugin of its own
          Serial,     \* those behind a SerialDriver
          Hanging,    \* those whose driver may never answer GetURL or GetState
          Rank        \* the place of each host's lower-case name in natural order: equal
                      \* for names that differ in case only

ASSUME ListAssumption ==
  /\ Serial \subseteq Hosts /\ Hanging \subseteq Hosts
  /\ IsFiniteSet(Hosts) /\ Rank \in [Hosts -> Nat]

VARIABLES
  query,   \* the step of each host's attemptGetHostState
  parent,  \* the step of each host's getHostState
  call,    \* the driver call of each goroutine: none ("out"), "in" or "hung"
  items,   \* the hosts whose items were collected, in that order
  listed,  \* the hosts whose items are shown, once sorted
  main     \* the main goroutine: "collect", "sort" with the channel closed, "done"

lsVars == <<query, parent, call, items, listed, main>>

Goroutines == Hosts \X {"query", "parent"}

LsTypeOK ==
  /\ query \in [Hosts -> {"url", "state", "docker", "name", "send", "sent"}]
  /\ parent \in [Hosts -> {"wait", "timeout", "send", "sent"}]
  /\ call \in [Goroutines -> {"out", "in", "hung"}]
  /\ items \in Seq(Hosts)
  /\ listed \in Seq(Hosts)
  /\ main \in {"collect", "sort", "done"}

LsInit ==
  /\ query = [h \in Hosts |-> "url"]
  /\ parent = [h \in Hosts |-> "wait"]
  /\ call = [g \in Goroutines |-> "out"]
  /\ items = <<>>
  /\ listed = <<>>
  /\ main = "collect"

-----------------------------------------------------------------------------
(* Driver calls. *)

\* stdLock is held.
Locked == \E h \in Serial, r \in {"query", "parent"} : call[<<h, r>>] # "out"

\* Wrong variant: the call does not take the lock.
LockSkipped(h) == TRUE

\* d.Lock() of a SerialDriver; any other driver is called at once.
Lock(h) == h \in Serial => ~Locked

\* The goroutine's next step is a call of the driver.
Calls(h, r) ==
  \/ r = "query" /\ query[h] \in {"url", "state", "name"}
  \/ r = "parent" /\ parent[h] = "timeout"

EnterCall(h, r) ==
  /\ Calls(h, r) /\ call[<<h, r>>] = "out"
  /\ Lock(h)
  /\ call' = [call EXCEPT ![<<h, r>>] = "in"]
  /\ UNCHANGED <<query, parent, items, listed, main>>

\* GetURL or GetState waits for ever for a hypervisor or a cloud.  DriverName does
\* not: the plugin serves each call in a goroutine of its own.
Hang(h) ==
  /\ h \in Hanging /\ query[h] \in {"url", "state"} /\ call[<<h, "query">>] = "in"
  /\ call' = [call EXCEPT ![<<h, "query">>] = "hung"]
  /\ UNCHANGED <<query, parent, items, listed, main>>

\* The driver answers and d.Unlock() runs.
Return(h, r) ==
  /\ call[<<h, r>>] = "in"
  /\ call' = [call EXCEPT ![<<h, r>>] = "out"]

-----------------------------------------------------------------------------
(* attemptGetHostState. *)

\* GetURL: with an address the host is taken to be running and its Docker engine is
\* asked for a version; without one, or with an error, the driver is asked for the state.
URLReturns(h, found) ==
  /\ query[h] = "url" /\ Return(h, "query")
  /\ query' = [query EXCEPT ![h] = IF found THEN "docker" ELSE "state"]
  /\ UNCHANGED <<parent, items, listed, main>>

StateReturns(h) ==
  /\ query[h] = "state" /\ Return(h, "query")
  /\ query' = [query EXCEPT ![h] = "name"]
  /\ UNCHANGED <<parent, items, listed, main>>

\* The Docker client is no driver call and gives up by itself.
DockerVersion(h) ==
  /\ query[h] = "docker"
  /\ query' = [query EXCEPT ![h] = "name"]
  /\ UNCHANGED <<parent, call, items, listed, main>>

\* The item is built, DriverName() called for it, before the send.
NameReturns(h) ==
  /\ query[h] = "name" /\ Return(h, "query")
  /\ query' = [query EXCEPT ![h] = "send"]
  /\ UNCHANGED <<parent, items, listed, main>>

-----------------------------------------------------------------------------
(* getHostState. *)

\* stateQueryChan is unbuffered: the send and the receive are one step.
Answered(h) ==
  /\ parent[h] = "wait" /\ query[h] = "send"
  /\ query' = [query EXCEPT ![h] = "sent"]
  /\ parent' = [parent EXCEPT ![h] = "send"]
  /\ UNCHANGED <<call, items, listed, main>>

\* Wrong variant: no case for the timeout.
HostTimeoutDisabled(h) == FALSE /\ UNCHANGED lsVars

\* The timer may win also when the answer is there: select chooses either.
HostTimeout(h) ==
  /\ parent[h] = "wait"
  /\ parent' = [parent EXCEPT ![h] = "timeout"]
  /\ UNCHANGED <<query, call, items, listed, main>>

\* The item of a host that timed out has its driver's name too.
TimeoutItem(h) ==
  /\ parent[h] = "timeout" /\ Return(h, "parent")
  /\ parent' = [parent EXCEPT ![h] = "send"]
  /\ UNCHANGED <<query, items, listed, main>>

-----------------------------------------------------------------------------
(* getHostListItems. *)

\* Wrong variant: the goroutine goes back to its select.
CollectAndWait(h) ==
  /\ main = "collect" /\ parent[h] = "send"
  /\ parent' = [parent EXCEPT ![h] = "wait"]
  /\ items' = Append(items, h)
  /\ main' = IF Len(items') = Cardinality(Hosts) THEN "sort" ELSE "collect"
  /\ UNCHANGED <<query, call, listed>>

\* The main goroutine receives as often as there are hosts and closes the channel.
Collect(h) ==
  /\ main = "collect" /\ parent[h] = "send"
  /\ parent' = [parent EXCEPT ![h] = "sent"]
  /\ items' = Append(items, h)
  /\ main' = IF Len(items') = Cardinality(Hosts) THEN "sort" ELSE "collect"
  /\ UNCHANGED <<query, call, listed>>

\* The map from lower-case names to items keeps the last item of each name.
LastRanked(r) ==
  LET ks == {k \in DOMAIN items : Rank[items[k]] = r}
  IN  items[CHOOSE k \in ks : \A j \in ks : j <= k]

\* Wrong variant: the items stay in the order of their answers.
sortNothing ==
  /\ main = "sort"
  /\ listed' = items
  /\ main' = "done"
  /\ UNCHANGED <<query, parent, call, items>>

\* What sort.Sort does to the names: p says from which place each one comes.
Sorts(p) ==
  /\ \A k \in DOMAIN items : \E j \in DOMAIN items : p[j] = k
  /\ \A j, k \in DOMAIN items : j < k => Rank[items[p[j]]] <= Rank[items[p[k]]]

\* The names are sorted, the items are looked up by name.
sortHostListItemsByName ==
  /\ main = "sort"
  /\ \E p \in [DOMAIN items -> DOMAIN items] :
       Sorts(p) /\ listed' = [k \in DOMAIN items |-> LastRanked(Rank[items[p[k]]])]
  /\ main' = "done"
  /\ UNCHANGED <<query, parent, call, items>>

\* Once the list is printed the process ends; until then the goroutines run on.
LsNext ==
  \/ /\ main # "done"
     /\ \E h \in Hosts :
          \/ \E r \in {"query", "parent"} : EnterCall(h, r)
          \/ Hang(h)
          \/ \E found \in BOOLEAN : URLReturns(h, found)
          \/ StateReturns(h) \/ DockerVersion(h)
          \/ NameReturns(h) \/ Answered(h) \/ HostTimeout(h) \/ TimeoutItem(h)
          \/ Collect(h)
  \/ sortHostListItemsByName

LsSpec == LsInit /\ [][LsNext]_lsVars

\* Every goroutine runs, a timer that is set expires, a driver that does not hang
\* answers, and the lock is granted in the end to a goroutine that asks for it again
\* and again: after a millisecond a Go mutex is handed to the first that waits.
LsFairness ==
  /\ \A h \in Hosts :
       /\ \A r \in {"query", "parent"} : SF_lsVars(EnterCall(h, r))
       /\ WF_lsVars(\E found \in BOOLEAN : URLReturns(h, found))
       /\ WF_lsVars(StateReturns(h))
       /\ WF_lsVars(DockerVersion(h))
       /\ WF_lsVars(NameReturns(h)) /\ WF_lsVars(Answered(h)) /\ WF_lsVars(HostTimeout(h))
       /\ WF_lsVars(TimeoutItem(h)) /\ WF_lsVars(Collect(h))
  /\ WF_lsVars(sortHostListItemsByName)

LsFairSpec == LsSpec /\ LsFairness

-----------------------------------------------------------------------------
(* Properties. *)

\* No two calls of virtualbox drivers run at the same time, the query of one host
\* and the timeout of another included.
OneSerialCall ==
  \A g, k \in Serial \X {"query", "parent"} :
    call[g] # "out" /\ call[k] # "out" => g = k

\* When the channel is closed every getHostState has sent its item, so that none
\* panics on the closed channel, and every host was collected once.
ClosedAfterAll ==
  main # "collect" => \A h \in Hosts :
    /\ parent[h] = "sent"
    /\ Cardinality({k \in DOMAIN items : items[k] = h}) = 1

\* The table has a row for every host, in the order of the names; of hosts whose names
\* differ in case only one may have the rows of all (ls.go:480).
EveryHostListed ==
  main = "done" =>
    /\ \A h \in Hosts : \E k \in DOMAIN listed :
         listed[k] = h \/ (Rank[listed[k]] = Rank[h] /\ \E g \in Hosts \ {h} : Rank[g] = Rank[h])
    /\ \A j, k \in DOMAIN listed : j < k => Rank[listed[j]] <= Rank[listed[k]]

\* Whatever drivers hang, ls ends, unless one of them hangs in a call that holds
\* the lock.
EndsUnlessLockHeld == <>(main = "done" \/ \E h \in Serial : call[<<h, "query">>] = "hung")

=============================================================================
