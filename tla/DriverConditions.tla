--------------------------- MODULE DriverConditions ---------------------------
(***************************************************************************)
(* What the steps of the drivers have to be like for the properties of      *)
(* DriverLife to hold: conditions on the table of drivers that can be       *)
(* checked one driver at a time, without running any.  TLC evaluates them   *)
(* on the real table; the proofs about DriverLife use nothing else of it.   *)
(*                                                                          *)
(* In a condition t is a driver, o the flags it was given, m one of its     *)
(* methods, r and u are kinds of resources, g, i, j and k numbers of steps. *)
(***************************************************************************)
EXTENDS DriverSteps, Integers, FiniteSets

CONSTANTS
  Names,       \* the drivers
  Table,       \* what they do
  MayLeak, MayStay, MayStick, MayPanic, MayClobber, MayRace, MayPretend
    \* the exceptions to the properties of DriverLife

\* The methods of the drivers are sequences of steps.
ASSUME TableAssumption ==
  \A d \in Names :
    /\ Table[d].shared \subseteq STRING /\ Table[d].foreign \subseteq STRING
    /\ \A o \in Table[d].flags : \A m \in {Table[d].pre[o], Table[d].create[o], Table[d].remove[o]} :
         m \in Seq([op : STRING, res : STRING, fail : OnError, absent : STRING, skip : Nat])

\* PreCreateCheck only asks.
ASSUME PreAssumption ==
  \A d \in Names : \A o \in Table[d].flags : \A i \in DOMAIN Table[d].pre[o] :
    Table[d].pre[o][i].op \notin {"make", "ensure", "delete"}

--------------------------------------------------------------------------------
(* What belongs to others.                                                  *)

\* Step i of m deletes what step i - 1 has found unused, and is reached in no other way.
Checked(m, i) ==
  /\ {i - 1, i} \subseteq DOMAIN m /\ m[i].op = "delete"
  /\ m[i - 1].op = "ifunused" /\ m[i - 1].res = m[i].res
  /\ m[i - 1].skip > 0 /\ m[i - 1].fail \in {"return", "remove", "retry"}
  /\ \A j \in 1..i - 2 : j + m[j].skip # i - 1

\* What machines share is no part of a virtual machine.  Create deletes none of it, Remove only
\* what it has found unused and what the platform, but for the kinds of MayRace, keeps if it
\* is used after all.
ASSUME SharedAssumption ==
  \A d \in Names : \A o \in Table[d].flags :
    /\ \A r \in Table[d].shared : <<r, Table[d].vm>> \notin Table[d].uses
    /\ \A i \in DOMAIN Table[d].create[o] :
         Table[d].create[o][i].op = "delete" => Table[d].create[o][i].res \notin Table[d].shared
    /\ \A i \in DOMAIN Table[d].remove[o] :
         Table[d].remove[o][i].op = "delete" /\ Table[d].remove[o][i].res \in Table[d].shared =>
           /\ Checked(Table[d].remove[o], i)
           /\ Table[d].remove[o][i].res \in MayRace[d] \/ \E u \in Table[d].uses : u[2] = Table[d].remove[o][i].res

\* Step g of method m deals with r, and the driver gets past it only if it succeeds: no step
\* before it leaves it out.
Gate(m, r, g) ==
  /\ g \in DOMAIN m /\ m[g].res = r /\ m[g].fail \in {"return", "remove", "retry"}
  /\ \A i \in 1..g - 1 : i + m[i].skip < g

\* No step up to g ends m with success.
NoEarlySuccess(m, g) == \A i \in 1..g : m[i].op # "endunless" /\ m[i].fail # "succeed"

Does(m, what, r) == \E i \in DOMAIN m : m[i].op \in what /\ m[i].res = r

\* Step g of PreCreateCheck refuses to go on if there is an r.
RefusesAt(t, o, r, g) ==
  Gate(t.pre[o], r, g) /\ t.pre[o][g].op = "mustnot" /\ NoEarlySuccess(t.pre[o], g)

\* Step g of Create makes r, which it cannot if there is one, and no step before it learns an id of r.
ClashesAt(t, o, r, g) ==
  /\ Gate(t.create[o], r, g) /\ t.create[o][g].op = "make"
  /\ \A i \in 1..g - 1 : t.create[o][i].res = r => t.create[o][i].op \notin {"make", "keep"}

\* What keeps driver t with flags o from deleting an r that was there before: it deletes none;
\* or PreCreateCheck refuses; or it deletes r by an id, and only learns the id of an r it made.
NotDeleted(t, o, r) == ~Does(t.create[o], {"delete"}, r) /\ ~Does(t.remove[o], {"delete"}, r)
Refused(t, o, r) == \E g \in DOMAIN t.pre[o] : RefusesAt(t, o, r, g)
OwnId(t, o, r) ==
  /\ r \in t.stored
  /\ ~Does(t.pre[o], {"keep"}, r) /\ ~Does(t.remove[o], {"make", "keep"}, r)
  /\ \/ ~Does(t.create[o], {"keep"}, r) /\ (r \in t.unique => ~Does(t.create[o], {"make"}, r))
     \/ r \in t.unique /\ \E g \in DOMAIN t.create[o] : ClashesAt(t, o, r, g)

\* One of the three holds for every kind but those of MayClobber.
ASSUME ForeignAssumption ==
  \A d \in Names : \A o \in Table[d].flags : \A r \in Table[d].foreign \ MayClobber[d] :
    /\ r \notin Table[d].shared /\ <<r, Table[d].vm>> \notin Table[d].uses
    /\ NotDeleted(Table[d], o, r) \/ Refused(Table[d], o, r) \/ OwnId(Table[d], o, r)

--------------------------------------------------------------------------------
(* A create that succeeds.                                                  *)

\* Create with flags o has made the virtual machine, or found it, after step g, and has its id
\* after step k.
MakesVM(t, o, g, k) ==
  /\ Gate(t.create[o], t.vm, g)
  /\ t.create[o][g].op \in {"make", "ensure"} \/ (t.create[o][g].op = "must" /\ t.vm \notin t.stored)
  /\ Gate(t.create[o], t.vm, k) /\ g <= k /\ NoEarlySuccess(t.create[o], k)
  /\ t.vm \in t.stored => \/ t.create[o][k].op = "keep"
                          \/ t.create[o][k].op = "make" /\ t.create[o][k].absent # "unseen"
  /\ ~Does(t.create[o], {"delete"}, t.vm)

\* So does every driver that has virtual machines but those of MayPretend.
ASSUME CreateAssumption ==
  \A d \in Names \ MayPretend : Table[d].vm # "" =>
    \A o \in Table[d].flags : \E g, k \in DOMAIN Table[d].create[o] : MakesVM(Table[d], o, g, k)

--------------------------------------------------------------------------------
(* An rm without failures.                                                  *)

\* Who is at step i of m has taken step g: no step before g leads past it to i or before.
Passed(m, g, i) == g \in 1..i - 1 /\ \A j \in 1..g - 1 : j + m[j].skip \notin g..i - 1

\* At step i of m, in a run without failures: r was deleted or was not there; there is an r;
\* the driver has an id of r.
DeletedBefore(m, r, i) ==
  \E g \in 1..i - 1 :
    Passed(m, g, i) /\ m[g].op = "delete" /\ m[g].res = r /\ m[g].fail \in {"return", "remove"}
FoundBefore(m, r, i) ==
  \E g \in 1..i - 1 :
    /\ Passed(m, g, i) /\ m[g].res = r
    /\ m[g].op = "endunless" \/ (m[g].op = "must" /\ m[g].fail \in {"return", "remove"})
    /\ \A j \in g + 1..i - 1 : m[j].op = "delete" => m[j].res # r
KnownBefore(m, r, i) ==
  \E g \in 1..i - 1 :
    /\ Passed(m, g, i) /\ m[g].op = "ifknown" /\ m[g].res = r /\ i <= g + m[g].skip
    /\ \A j \in g + 1..i - 1 : m[j].op = "delete" => m[j].res # r

\* All that would keep the platform from deleting r was deleted before step i.
Free(t, m, r, i) == \A u \in t.uses : u[2] = r => u[1] \notin t.stored /\ DeletedBefore(m, u[1], i)

\* Step i of Remove succeeds unless something fails.
Passes(t, m, i) ==
  /\ m[i].op \notin {"mustnot", "given", "unsupported"}
  /\ m[i].op = "must" => FoundBefore(m, m[i].res, i)
  /\ m[i].op = "delete" =>
       /\ Free(t, m, m[i].res, i) \/ Checked(m, i)
       /\ m[i].absent \in {"ok", "skip"} \/ FoundBefore(m, m[i].res, i)

\* An r that is found by its name, or of which the platform never had one without a number.
Plain(t, r) == r \in t.stored => r \notin t.unique \cup t.foreign \cup t.shared

\* If step i of Remove fails, something that is to be deleted is gone.
FailsIfGone(t, m, i) ==
  \/ /\ m[i].op \in {"must", "delete"} /\ m[i].res \in t.stored \cup {t.vm}
     /\ m[i].op = "delete" => Free(t, m, m[i].res, i)
     /\ \/ Plain(t, m[i].res)
        \/ m[i].res \in t.unique /\ (KnownBefore(m, m[i].res, i) \/ (m[i].op = "delete" /\ m[i].absent = "known"))
  \/ \E r \in t.stored \cup {t.vm} : Plain(t, r) /\ DeletedBefore(m, r, i)

\* If step i of Remove fails, the driver never had an id of what it deletes.
FailsIfUnknown(t, m, i) ==
  /\ m[i].op = "delete" /\ m[i].absent = "byid" /\ m[i].res \in t.stored
  /\ Free(t, m, m[i].res, i)
  /\ \A j \in 1..i - 1 : m[j].op = "delete" => m[j].res # m[i].res

\* Remove makes nothing and collects no errors; a step whose failure it returns succeeds, or
\* fails because something is gone, in a driver of MayStick, or because the record has no id
\* of it, in one of MayPanic.
ASSUME RmAssumption ==
  \A d \in Names : \A o \in Table[d].flags : \A i \in DOMAIN Table[d].remove[o] :
    /\ Table[d].remove[o][i].op \notin {"make", "ensure", "keep"} /\ Table[d].remove[o][i].fail # "collect"
    /\ Table[d].remove[o][i].fail \in {"return", "remove"} =>
         \/ Passes(Table[d], Table[d].remove[o], i)
         \/ d \in MayStick /\ FailsIfGone(Table[d], Table[d].remove[o], i)
         \/ d \in MayPanic /\ FailsIfUnknown(Table[d], Table[d].remove[o], i)

--------------------------------------------------------------------------------
(* What is left behind.                                                     *)

\* No r is left once u is gone: r is made only when there is a u, and uses it.
BasedOn(t, o, r, u) ==
  /\ r \notin t.stored \cup t.foreign \cup t.shared /\ u \notin t.stored /\ u = t.vm /\ <<r, u>> \in t.uses
  /\ ~Does(t.create[o], {"delete"}, u)
  /\ \A j \in DOMAIN t.create[o] : t.create[o][j].op \in {"make", "ensure"} /\ t.create[o][j].res = r =>
       \E g \in 1..j - 1 : Gate(t.create[o], u, g) /\ t.create[o][g].op \in {"make", "ensure", "must"}

\* Step g of Remove deletes r, and Remove does not succeed before it unless there is none.
\* The look whether r is used, if there is one, finds that it is not.
DropsAt(t, o, r, g) ==
  /\ g \in DOMAIN t.remove[o] /\ t.remove[o][g].op = "delete" /\ t.remove[o][g].res = r
  /\ t.remove[o][g].fail \in {"return", "remove", "retry"}
  /\ \/ Gate(t.remove[o], r, g)
     \/ Checked(t.remove[o], g) /\ Gate(t.remove[o], r, g - 1) /\ Free(t, t.remove[o], r, g - 1)
  /\ \A i \in 1..g :
       /\ t.remove[o][i].fail # "succeed"
       /\ t.remove[o][i].op = "endunless" =>
            (t.remove[o][i].res = r /\ r \notin t.stored) \/ BasedOn(t, o, r, t.remove[o][i].res)

\* Nothing uses r.
Unused(t, r) == \A u \in t.uses : u[2] # r

\* A Create that has made r has an id of u, which is not deleted before step i of Remove.
HadId(t, o, r, u, i) ==
  /\ u \in t.stored /\ ~Does(t.create[o], {"delete"}, u)
  /\ \A j \in DOMAIN t.create[o] : t.create[o][j].op \in {"make", "ensure"} /\ t.create[o][j].res = r =>
       \E g \in 1..j - 1 :
         Gate(t.create[o], u, g) /\ t.create[o][g].op = "make" /\ t.create[o][g].absent # "unseen"
  /\ \A j \in 1..i - 1 : t.remove[o][j].op = "delete" => t.remove[o][j].res # u

\* If Create fails after it has made r, it has its id and calls Remove, which deletes r at step g.
UndoneAt(t, o, r, g) ==
  /\ \A j \in DOMAIN t.create[o] : t.create[o][j].op \in {"make", "ensure"} /\ t.create[o][j].res = r =>
       /\ t.create[o][j].op = "make" /\ t.create[o][j].absent # "unseen"
       /\ \A i \in DOMAIN t.create[o] : i > j => t.create[o][i].fail \in {"remove", "retry", "ignore", "skip"}
  /\ DropsAt(t, o, r, g) /\ Gate(t.remove[o], r, g) /\ Unused(t, r)
  /\ \A i \in 1..g - 1 :
       /\ t.remove[o][i].op \notin {"must", "mustnot", "given", "unsupported"}
       /\ t.remove[o][i].op = "delete" =>
            /\ t.remove[o][i].res \notin t.shared /\ Unused(t, t.remove[o][i].res)
            /\ \/ t.remove[o][i].absent \in {"ok", "skip"}
               \/ t.remove[o][i].absent = "byid" /\ HadId(t, o, r, t.remove[o][i].res, i)

\* At step i of a Create without failures there is an r that it has made, and it has its id.
Standing(m, r, i) ==
  \E j \in 1..i - 1 :
    /\ m[j].op \in {"make", "ensure"} /\ m[j].res = r
    /\ \A k \in j + 1..i - 1 : m[k].op = "delete" => m[k].res # r
Held(m, r, i) ==
  \E j \in 1..i - 1 :
    /\ m[j].res = r
    /\ (m[j].op = "make" /\ m[j].absent # "unseen") \/ (m[j].op = "keep" /\ Standing(m, r, j))
    /\ \A k \in j + 1..i - 1 : m[k].op = "delete" => m[k].res # r

\* Step i of Create succeeds unless something fails.
Sure(t, m, i) ==
  /\ m[i].op \notin {"must", "mustnot", "given", "unsupported"}
  /\ m[i].op = "make" =>
       /\ m[i].res \in t.stored \ t.unique
       /\ \A j \in 1..i - 1 : m[j].op \in {"make", "ensure"} => m[j].res # m[i].res
  /\ m[i].op = "delete" =>
       Unused(t, m[i].res) /\ m[i].res \in t.stored /\ Standing(m, m[i].res, i) /\ Held(m, m[i].res, i)

\* A Create m without failures makes all or nothing of the kinds L, and ends with their ids.
AllOrNothing(t, m, L) ==
  /\ \A i \in DOMAIN m :
       /\ m[i].skip = 0 /\ m[i].op # "endunless" /\ (m[i].fail = "succeed" => m[i].op = "call")
       /\ m[i].op \in {"make", "ensure", "keep", "delete"} => m[i].fail \in {"return", "remove"}
       /\ \A f \in 1..i - 1 : m[f].op \in {"make", "ensure"} /\ m[f].res \in L => Sure(t, m, i)
  /\ \A r \in L \cap t.stored : Standing(m, r, Len(m) + 1) => Held(m, r, Len(m) + 1)

\* Step i of Remove, without failures, finds the r that Create has left.
Finds(t, o, r, i) ==
  /\ Standing(t.create[o], r, Len(t.create[o]) + 1)
  /\ r \in t.stored => Held(t.create[o], r, Len(t.create[o]) + 1)
  /\ \A k \in 1..i - 1 : t.remove[o][k].op = "delete" => t.remove[o][k].res # r

\* Remove without failures takes every step after a Create without failures, but perhaps for
\* deletions of kinds not in L, and leaves nothing of L.
Smooth(t, o, L) ==
  /\ \A i \in DOMAIN t.remove[o] :
       /\ t.remove[o][i].op \notin {"mustnot", "given", "unsupported", "perhaps"}
       /\ t.remove[o][i].op \in {"must", "endunless", "ifthere"} => Finds(t, o, t.remove[o][i].res, i)
       /\ t.remove[o][i].op = "ifknown" => t.remove[o][i].res \in t.stored /\ Finds(t, o, t.remove[o][i].res, i)
       /\ t.remove[o][i].op = "delete" => t.remove[o][i].absent = "ok" \/ Finds(t, o, t.remove[o][i].res, i)
       /\ t.remove[o][i].op = "delete" => Free(t, t.remove[o], t.remove[o][i].res, i) \/ Checked(t.remove[o], i)
       /\ t.remove[o][i].op = "ifunused" =>
            \/ /\ t.remove[o][i].res \notin t.shared /\ Finds(t, o, t.remove[o][i].res, i)
               /\ Free(t, t.remove[o], t.remove[o][i].res, i)
            \/ t.remove[o][i].res \notin L /\ t.remove[o][i].skip = 1 /\ Checked(t.remove[o], i + 1)
  /\ \A r \in L : Does(t.create[o], {"make", "ensure"}, r) => Does(t.remove[o], {"delete"}, r)

\* What Create makes for this machine alone, by kind: if it is found only by its id, a Create
\* that fails undoes it; an rm that succeeds has deleted it.  What MayLeak and MayStay list
\* may fail to be so, but not in a life without failures.
ASSUME LeakAssumption ==
  \A d \in Names : \A o \in Table[d].flags : \A i \in DOMAIN Table[d].create[o] :
    /\ Table[d].create[o][i].fail # "collect"
    /\ \A r \in {Table[d].create[o][i].res} \ Table[d].shared :
         Table[d].create[o][i].op \in {"make", "ensure"} =>
           /\ r \in Table[d].stored \ MayLeak[d] => \E g \in DOMAIN Table[d].remove[o] : UndoneAt(Table[d], o, r, g)
           /\ r \in MayLeak[d] \cup MayStay[d] => AllOrNothing(Table[d], Table[d].create[o], MayLeak[d] \cup MayStay[d])
           /\ \/ \E g \in DOMAIN Table[d].remove[o] : DropsAt(Table[d], o, r, g)
              \/ r \in MayLeak[d] \cup MayStay[d] /\ Smooth(Table[d], o, MayLeak[d] \cup MayStay[d])
================================================================================
