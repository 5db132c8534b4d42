------------------------------ MODULE DriverSteps ------------------------------
(***************************************************************************)
(* The vocabulary the drivers are described in.  A driver's PreCreateCheck, *)
(* Create, Remove, Start, Stop, Kill and Restart are sequences of steps.  A *)
(* step is one request to the platform (a cloud, or a hypervisor on this    *)
(* computer) or one piece of local work, and says what the driver does      *)
(* about an error.  Module DriverLife runs Create and Remove, HostActions   *)
(* runs the power operations.                                               *)
(***************************************************************************)
EXTENDS Naturals, Sequences

\* What the driver does when a step fails.
OnError ==
  {"return",   \* return the error
   "remove",   \* call its own Remove, then return the error
   "collect",  \* go on, and return the error at the end
   "ignore",   \* log it and go on
   "skip",     \* log it and leave out the next `skip` steps
   "retry",    \* ask again
   "succeed"}  \* return, but without the error

Step(what, r, f, a, n) == [op |-> what, res |-> r, fail |-> f, absent |-> a, skip |-> n]

\* Changes nothing that is followed here: a query, a wait, local files.
Call(f) == Step("call", "", f, "ok", 0)

\* Creates r; an existing r of that name is an error.
Make(r, f) == Step("make", r, f, "ok", 0)

\* Creates r, and the driver has its id only after the step Keep(r).
MakeUnseen(r, f) == Step("make", r, f, "unseen", 0)

\* The driver assigns the id of r, its own or the user's, to one of its fields.
Keep(r) == Step("keep", r, "return", "ok", 0)

\* Creates r unless it exists.
Ensure(r, f) == Step("ensure", r, f, "ok", 0)

\* An error if r exists.
MustNotExist(r, f) == Step("mustnot", r, f, "ok", 0)

\* An error if r does not exist.
MustExist(r, f) == Step("must", r, f, "ok", 0)

\* An error if the user has no r, who said so in a flag.
MustBeGiven(r, f) == Step("given", r, f, "ok", 0)

\* Returns without an error if r does not exist.
EndUnless(r, f) == Step("endunless", r, f, "ok", 0)

\* Deletes r.  When r does not exist: a = "ok" goes on, a = "error" is a failure
\* of the step, a = "skip" leaves out the next n steps, a = "known" goes on if the driver
\* has no id of r and is a failure if it has one, a = "byid" goes on if the driver has an id
\* and is a failure if it has none.
Delete(r, a, f, n) == Step("delete", r, f, a, n)

\* Leaves out the next n steps if the driver has no id of r.
IfKnown(r, n) == Step("ifknown", r, "return", "ok", n)

\* Leaves out the next n steps unless r exists.
IfThere(r, f, n) == Step("ifthere", r, f, "ok", n)

\* Leaves out the next n steps if there is no r, or if something of another machine or of
\* this one uses it.
IfUnused(r, f, n) == Step("ifunused", r, f, "ok", n)

\* Looks whether something uses r, and then deletes it: two requests.
Cleanup(r, f) == <<IfUnused(r, f, 1), Delete(r, "ok", f, 0)>>

\* The steps are taken or not, as the platform will have it.
Perhaps(steps) == <<Step("perhaps", "", "return", "ok", Len(steps))>> \o steps

\* Always an error: the driver refuses, or does not support the operation.
Unsupported == Step("unsupported", "", "return", "ok", 0)

(* Power operations.  The platform carries a request out later: goal is "on", "off",        *)
(* "reboot", "resume" or "guestoff", which asks the guest and which the guest may ignore.   *)

\* Sends the request, and does f if it is refused.
Ask(goal, f) == Step("ask", goal, f, "ok", 0)

\* Waits, for ever if need be, until the platform has done the last request.
Finish(f) == Step("finish", "", f, "ok", 0)

\* A command of a local hypervisor returns when the work is done.
Perform(goal, f) == <<Ask(goal, f), Finish(f)>>

\* Polls for native state s, a bounded number of times; f: what a failed lookup does.
Await(s, f) == Step("await", s, f, "ok", 0)

\* Polls for ever while GetState is s; a failed lookup is an error.
While(s) == Step("while", s, "return", "ok", 0)

\* Polls a bounded number of times while GetState is s, then goes on in any case.
Linger(s) == Step("linger", s, "return", "ok", 0)

\* Polls for ever until the guest has an address.
UntilUp == Step("untilup", "", "retry", "ok", 0)

\* Tries to reach the guest a bounded number of times.
Reach == Step("reach", "", "return", "ok", 0)

\* Calls GetState once; the branches IfSeen after it depend on what it said.
Read == Step("read", "", "return", "ok", 0)
IfSeen(S, steps) == <<Step("ifseen", S, "return", "ok", Len(steps))>> \o steps

When(b, steps) == IF b THEN steps ELSE <<>>

\* What DriverLife needs of a driver, for every set of flags the driver accepts.
Lifecycle(flags, Accepts(_), vm, ids, res, uses, Pre(_), Make0(_), Drop(_)) ==
  LET ok == {o \in flags : Accepts(o)}
  IN [flags |-> ok, vm |-> vm, stored |-> ids.stored, unique |-> ids.unique,
      shared |-> res.shared, foreign |-> res.foreign, uses |-> uses,
      pre |-> [o \in ok |-> Pre(o)], create |-> [o \in ok |-> Make0(o)],
      remove |-> [o \in ok |-> Drop(o)]]

\* What HostActions needs: GetState as a function of the platform's own state and what it
\* says when it cannot look, the native states of a machine that is on, off or in between
\* (via), the other states it may rest in (up: with a live guest), and the operations.
PowerTable(state, blind, rest, Start0, Stop0, Restart0, Kill0) ==
  [state |-> state, blind |-> blind, on |-> rest.on, off |-> rest.off, via |-> rest.via,
   other |-> rest.other, up |-> rest.up,
   start |-> Start0, stop |-> Stop0, restart |-> Restart0, kill |-> Kill0]
================================================================================
