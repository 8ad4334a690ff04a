----------------------------- MODULE Promotion -----------------------------
(***************************************************************************)
(* What a promotion promises, without saying how: a secondary turns from a *)
(* standby into a primary once and for good, through an attempt that has   *)
(* been cleared for that very secondary, and is announced as the new       *)
(* primary only by such an attempt and only after it has become one.  An   *)
(* attempt may lose hold of its promotion, which then happens later, even  *)
(* after the attempt has ended, or never.                                  *)
(*                                                                         *)
(* Several attempts may be under way at the same time, on the same         *)
(* secondary too, and any of them may be abandoned at any point.  The      *)
(* commands of Failover (internal/failover, cmd/syncctl) implement this.   *)
(***************************************************************************)
CONSTANTS
    Secondaries,  \* the sites that can be promoted
    Agents,       \* who may attempt a promotion
    NoSite        \* target of an agent without an attempt

VARIABLES
    role,         \* [Secondaries -> {"standby", "primary"}]
    announced,    \* secondaries reported to be the new primary
    phase,        \* [Agents -> {"idle", "checking", "cleared"}]
    target,       \* [Agents -> Secondaries \cup {NoSite}]
    pending       \* [Agents -> Secondaries \cup {NoSite}], a promotion let loose

promotionVars == <<role, announced, phase, target, pending>>

Init ==
    /\ role = [s \in Secondaries |-> "standby"]
    /\ announced = {}
    /\ phase = [a \in Agents |-> "idle"]
    /\ target = [a \in Agents |-> NoSite]
    /\ pending = [a \in Agents |-> NoSite]

Attempt(a, ph, s) ==
    /\ phase' = [phase EXCEPT ![a] = ph]
    /\ target' = [target EXCEPT ![a] = s]

\* An attempt begins with the checks, never with a command.
Begin(a) ==
    /\ phase[a] = "idle"
    /\ \E s \in Secondaries : Attempt(a, "checking", s)
    /\ UNCHANGED <<role, announced, pending>>

Clear(a) ==
    /\ phase[a] = "checking"
    /\ Attempt(a, "cleared", target[a])
    /\ UNCHANGED <<role, announced, pending>>

Promote(a) ==
    /\ phase[a] = "cleared"
    /\ role[target[a]] = "standby"
    /\ role' = [role EXCEPT ![target[a]] = "primary"]
    /\ UNCHANGED <<announced, phase, target, pending>>

\* The agent loses hold of the promotion it is at, and may give up with it.
Loose(a) ==
    /\ phase[a] = "cleared" /\ pending[a] = NoSite
    /\ pending' = [pending EXCEPT ![a] = target[a]]
    /\ UNCHANGED <<phase, target>> \/ Attempt(a, "idle", NoSite)
    /\ UNCHANGED <<role, announced>>

Land(a) ==
    /\ pending[a] # NoSite
    /\ pending' = [pending EXCEPT ![a] = NoSite]
    /\ \/ UNCHANGED role
       \/ /\ role[pending[a]] = "standby"
          /\ role' = [role EXCEPT ![pending[a]] = "primary"]
    /\ UNCHANGED <<announced, phase, target>>

Announce(a) ==
    /\ phase[a] = "cleared"
    /\ role[target[a]] = "primary"
    /\ announced' = announced \cup {target[a]}
    /\ Attempt(a, "idle", NoSite)
    /\ UNCHANGED <<role, pending>>

Abandon(a) ==
    /\ phase[a] # "idle"
    /\ Attempt(a, "idle", NoSite)
    /\ UNCHANGED <<role, announced, pending>>

Next ==
    \E a \in Agents :
        \/ Begin(a) \/ Clear(a) \/ Promote(a) \/ Announce(a) \/ Abandon(a)
        \/ Loose(a) \/ Land(a)

Spec == Init /\ [][Next]_promotionVars

=============================================================================
