----------------------------- MODULE MCServices -----------------------------
(***************************************************************************)
(* The services around the money, each on a small instance:                *)
(*                                                                         *)
(*   hiring         one client, one freelancer and one project, one        *)
(*                  proposal, one contract of two milestones               *)
(*   reviews        two completed contracts between two users              *)
(*   fraud          one screenshot and three signals; two make the score   *)
(*   admin          two admins on one user and one dispute                 *)
(*   screenshots    two captures, two failed calls, one late call          *)
(*   hub            two connections of a user, one conversation, a queue   *)
(*                  of one frame                                           *)
(*   messaging      two users, one conversation, two overlapping posts     *)
(*   notifications  an event with and one without a recipient, one fault;  *)
(*                  or calls of dispatch                                   *)
(*   profiles       a profile of three events, one fault of the consumer;  *)
(*                  or skills, portfolio and devices                       *)
(*   gateway        one user and one address, a burst of two tokens and of *)
(*                  one; two clocks, one of them ahead                     *)
(***************************************************************************)
EXTENDS Services, TLC

MCBudgets == {[type |-> "fixed", min |-> 1, max |-> None, weekly |-> None],
              [type |-> "fixed", min |-> 2, max |-> 1, weekly |-> None],
              [type |-> "hourly", min |-> 1, max |-> None, weekly |-> None]}
MCPlans == {<<2>>}
MCBreakdowns == {<<1>>, <<1, 1>>}
MCPerms == [a1 |-> {"*"}, a2 |-> {"*"}, b1 |-> {}]
MCClientOf == [k1 |-> "c", k2 |-> "c"]
MCFreelancerOf == [k1 |-> "f", k2 |-> "f"]
MCStatusOf == [k1 |-> "completed", k2 |-> "completed"]
MCKeys == 1..4
MCUserOf == [x |-> "u1", y |-> "u1"]
MCReplicaOf == [x |-> "a", y |-> "a"]
MCRecipientOf == [e1 |-> "u1", e2 |-> None, e3 |-> "u1"]
MCOwnerPerms == [u1 |-> {}, adm |-> {"*"}]
MCCapacity == [general |-> 2, auth |-> 1]

ASSUME MarketConstants == Hiring!ContractsConstants

(* Requests are interchangeable. *)
MCSymmetry == Permutations(Requests)

-----------------------------------------------------------------------------
(* Bounds: in some parts two kinds of steps that share no state are kept
   apart, or one is kept at one end of the behaviour. *)

(* Files are attached to a project before there is a contract. *)
FilesThenContract ==
  part = "hiring" =>
    (\A p \in Projects : project[p] # None => project[p].files = 0) \/ \A k \in Contracts : contract[k] = None

(* Reviews are answered when no request is under way: nothing depends on an
   answer. *)
ResponsesLast ==
  part = "reviews" => responses = {} \/ \A r \in Requests : tx[r] = Review!Idle

(* Events of the bus and calls of dispatch meet in no state. *)
Untouched(es) ==
  /\ \A e \in es : handling[e] = Notice!Resting /\ \A ch \in Channels : delivered[e][ch] = 0
  /\ \A i \in DOMAIN notifications : notifications[i].event \notin es

BusOrDispatch ==
  part = "notifications" =>
    \/ Untouched(Dispatched)
    \/ Untouched(Events \ Dispatched) /\ processed = {} /\ faults = 0

(* Notifications are marked as read when none is being written. *)
WrittenThenRead ==
  part = "notifications" =>
    \/ \A i \in DOMAIN notifications : ~notifications[i].read
    \/ \A e \in Events : handling[e] = Notice!Resting

(* Skills, portfolio and devices change next to a profile's first event. *)
ProfileOrBelongings ==
  part = "profiles" =>
    \/ /\ skills = {} /\ devices = {} /\ \A u \in Accounts : portfolio[u] = 0
       /\ \A r \in Requests : tx[r].at # "replace"
    \/ /\ faults = 0 /\ kycRecords = {} /\ \A u \in Accounts : Len(events[u]) <= 1
       /\ \A r \in Requests : tx[r].at \notin {"update", "missed", "updated"}

(* The consumer's fault comes after the last request: the two share nothing
   but the events, which may wait. *)
RequestsThenFaults ==
  part = "profiles" => faults = 0 \/ \A r \in Requests : tx[r] = Profile!Idle

(* The bucket of a user is asked next to the first script of its address. *)
AddressOrUser ==
  part = "gateway" =>
    \/ ran <= 1
    \/ /\ \A u \in Accounts : bucket[<<"user", u>>] = None
       /\ \A r \in Requests : Len(flight[r].keys) <= 1

(* The clocks given to the scripts of a key are off by one tick in all. *)
FewClockErrors ==
  part = "gateway" => \A k \in DOMAIN drift : drift[k] <= 1
=============================================================================
