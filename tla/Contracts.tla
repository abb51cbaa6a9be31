----------------------------- MODULE Contracts -----------------------------
(***************************************************************************)
(* The contract service on top of the marketplace.  A contract is formed   *)
(* from a proposal that is looked up over HTTP before the transaction      *)
(* begins, is activated, and can be disputed; a fixed-price contract's     *)
(* milestones are funded, submitted and approved.  A milestone transition  *)
(* and a dispute lock their row, read it, and write later; the activation  *)
(* is one guarded UPDATE.                                                  *)
(***************************************************************************)
EXTENDS Marketplace, Cents

CONSTANTS
  Contracts,    \* ids the database hands out
  Breakdowns,   \* milestone amounts a client asks for
  MaxSeq,       \* bound on the milestones of a contract
  Requests,     \* requests served concurrently
  MaxDisputes   \* bound on the disputes of a contract

ContractsConstants ==
  /\ MarketplaceConstants
  /\ \A amounts \in Breakdowns : amounts \in Seq(Nat) /\ Len(amounts) <= MaxSeq
  /\ MaxSeq \in Nat /\ MaxDisputes \in Nat
  /\ None \notin Contracts

VARIABLES
  contract,       \* contracts, None without a row
  milestones,     \* milestones of each contract, by seq
  deliverables,   \* deliverables of each milestone
  timeline,       \* contract_events of each contract, in insertion order
  disputes,       \* how many disputes each contract has, all open
  contractOutbox, \* events of each contract, in commit order
  work            \* what each request in flight has read and locked

tables == <<contract, milestones, deliverables, timeline, disputes, contractOutbox>>
vars == <<market, tables, work>>

Idle == [op |-> "idle", lock |-> None]
MilestoneRows == Contracts \X (1..MaxSeq)

Init ==
  /\ InitMarketplace
  /\ contract = [k \in Contracts |-> None]
  /\ milestones = [k \in Contracts |-> <<>>]
  /\ deliverables = [m \in MilestoneRows |-> 0]
  /\ timeline = [k \in Contracts |-> <<>>]
  /\ disputes = [k \in Contracts |-> 0]
  /\ contractOutbox = [k \in Contracts |-> <<>>]
  /\ work = [r \in Requests |-> Idle]

-----------------------------------------------------------------------------
(* Transactions: FOR UPDATE and a guarded UPDATE wait for the lock's holder.
   A request reads and checks in its first step and writes in its second. *)

RowFree(row) == \A r \in Requests : work[r].lock # row

Begin(r, w) ==
  /\ work[r] = Idle
  /\ work' = [work EXCEPT ![r] = w]
  /\ UNCHANGED <<market, tables>>

Commit(r) == work' = [work EXCEPT ![r] = Idle]

(* An error or a lost connection ends a request with nothing written. *)
Rollback(r) ==
  /\ work[r] # Idle
  /\ work' = [work EXCEPT ![r] = Idle]
  /\ UNCHANGED <<market, tables>>

(* One contract_events row; `from` is None on the first. *)
ContractEvent(event, from, to) == [event |-> event, from |-> from, to |-> to]

InsertContractEvent(k, e) == timeline' = [timeline EXCEPT ![k] = Append(@, e)]

-----------------------------------------------------------------------------
(* Formation *)

SumOf(amounts) == SumCents(DOMAIN amounts, amounts)

(* Mutant: the breakdown is not compared with the bid. *)
TermsUnchecked(by, kind, amounts, prop) ==
  /\ prop.client = by
  /\ prop.status \notin {"withdrawn", "declined"}
  /\ by # prop.freelancer

(* The terms a client may contract on, given what the lookup returned. *)
deriveContractTerms(by, kind, amounts, prop) ==
  /\ prop.client = by
  /\ prop.status \notin {"withdrawn", "declined"}
  /\ by # prop.freelancer
  /\ kind = "fixed" => amounts # <<>> /\ SumOf(amounts) = prop.bid

create(u, kind) == Identified(u) /\ kind \in {"fixed", "hourly"}

(* The client of the internal endpoint; an error or a timeout refuses. *)
LookupGet(b) == IF proposal[b] = None THEN None ELSE ProposalForContract(b)

(* The handler, the lookup and the check of its answer: nothing is locked. *)
LookupProposal(r, u, b, kind, amounts) ==
  /\ create(u, kind)
  /\ LookupGet(b) # None
  /\ deriveContractTerms(u, kind, amounts, LookupGet(b))
  /\ Begin(r, [op |-> "create", lock |-> None, prop |-> LookupGet(b),
               kind |-> kind, amounts |-> amounts])

InsertContract(prop, kind) ==
  [proposal |-> prop.row, client |-> prop.client, freelancer |-> prop.freelancer,
   kind |-> kind, price |-> prop.bid, status |-> "pending_funding", started |-> FALSE]

InsertMilestones(kind, amounts) ==
  IF kind = "hourly" THEN <<>>
  ELSE [i \in DOMAIN amounts |-> [amount |-> amounts[i], status |-> "pending"]]

CreateFromProposal(r, k) ==
  /\ work[r].op = "create"
  /\ contract[k] = None
  /\ \A i \in DOMAIN work[r].amounts : work[r].amounts[i] > 0   \* CHECK (amount_cents > 0)
  /\ contract' = [contract EXCEPT ![k] = InsertContract(work[r].prop, work[r].kind)]
  /\ milestones' = [milestones EXCEPT ![k] = InsertMilestones(work[r].kind, work[r].amounts)]
  /\ InsertContractEvent(k, ContractEvent("create", None, "pending_funding"))
  /\ Commit(r)
  /\ UNCHANGED <<market, deliverables, disputes, contractOutbox>>

(* Mutant: the row is read without its lock and then written. *)
TransitionWithoutWaiting(k, from, to) ==
  /\ contract[k].status = from
  /\ contract' = [contract EXCEPT ![k].status = to, ![k].started = TRUE]

(* UPDATE ... WHERE status = 'pending_funding', which waits for the row. *)
TransitionContract(k, from, to) ==
  /\ RowFree(k)
  /\ contract[k].status = from
  /\ contract' = [contract EXCEPT ![k].status = to, ![k].started = TRUE]

transitionCall(u) == Identified(u)

(* Any caller with an identity: who it is goes only to the timeline. *)
ActivateContract(k, u) ==
  /\ transitionCall(u)
  /\ contract[k] # None
  /\ TransitionContract(k, "pending_funding", "active")
  /\ InsertContractEvent(k, ContractEvent("activate", "pending_funding", "active"))
  /\ contractOutbox' = Enqueue(contractOutbox, k, [type |-> "contract.activated", seq |-> 0])
  /\ UNCHANGED <<market, work, milestones, deliverables, disputes>>

-----------------------------------------------------------------------------
(* Milestones *)

(* Mutant: without FOR UPDATE. *)
MilestoneInfoUnlocked(r, op, m, from) ==
  /\ m[2] \in DOMAIN milestones[m[1]]
  /\ milestones[m[1]][m[2]].status = from
  /\ Begin(r, [op |-> op, lock |-> m])

(* SELECT ... FOR UPDATE of the milestone row, and the check of its status. *)
milestoneInfo(r, op, m, from) ==
  /\ m[2] \in DOMAIN milestones[m[1]]
  /\ RowFree(m)
  /\ milestones[m[1]][m[2]].status = from
  /\ Begin(r, [op |-> op, lock |-> m])

UpdateMilestone(r, to) == milestones' = [milestones EXCEPT ![work[r].lock[1]][work[r].lock[2]].status = to]

(* The party is checked after the row is locked, and rolls back if wrong. *)
FundMilestone(r, u) ==
  /\ work[r].op = "fund"
  /\ transitionCall(u)
  /\ u = contract[work[r].lock[1]].client
  /\ UpdateMilestone(r, "funded")
  /\ Commit(r)
  /\ UNCHANGED <<market, contract, deliverables, timeline, disputes, contractOutbox>>

FreelancerOfContract(k) == contract[k].freelancer

InsertDeliverable(m) == [deliverables EXCEPT ![m] = @ + 1]

SubmitMilestone(r, u, withWork) ==
  /\ work[r].op = "submit"
  /\ transitionCall(u)
  /\ u = FreelancerOfContract(work[r].lock[1])
  /\ UpdateMilestone(r, "submitted")
  /\ deliverables' = IF withWork THEN InsertDeliverable(work[r].lock) ELSE deliverables
  /\ Commit(r)
  /\ UNCHANGED <<market, contract, timeline, disputes, contractOutbox>>

ApproveMilestone(r, u) ==
  LET m == work[r].lock IN
  /\ work[r].op = "approve"
  /\ transitionCall(u)
  /\ u = contract[m[1]].client
  /\ UpdateMilestone(r, "approved")
  /\ contractOutbox' = Enqueue(contractOutbox, m[1], [type |-> "milestone.approved", seq |-> m[2]])
  /\ Commit(r)
  /\ UNCHANGED <<market, contract, deliverables, timeline, disputes>>

-----------------------------------------------------------------------------
(* Disputes *)

raiseDispute(u, against) == Identified(u) /\ against # None

GetContractTx(k) == contract[k]
Parties(k) == {GetContractTx(k).client, GetContractTx(k).freelancer}

(* SELECT status ... FOR UPDATE, and the check of the caller. *)
CurrentStatus(r, k, u, against) ==
  /\ raiseDispute(u, against)
  /\ contract[k] # None
  /\ RowFree(k)
  /\ u \in Parties(k)
  /\ disputes[k] < MaxDisputes
  /\ Begin(r, [op |-> "dispute", lock |-> k, from |-> contract[k].status])

InsertDispute(k) == [disputes EXCEPT ![k] = @ + 1]

RaiseDispute(r) ==
  LET k == work[r].lock IN
  /\ work[r].op = "dispute"
  /\ disputes' = InsertDispute(k)
  /\ contract' = [contract EXCEPT ![k].status = "disputed"]
  /\ InsertContractEvent(k, ContractEvent("dispute", work[r].from, "disputed"))
  /\ contractOutbox' = Enqueue(contractOutbox, k, [type |-> "contract.disputed", seq |-> 0])
  /\ Commit(r)
  /\ UNCHANGED <<market, milestones, deliverables>>

-----------------------------------------------------------------------------
(* Reads *)

requireParty(k, u) == contract[k] # None /\ u \in Parties(k)

ListMilestones(k) == milestones[k]

GetContract(k, u) ==
  IF Identified(u) /\ requireParty(k, u)
  THEN [row |-> contract[k], milestones |-> ListMilestones(k)]
  ELSE None

ListContractEvents(k) == timeline[k]

(* What a party is shown of a contract's history; others are refused. *)
ContractEvents(k, u) ==
  IF Identified(u) /\ requireParty(k, u) THEN ListContractEvents(k) ELSE <<>>

ListForUser(u, role) ==
  {k \in Contracts : contract[k] # None
     /\ u = IF role = "freelancer" THEN contract[k].freelancer ELSE contract[k].client}

(* What escrow, time tracking and reviews are told about a contract. *)
ContractParties(k) ==
  [client |-> contract[k].client, freelancer |-> contract[k].freelancer, status |-> contract[k].status]

ContractsNext ==
  \/ \E r \in Requests, u \in Callers :
       \/ \E b \in Projects \X Users, kind \in {"fixed", "hourly", "other"}, amounts \in Breakdowns :
            LookupProposal(r, u, b, kind, amounts)
       \/ FundMilestone(r, u)
       \/ \E withWork \in BOOLEAN : SubmitMilestone(r, u, withWork)
       \/ ApproveMilestone(r, u)
       \/ \E k \in Contracts, against \in Callers : CurrentStatus(r, k, u, against)
  \/ \E r \in Requests, m \in MilestoneRows :
       \/ milestoneInfo(r, "fund", m, "pending")
       \/ milestoneInfo(r, "submit", m, "funded")
       \/ milestoneInfo(r, "approve", m, "submitted")
  \/ \E r \in Requests :
       \/ \E k \in Contracts : CreateFromProposal(r, k)
       \/ RaiseDispute(r)
       \/ Rollback(r)
  \/ \E k \in Contracts, u \in Callers : ActivateContract(k, u)

Next ==
  \/ MarketplaceNext /\ UNCHANGED <<tables, work>>
  \/ ContractsNext

Spec == Init /\ [][Next]_vars

-----------------------------------------------------------------------------
TypeOK ==
  /\ \A p \in Projects : project[p] # None =>
       project[p].client \in Clients /\ project[p].status \in ProjectStatuses
  /\ \A b \in Projects \X Users : proposal[b] # None =>
       proposal[b].status \in {"submitted", "shortlisted", "withdrawn", "declined"}
  /\ \A k \in Contracts : contract[k] # None =>
       contract[k].status \in {"pending_funding", "active", "disputed"}
  /\ \A k \in Contracts : \A i \in DOMAIN milestones[k] :
       milestones[k][i].status \in {"pending", "funded", "submitted", "approved"}

LastOf(s) == s[Len(s)]
Dated(event) == IF event = "project.published" THEN "published_at" ELSE "closed_at"

Announced == [submitted |-> "proposal.submitted", shortlisted |-> "proposal.shortlisted",
              withdrawn |-> "proposal.withdrawn"]

(* The lists agree with the events the services announce.  A project is
   listed publicly exactly when its last event is its publication, and what
   is shown of it has the date of every event it announced and no other.  A
   proposal is shown to the project's client under the status its last
   event announced, and to nobody else but its author.  Publishing and
   closing read the row before they write it, and a withdrawal may race
   with a shortlisting. *)
ListsFollowEvents ==
  /\ {j.id : j \in ListProjects("")} =
       {p \in Projects : projectOutbox[p] # <<>> /\ LastOf(projectOutbox[p]) = "project.published"}
  /\ \A s \in ProjectStatuses : \A j \in ListProjects(s) :
       j.dates = {Dated(projectOutbox[j.id][i]) : i \in DOMAIN projectOutbox[j.id]}
  /\ \A p \in Projects, u \in Callers, s \in {"submitted", "shortlisted", "withdrawn"} :
       ListProposalsForProject(p, s, u) =
         {b \in UNION {ListForFreelancer(f) : f \in Users} :
            b[1] = p /\ u = ProjectClientOf(p) /\ LastOf(proposalOutbox[b]) = Announced[s]}

(* The events about the contract itself among the first n. *)
Told(k, n) == {i \in 1..n : contractOutbox[k][i].type # "milestone.approved"}

(* The timeline a party reads explains the contract: every transition starts
   from the status the previous one left, the last one left the status that
   other services are told, and the outbox announced each of them, in the
   same order.  Activation and dispute race for the contract row. *)
TimelineExplainsStatus ==
  \A k \in Contracts : contract[k] # None =>
    \A u \in Parties(k) :
      LET t == ContractEvents(k, u)
          last == Len(contractOutbox[k]) IN
      /\ t # <<>> /\ t[1].from = None /\ LastOf(t).to = ContractParties(k).status
      /\ \A i \in 2..Len(t) : t[i].from = t[i - 1].to
      /\ Cardinality(Told(k, last)) = Len(t) - 1
      /\ \A n \in Told(k, last) :
           LET event == t[Cardinality(Told(k, n)) + 1].event IN
           contractOutbox[k][n].type = IF event = "activate" THEN "contract.activated" ELSE "contract.disputed"

(* Each contract on a client's list is also on the list of the freelancer
   whose proposal it was made from, and is worth what that freelancer bid on
   a project of that client, whatever the request asked for; its milestones
   add up to that price.  The proposal cannot have been replaced since,
   because a freelancer has one proposal per project for good. *)
ContractHonoursBid ==
  \A u \in Users : \A k \in ListForUser(u, "") :
    LET view == GetContract(k, u)  b == view.row.proposal  ms == view.milestones IN
    /\ k \in ListForUser(b[2], "freelancer") /\ b[2] # u
    /\ ProjectClientOf(b[1]) = u
    /\ view.row.price = GetProposal(b).row.bid
    /\ view.row.kind = "fixed" => view.row.price = SumCents(DOMAIN ms, [i \in DOMAIN ms |-> ms[i].amount])

(* An approval is announced once, after the freelancer submitted and the
   client funded the milestone, although approvals, submissions and retries
   of both overlap: escrow releases money on that event. *)
ApprovedOnce ==
  \A m \in MilestoneRows : m[2] \in DOMAIN milestones[m[1]] =>
    /\ CountOf(contractOutbox[m[1]], [type |-> "milestone.approved", seq |-> m[2]])
         = IF milestones[m[1]][m[2]].status = "approved" THEN 1 ELSE 0
    /\ deliverables[m] <= IF milestones[m[1]][m[2]].status \in {"submitted", "approved"} THEN 1 ELSE 0

(* A contract is made from a proposal that is still contractable when the
   contract row is inserted.  Refuted: it was read over HTTP before. *)
ContractedIsContractable ==
  [][\A k \in Contracts : contract[k] = None /\ contract'[k] # None =>
       proposal[contract'[k].proposal].status \notin {"withdrawn", "declined"}]_vars
=============================================================================
