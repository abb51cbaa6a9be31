---------------------------- MODULE Marketplace ----------------------------
(***************************************************************************)
(* The project service and the proposal service, which share one schema.   *)
(* A project is drafted, published and closed by its client; freelancers   *)
(* bid on it, withdraw, and are shortlisted.  Each operation is one        *)
(* transaction on one row that it locks or guards first, so each is one    *)
(* step.  The owner of a project, read before some of them, never changes. *)
(***************************************************************************)
EXTENDS Integers, Sequences, FiniteSets

CONSTANTS
  Projects, Clients, Freelancers,
  Budgets,      \* budgets a client asks for
  Bids,         \* bid_amount_cents of a request
  Plans,        \* milestone breakdowns a freelancer proposes
  MaxFiles,     \* bound on the attachments of a project
  MaxProposals, \* bound on the proposals on a project
  None          \* SQL NULL, an absent row, nobody

MarketplaceConstants ==
  /\ Clients \cap Freelancers = {}
  /\ Bids \subseteq Int /\ MaxFiles \in Nat /\ MaxProposals \in Nat
  /\ None \notin Clients \cup Freelancers \cup Projects

VARIABLES
  project,        \* projects, None without a row
  projectOutbox,  \* events of each project, in commit order
  proposal,       \* proposals by <<project, freelancer>>
  proposalOutbox  \* events of each proposal, in commit order

market == <<project, projectOutbox, proposal, proposalOutbox>>

Users == Clients \cup Freelancers
ProjectStatuses == {"draft", "published", "in_progress", "closed", "archived", "flagged"}
AccountType(u) == IF u \in Clients THEN "client" ELSE "freelancer"

(* The gateway's identity headers; without them the caller is nobody. *)
Callers == Users \cup {None}
Identified(u) == u # None

InitMarketplace ==
  /\ project = [p \in Projects |-> None]
  /\ projectOutbox = [p \in Projects |-> <<>>]
  /\ proposal = [b \in Projects \X Users |-> None]
  /\ proposalOutbox = [b \in Projects \X Users |-> <<>>]

Enqueue(outbox, id, type) == [outbox EXCEPT ![id] = Append(@, type)]

-----------------------------------------------------------------------------
(* Project service *)

createProject(u) == Identified(u) /\ AccountType(u) = "client"

validateBudget(b) ==
  /\ b.type \in {"fixed", "hourly"}
  /\ b.min # None /\ b.min > 0
  /\ b.max # None => b.max >= b.min
  /\ b.type = "hourly" => b.weekly # None /\ b.weekly > 0

DraftRow(u, b) ==
  [client |-> u, budget |-> b.type, status |-> "draft", published_at |-> FALSE,
   closed_at |-> FALSE, files |-> 0]

CreateProject(p, u, b) ==
  /\ project[p] = None
  /\ createProject(u)
  /\ validateBudget(b)
  /\ project' = [project EXCEPT ![p] = DraftRow(u, b)]
  /\ UNCHANGED <<projectOutbox, proposal, proposalOutbox>>

GetProject(p) == project[p]

(* The row is locked until the transaction ends, so the check and the write
   of a transition are one step. *)
GetProjectForUpdate(p, u) == project[p] # None /\ project[p].client = u

transitionRequest(u) == Identified(u)

SetStatusPublished(p) == [project EXCEPT ![p].status = "published", ![p].published_at = TRUE]
(* Mutant: closed_at is forgotten. *)
SetStatusClosedUndated(p) == [project EXCEPT ![p].status = "closed"]

SetStatusClosed(p) == [project EXCEPT ![p].status = "closed", ![p].closed_at = TRUE]

PublishProject(p, u) ==
  /\ transitionRequest(u)
  /\ GetProjectForUpdate(p, u)
  /\ project[p].status = "draft"
  /\ project' = SetStatusPublished(p)
  /\ projectOutbox' = Enqueue(projectOutbox, p, "project.published")
  /\ UNCHANGED <<proposal, proposalOutbox>>

CloseProject(p, u) ==
  /\ transitionRequest(u)
  /\ GetProjectForUpdate(p, u)
  /\ project[p].status \notin {"closed", "archived"}
  /\ project' = SetStatusClosed(p)
  /\ projectOutbox' = Enqueue(projectOutbox, p, "project.closed")
  /\ UNCHANGED <<proposal, proposalOutbox>>

addAttachment(u, key) == Identified(u) /\ key # ""

InsertAttachment(p) == [project EXCEPT ![p].files = @ + 1]

AddAttachment(p, u, key) ==
  /\ addAttachment(u, key)
  /\ GetProject(p) # None
  /\ GetProject(p).client = u
  /\ project[p].files < MaxFiles
  /\ project' = InsertAttachment(p)
  /\ UNCHANGED <<projectOutbox, proposal, proposalOutbox>>

projectJSON(p) ==
  LET r == GetProject(p) IN
  [id |-> p, status |-> r.status,
   dates |-> (IF r.published_at THEN {"published_at"} ELSE {})
             \cup (IF r.closed_at THEN {"closed_at"} ELSE {})]

(* The public list: published projects unless another status is asked for. *)
ListProjects(status) ==
  {projectJSON(p) : p \in {q \in Projects : project[q] # None
     /\ project[q].status = IF status = "" THEN "published" ELSE status}}

-----------------------------------------------------------------------------
(* Proposal service *)

submit(u, p) == Identified(u) /\ p \in Projects

isUniqueViolation(p, u) == proposal[<<p, u>>] # None   \* UNIQUE (project_id, freelancer_id)

InsertProposal(bid, plan) == [bid |-> bid, milestones |-> plan, status |-> "submitted"]

SubmitProposal(p, u, bid, plan) ==
  /\ submit(u, p)
  /\ bid > 0
  /\ project[p] # None          \* foreign key
  /\ ~isUniqueViolation(p, u)
  /\ Cardinality({w \in Users : proposal[<<p, w>>] # None}) < MaxProposals
  /\ proposal' = [proposal EXCEPT ![<<p, u>>] = InsertProposal(bid, plan)]
  /\ proposalOutbox' = Enqueue(proposalOutbox, <<p, u>>, "proposal.submitted")
  /\ UNCHANGED <<project, projectOutbox>>

(* One guarded UPDATE, which reports whether it found its row. *)
MoveProposal(b, from, to) ==
  /\ proposal[b] # None
  /\ proposal[b].status \in from
  /\ proposal' = [proposal EXCEPT ![b].status = to]
  /\ UNCHANGED <<project, projectOutbox>>

decisionRequest(u) == Identified(u)

WithdrawProposal(b, u) ==
  /\ decisionRequest(u)
  /\ b[2] = u
  /\ MoveProposal(b, {"submitted", "shortlisted"}, "withdrawn")
  /\ proposalOutbox' = Enqueue(proposalOutbox, b, "proposal.withdrawn")

ProjectClientOfProposal(b) == project[b[1]].client

ShortlistProposal(b, u) ==
  /\ decisionRequest(u)
  /\ proposal[b] # None
  /\ ProjectClientOfProposal(b) = u
  /\ MoveProposal(b, {"submitted"}, "shortlisted")
  /\ proposalOutbox' = Enqueue(proposalOutbox, b, "proposal.shortlisted")

ProjectClientOf(p) == IF project[p] = None THEN None ELSE project[p].client

ListForProject(p, status) ==
  {b \in {p} \X Users : proposal[b] # None /\ status \in {"", proposal[b].status}}

(* Only the owner of a project is shown the bids on it. *)
ListProposalsForProject(p, status, u) ==
  IF Identified(u) /\ ProjectClientOf(p) = u THEN ListForProject(p, status) ELSE {}

ListForFreelancer(u) == {b \in Projects \X {u} : proposal[b] # None}

(* A proposal with its milestones. *)
GetProposal(b) == [id |-> b, row |-> proposal[b], milestones |-> proposal[b].milestones]

(* What the contract service is told about a proposal. *)
ProposalForContract(b) ==
  [row |-> b, client |-> ProjectClientOfProposal(b), freelancer |-> b[2],
   status |-> GetProposal(b).row.status, bid |-> GetProposal(b).row.bid]

MarketplaceNext ==
  \/ \E p \in Projects, u \in Callers :
       \/ \E b \in Budgets : CreateProject(p, u, b)
       \/ PublishProject(p, u)
       \/ CloseProject(p, u)
       \/ \E key \in {"", "key"} : AddAttachment(p, u, key)
       \/ \E bid \in Bids, plan \in Plans : SubmitProposal(p, u, bid, plan)
  \/ \E b \in Projects \X Users, u \in Callers : WithdrawProposal(b, u) \/ ShortlistProposal(b, u)
=============================================================================
