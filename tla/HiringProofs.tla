---------------------------- MODULE HiringProofs -----------------------------
(***************************************************************************)
(* Hiring and the conversations of the parties, for every value of their   *)
(* constants: projects, proposals and contracts; messages; the websocket   *)
(* hub that delivers them.  The `Part' lemma of a section takes what is    *)
(* proved of its service to the specification of all services.  What a     *)
(* theorem needs of the constants is its hypothesis.                       *)
(***************************************************************************)
EXTENDS Services, CentsProofs

-----------------------------------------------------------------------------
(* Projects, proposals and contracts *)

Offers == Projects \X Hiring!Users
ProjectRecs ==
  [client : Clients, budget : {"fixed", "hourly"}, status : {"draft", "published", "closed"},
   published_at : BOOLEAN, closed_at : BOOLEAN, files : Nat]
ProposalRecs == [bid : Int, milestones : Plans, status : {"submitted", "shortlisted", "withdrawn"}]
ProjectEvents == {"project.published", "project.closed"}
ProposalEvents == {"proposal.submitted", "proposal.shortlisted", "proposal.withdrawn"}

ContractStates == {"pending_funding", "active", "disputed"}
ContractRecs ==
  [proposal : Offers, client : Hiring!Users, freelancer : Hiring!Users, kind : {"fixed", "hourly"}, price : Int,
   status : ContractStates, started : BOOLEAN]
MilestoneRecs == [amount : Nat, status : {"pending", "funded", "submitted", "approved"}]
TimelineRecs == [event : {"create", "activate", "dispute"}, from : ContractStates \cup {None}, to : ContractStates]
ContractNews == [type : {"contract.activated", "contract.disputed", "milestone.approved"}, seq : Nat]
LookupRecs ==
  [row : Offers, client : Hiring!Users, freelancer : Hiring!Users,
   status : {"submitted", "shortlisted", "withdrawn"}, bid : Int]
Creating == [op : {"create"}, lock : {None}, prop : LookupRecs, kind : {"fixed", "hourly"}, amounts : Breakdowns]
Moving == [op : {"fund", "submit", "approve"}, lock : Hiring!MilestoneRows]
Disputing == [op : {"dispute"}, lock : Contracts, from : ContractStates]
WorkRecs == {Hiring!Idle} \cup Creating \cup Moving \cup Disputing

(* NULL is no row. *)
HiringConstants ==
  /\ Hiring!ContractsConstants
  /\ None \notin ProjectRecs /\ None \notin ProposalRecs /\ None \notin ContractRecs /\ None \notin ContractStates
  /\ None \notin Hiring!MilestoneRows

MarketTypes ==
  /\ project \in [Projects -> ProjectRecs \cup {None}]
  /\ projectOutbox \in [Projects -> Seq(ProjectEvents)]
  /\ proposal \in [Offers -> ProposalRecs \cup {None}]
  /\ proposalOutbox \in [Offers -> Seq(ProposalEvents)]

(* The events of a project tell its status and its dates. *)
ProjectStory(row, log) ==
  IF row = None THEN log = <<>>
  ELSE /\ row.status = "draft" => ~row.published_at /\ ~row.closed_at /\ log = <<>>
       /\ row.status = "published" => /\ row.published_at /\ ~row.closed_at
                                      /\ Len(log) = 1 /\ log[1] = "project.published"
       /\ row.status = "closed" => /\ row.closed_at
                                   /\ IF row.published_at
                                      THEN Len(log) = 2 /\ log[1] = "project.published" /\ log[2] = "project.closed"
                                      ELSE Len(log) = 1 /\ log[1] = "project.closed"

(* The last event of a proposal tells its status. *)
ProposalStory(row, log) == row # None => Len(log) > 0 /\ log[Len(log)] = Hiring!Announced[row.status]

MarketInv ==
  /\ MarketTypes
  /\ \A p \in Projects : ProjectStory(project[p], projectOutbox[p])
  /\ \A b \in Offers : ProposalStory(proposal[b], proposalOutbox[b])
  /\ \A b \in Offers : proposal[b] # None => project[b[1]] # None

(* Proposal b is a bid on a project of client u. *)
HasBid(b, u, bid) ==
  /\ b \in Offers /\ proposal[b] # None /\ proposal[b].bid = bid
  /\ project[b[1]] # None /\ project[b[1]].client = u

(* A project keeps its client, and a proposal its bid. *)
MarketGrows ==
  /\ \A p \in Projects : project[p] # None => project'[p] # None /\ project'[p].client = project[p].client
  /\ \A b \in Offers : proposal[b] # None => proposal'[b] # None /\ proposal'[b].bid = proposal[b].bid

(* So a bid stays what it was. *)
LEMMA BidKept ==
  ASSUME MarketGrows, NEW b, NEW u, NEW bid, HasBid(b, u, bid)
  PROVE  HasBid(b, u, bid)'
<1>1. b[1] \in Projects BY DEF HasBid, Offers
<1>2. Offers' = Offers BY DEF Offers, Hiring!Users
<1> QED BY <1>1, <1>2 DEF HasBid, MarketGrows

(* A step on project p. *)
LEMMA ProjectStep ==
  ASSUME HiringConstants, MarketInv, NEW p \in Projects, NEW row \in ProjectRecs, NEW log \in Seq(ProjectEvents),
         project' = [project EXCEPT ![p] = row], projectOutbox' = [projectOutbox EXCEPT ![p] = log],
         UNCHANGED <<proposal, proposalOutbox>>,
         ProjectStory(row, log), project[p] # None => row.client = project[p].client
  PROVE  MarketInv' /\ MarketGrows
<1>0. Offers' = Offers /\ \A b \in Offers : b[1] \in Projects BY DEF Offers, Hiring!Users
<1>1. row # None BY DEF HiringConstants
<1>2. /\ project' \in [Projects -> ProjectRecs \cup {None}] /\ project'[p] = row
      /\ \A q \in Projects \ {p} : project'[q] = project[q]
  BY DEF MarketInv, MarketTypes
<1>3. /\ projectOutbox' \in [Projects -> Seq(ProjectEvents)] /\ projectOutbox'[p] = log
      /\ \A q \in Projects \ {p} : projectOutbox'[q] = projectOutbox[q]
  BY DEF MarketInv, MarketTypes
<1>4. MarketTypes' BY <1>2, <1>3, <1>0 DEF MarketInv, MarketTypes, ProjectRecs, ProposalRecs, ProjectEvents, ProposalEvents
<1>5. \A q \in Projects : ProjectStory(project'[q], projectOutbox'[q]) BY <1>2, <1>3 DEF MarketInv
<1>6. MarketGrows BY <1>1, <1>2 DEF MarketGrows
<1>7. \A b \in Offers : proposal'[b] # None => project'[b[1]] # None BY <1>0, <1>1, <1>2 DEF MarketInv
<1>8. \A b \in Offers : ProposalStory(proposal'[b], proposalOutbox'[b]) BY DEF MarketInv
<1> QED BY <1>0, <1>4, <1>5, <1>6, <1>7, <1>8 DEF MarketInv, ProjectStory, ProposalStory, Hiring!Announced

(* A step on proposal b. *)
LEMMA ProposalStep ==
  ASSUME HiringConstants, MarketInv, NEW b \in Offers, NEW row \in ProposalRecs, NEW log \in Seq(ProposalEvents),
         proposal' = [proposal EXCEPT ![b] = row], proposalOutbox' = [proposalOutbox EXCEPT ![b] = log],
         UNCHANGED <<project, projectOutbox>>,
         ProposalStory(row, log), project[b[1]] # None, proposal[b] # None => row.bid = proposal[b].bid
  PROVE  MarketInv' /\ MarketGrows
<1>0. Offers' = Offers BY DEF Offers, Hiring!Users
<1>1. row # None BY DEF HiringConstants
<1>2. /\ proposal' \in [Offers -> ProposalRecs \cup {None}] /\ proposal'[b] = row
      /\ \A q \in Offers \ {b} : proposal'[q] = proposal[q]
  BY DEF MarketInv, MarketTypes
<1>3. /\ proposalOutbox' \in [Offers -> Seq(ProposalEvents)] /\ proposalOutbox'[b] = log
      /\ \A q \in Offers \ {b} : proposalOutbox'[q] = proposalOutbox[q]
  BY DEF MarketInv, MarketTypes
<1>4. MarketTypes' BY <1>2, <1>3, <1>0 DEF MarketInv, MarketTypes, ProjectRecs, ProposalRecs, ProjectEvents, ProposalEvents
<1>5. \A q \in Offers : ProposalStory(proposal'[q], proposalOutbox'[q]) BY <1>2, <1>3 DEF MarketInv
<1>6. MarketGrows BY <1>1, <1>2 DEF MarketGrows
<1>7. \A q \in Offers : proposal'[q] # None => project'[q[1]] # None BY <1>2 DEF MarketInv
<1>8. \A q \in Projects : ProjectStory(project'[q], projectOutbox'[q]) BY DEF MarketInv
<1> QED BY <1>0, <1>4, <1>5, <1>6, <1>7, <1>8 DEF MarketInv, ProjectStory, ProposalStory, Hiring!Announced

(* One entry more at the end of a log. *)
LEMMA LogAppend ==
  ASSUME NEW S, NEW log \in Seq(S), NEW x \in S
  PROVE  /\ Append(log, x) \in Seq(S) /\ Len(Append(log, x)) = Len(log) + 1 /\ Len(log) \in Nat
         /\ Append(log, x)[Len(log) + 1] = x /\ \A i \in 1 .. Len(log) : Append(log, x)[i] = log[i]
OBVIOUS

(* Every operation of the project and the proposal service. *)
LEMMA CreateProjectStep ==
  ASSUME HiringConstants, MarketInv, NEW p \in Projects, NEW u, NEW b, u \in Hiring!Callers, Hiring!CreateProject(p, u, b)
  PROVE  MarketInv' /\ MarketGrows
<1>1. PICK row : row = Hiring!DraftRow(u, b) OBVIOUS
<1>2. project[p] = None /\ Hiring!createProject(u) /\ Hiring!validateBudget(b) /\ project' = [project EXCEPT ![p] = row]
      /\ UNCHANGED <<projectOutbox, proposal, proposalOutbox>>
  BY <1>1 DEF Hiring!CreateProject
<1>3. u \in Clients
  <2>1. Hiring!AccountType(u) = "client" BY <1>2 DEF Hiring!createProject
  <2> QED BY <2>1 DEF Hiring!AccountType
<1>4. row \in ProjectRecs /\ row.status = "draft" /\ row.published_at = FALSE /\ row.closed_at = FALSE
  BY <1>1, <1>2, <1>3 DEF Hiring!DraftRow, ProjectRecs, Hiring!validateBudget
<1>5. PICK log \in Seq(ProjectEvents) : log = projectOutbox[p] BY DEF MarketInv, MarketTypes
<1>6. projectOutbox' = [projectOutbox EXCEPT ![p] = log] BY <1>2, <1>5 DEF MarketInv, MarketTypes
<1>7. ProjectStory(project[p], log) BY <1>5 DEF MarketInv
<1>8. log = <<>> BY <1>2, <1>7 DEF ProjectStory
<1>9. row # None BY <1>4 DEF HiringConstants
<1>10. ProjectStory(row, log) BY <1>4, <1>8, <1>9 DEF ProjectStory
<1> QED BY <1>2, <1>4, <1>6, <1>10, ProjectStep

(* Publication. *)
LEMMA PublishProjectStep ==
  ASSUME HiringConstants, MarketInv, NEW p \in Projects, NEW u, Hiring!PublishProject(p, u)
  PROVE  MarketInv' /\ MarketGrows
<1>1. PICK row, log : row = project[p] /\ log = projectOutbox[p] OBVIOUS
<1>2. row # None /\ row.status = "draft" BY <1>1 DEF Hiring!PublishProject, Hiring!GetProjectForUpdate
<1>3. row \in ProjectRecs /\ log \in Seq(ProjectEvents) /\ ProjectStory(row, log) BY <1>1, <1>2 DEF MarketInv, MarketTypes
<1>4. PICK new, out : new = [[row EXCEPT !.status = "published"] EXCEPT !.published_at = TRUE] /\ out = Append(log, "project.published")
  OBVIOUS
<1>5. project' = [project EXCEPT ![p] = new]
  <2>1. project \in [Projects -> ProjectRecs \cup {None}] BY DEF MarketInv, MarketTypes
  <2>2. project' = [project EXCEPT ![p].status = "published", ![p].published_at = TRUE]
    BY DEF Hiring!PublishProject, Hiring!SetStatusPublished
  <2> QED BY <1>1, <1>3, <1>4, <2>1, <2>2 DEF ProjectRecs
<1>6. projectOutbox' = [projectOutbox EXCEPT ![p] = out] /\ UNCHANGED <<proposal, proposalOutbox>>
  BY <1>1, <1>4 DEF Hiring!PublishProject, Hiring!Enqueue
<1>7. /\ new \in ProjectRecs /\ new.status = "published" /\ new.published_at = TRUE /\ new.closed_at = row.closed_at
      /\ new.client = row.client
  BY <1>3, <1>4 DEF ProjectRecs
<1>8. "project.published" \in ProjectEvents BY DEF ProjectEvents
<1>9. out \in Seq(ProjectEvents) /\ Len(out) = Len(log) + 1 /\ out[Len(log) + 1] = "project.published" BY <1>3, <1>4, <1>8, LogAppend
<1>10. log = <<>> /\ row.closed_at = FALSE
  <2>1. row.closed_at \in BOOLEAN BY <1>3 DEF ProjectRecs
  <2> QED BY <1>2, <1>3, <2>1 DEF ProjectStory
<1>11. Len(log) = 0 BY <1>10
<1>12. ProjectStory(new, out) BY <1>7, <1>9, <1>10, <1>11 DEF ProjectStory, HiringConstants
<1> QED BY <1>1, <1>5, <1>6, <1>7, <1>9, <1>12, ProjectStep

(* Closing, of a draft or of a published project. *)
LEMMA CloseProjectStep ==
  ASSUME HiringConstants, MarketInv, NEW p \in Projects, NEW u, Hiring!CloseProject(p, u)
  PROVE  MarketInv' /\ MarketGrows
<1>1. PICK row, log : row = project[p] /\ log = projectOutbox[p] OBVIOUS
<1>2. row # None /\ row.status # "closed" BY <1>1 DEF Hiring!CloseProject, Hiring!GetProjectForUpdate
<1>3. row \in ProjectRecs /\ log \in Seq(ProjectEvents) /\ ProjectStory(row, log) BY <1>1, <1>2 DEF MarketInv, MarketTypes
<1>4. PICK new, out : new = [[row EXCEPT !.status = "closed"] EXCEPT !.closed_at = TRUE] /\ out = Append(log, "project.closed")
  OBVIOUS
<1>5. project' = [project EXCEPT ![p] = new]
  <2>1. project \in [Projects -> ProjectRecs \cup {None}] BY DEF MarketInv, MarketTypes
  <2>2. project' = [project EXCEPT ![p].status = "closed", ![p].closed_at = TRUE]
    BY DEF Hiring!CloseProject, Hiring!SetStatusClosed
  <2> QED BY <1>1, <1>3, <1>4, <2>1, <2>2 DEF ProjectRecs
<1>6. projectOutbox' = [projectOutbox EXCEPT ![p] = out] /\ UNCHANGED <<proposal, proposalOutbox>>
  BY <1>1, <1>4 DEF Hiring!CloseProject, Hiring!Enqueue
<1>7. /\ new \in ProjectRecs /\ new.status = "closed" /\ new.closed_at = TRUE /\ new.published_at = row.published_at
      /\ new.client = row.client
  BY <1>3, <1>4 DEF ProjectRecs
<1>8. "project.closed" \in ProjectEvents BY DEF ProjectEvents
<1>9. /\ out \in Seq(ProjectEvents) /\ Len(out) = Len(log) + 1 /\ out[Len(log) + 1] = "project.closed"
      /\ \A i \in 1 .. Len(log) : out[i] = log[i]
  BY <1>3, <1>4, <1>8, LogAppend
<1>10. row.status = "draft" \/ row.status = "published" BY <1>2, <1>3 DEF ProjectRecs
<1>11. CASE row.status = "draft"
  <2>1. log = <<>> /\ ~row.published_at BY <1>2, <1>3, <1>11 DEF ProjectStory
  <2>2. Len(log) = 0 BY <2>1
  <2>3. ProjectStory(new, out) BY <1>7, <1>9, <2>1, <2>2 DEF ProjectStory, HiringConstants
  <2> QED BY <1>1, <1>5, <1>6, <1>7, <1>9, <2>3, ProjectStep
<1>12. CASE row.status = "published"
  <2>1. Len(log) = 1 /\ log[1] = "project.published" /\ row.published_at BY <1>2, <1>3, <1>12 DEF ProjectStory
  <2>2. Len(out) = 2 /\ out[1] = "project.published" /\ out[2] = "project.closed" BY <1>9, <2>1
  <2>3. ProjectStory(new, out) BY <1>7, <2>1, <2>2 DEF ProjectStory, HiringConstants
  <2> QED BY <1>1, <1>5, <1>6, <1>7, <1>9, <2>3, ProjectStep
<1> QED BY <1>10, <1>11, <1>12

(* An attachment changes neither status nor events. *)
LEMMA AddAttachmentStep ==
  ASSUME HiringConstants, MarketInv, NEW p \in Projects, NEW u, NEW key, Hiring!AddAttachment(p, u, key)
  PROVE  MarketInv' /\ MarketGrows
<1>1. PICK row, log : row = project[p] /\ log = projectOutbox[p] OBVIOUS
<1>2. row # None BY <1>1 DEF Hiring!AddAttachment, Hiring!GetProject
<1>3. row \in ProjectRecs /\ log \in Seq(ProjectEvents) /\ ProjectStory(row, log) BY <1>1, <1>2 DEF MarketInv, MarketTypes
<1>4. PICK new : new = [row EXCEPT !.files = row.files + 1] OBVIOUS
<1>5. project' = [project EXCEPT ![p] = new] /\ projectOutbox' = [projectOutbox EXCEPT ![p] = log]
      /\ UNCHANGED <<proposal, proposalOutbox>>
  BY <1>1, <1>4 DEF Hiring!AddAttachment, Hiring!InsertAttachment, MarketInv, MarketTypes
<1>6. /\ new \in ProjectRecs /\ new.status = row.status /\ new.closed_at = row.closed_at /\ new.published_at = row.published_at
      /\ new.client = row.client
  BY <1>3, <1>4 DEF ProjectRecs
<1>7. ProjectStory(new, log) BY <1>2, <1>3, <1>6 DEF ProjectStory, HiringConstants
<1> QED BY <1>1, <1>3, <1>5, <1>6, <1>7, ProjectStep

(* A freelancer bids, once per project. *)
LEMMA SubmitProposalStep ==
  ASSUME HiringConstants, MarketInv, NEW p \in Projects, NEW u \in Hiring!Callers, NEW bid \in Bids, NEW plan \in Plans,
         Hiring!SubmitProposal(p, u, bid, plan)
  PROVE  MarketInv' /\ MarketGrows
<1>1. u \in Hiring!Users BY DEF Hiring!SubmitProposal, Hiring!submit, Hiring!Identified, Hiring!Callers
<1>2. PICK b : b = <<p, u>> OBVIOUS
<1>3. b \in Offers /\ b[1] = p BY <1>1, <1>2 DEF Offers
<1>4. PICK row, log : row = Hiring!InsertProposal(bid, plan) /\ log = Append(proposalOutbox[b], "proposal.submitted") OBVIOUS
<1>5. /\ project[p] # None /\ proposal[b] = None
      /\ proposal' = [proposal EXCEPT ![b] = row] /\ proposalOutbox' = [proposalOutbox EXCEPT ![b] = log]
      /\ UNCHANGED <<project, projectOutbox>>
  BY <1>2, <1>4 DEF Hiring!SubmitProposal, Hiring!isUniqueViolation, Hiring!Enqueue
<1>6. bid \in Int BY DEF HiringConstants, Hiring!ContractsConstants, Hiring!MarketplaceConstants
<1>7. row \in ProposalRecs /\ row.status = "submitted" BY <1>4, <1>6 DEF Hiring!InsertProposal, ProposalRecs
<1>8. "proposal.submitted" \in ProposalEvents BY DEF ProposalEvents
<1>9. proposalOutbox[b] \in Seq(ProposalEvents) BY <1>3 DEF MarketInv, MarketTypes
<1>10. log \in Seq(ProposalEvents) /\ Len(log) > 0 /\ log[Len(log)] = "proposal.submitted" BY <1>4, <1>8, <1>9, LogAppend
<1>11. ProposalStory(row, log) BY <1>7, <1>10 DEF ProposalStory, Hiring!Announced
<1> QED BY <1>3, <1>5, <1>7, <1>10, <1>11, ProposalStep

(* A withdrawal or a shortlisting. *)
LEMMA MoveProposalStep ==
  ASSUME HiringConstants, MarketInv, NEW b \in Offers, NEW from, NEW to \in {"shortlisted", "withdrawn"}, NEW e,
         e = Hiring!Announced[to], Hiring!MoveProposal(b, from, to), proposalOutbox' = Hiring!Enqueue(proposalOutbox, b, e)
  PROVE  MarketInv' /\ MarketGrows
<1>1. PICK row, old, log : row = [proposal[b] EXCEPT !.status = to] /\ old = proposalOutbox[b] /\ log = Append(old, e) OBVIOUS
<1>2. /\ proposal[b] # None /\ proposal' = [proposal EXCEPT ![b] = row] /\ proposalOutbox' = [proposalOutbox EXCEPT ![b] = log]
      /\ UNCHANGED <<project, projectOutbox>>
  BY <1>1 DEF Hiring!MoveProposal, Hiring!Enqueue
<1>3. proposal[b] \in ProposalRecs BY <1>2 DEF MarketInv, MarketTypes
<1>4. row \in ProposalRecs /\ row.status = to /\ row.bid = proposal[b].bid BY <1>1, <1>3 DEF ProposalRecs
<1>5. e \in ProposalEvents BY DEF Hiring!Announced, ProposalEvents
<1>6. old \in Seq(ProposalEvents) BY <1>1 DEF MarketInv, MarketTypes
<1>7. log \in Seq(ProposalEvents) /\ Len(log) > 0 /\ log[Len(log)] = e BY <1>1, <1>5, <1>6, LogAppend
<1>8. ProposalStory(row, log) BY <1>4, <1>7 DEF ProposalStory
<1>9. project[b[1]] # None BY <1>2 DEF MarketInv
<1> QED BY <1>2, <1>4, <1>7, <1>8, <1>9, ProposalStep

(* So every step of the two services keeps the invariant, clients and bids. *)
LEMMA MarketStep ==
  ASSUME HiringConstants, MarketInv, Hiring!MarketplaceNext
  PROVE  MarketInv' /\ MarketGrows
<1>1. ASSUME NEW b \in Offers, NEW u, Hiring!WithdrawProposal(b, u) PROVE MarketInv' /\ MarketGrows
  <2>1. /\ Hiring!MoveProposal(b, {"submitted", "shortlisted"}, "withdrawn")
        /\ proposalOutbox' = Hiring!Enqueue(proposalOutbox, b, "proposal.withdrawn")
    BY <1>1 DEF Hiring!WithdrawProposal
  <2>2. Hiring!Announced["withdrawn"] = "proposal.withdrawn" BY DEF Hiring!Announced
  <2> QED BY <2>1, <2>2, MoveProposalStep
<1>2. ASSUME NEW b \in Offers, NEW u, Hiring!ShortlistProposal(b, u) PROVE MarketInv' /\ MarketGrows
  <2>1. /\ Hiring!MoveProposal(b, {"submitted"}, "shortlisted")
        /\ proposalOutbox' = Hiring!Enqueue(proposalOutbox, b, "proposal.shortlisted")
    BY <1>2 DEF Hiring!ShortlistProposal
  <2>2. Hiring!Announced["shortlisted"] = "proposal.shortlisted" BY DEF Hiring!Announced
  <2> QED BY <2>1, <2>2, MoveProposalStep
<1>3. ASSUME NEW p \in Projects, NEW u \in Hiring!Callers,
             \/ \E b \in Budgets : Hiring!CreateProject(p, u, b)
             \/ Hiring!PublishProject(p, u) \/ Hiring!CloseProject(p, u)
             \/ \E key \in {"", "key"} : Hiring!AddAttachment(p, u, key)
             \/ \E bid \in Bids, plan \in Plans : Hiring!SubmitProposal(p, u, bid, plan)
      PROVE  MarketInv' /\ MarketGrows
  BY <1>3, CreateProjectStep, PublishProjectStep, CloseProjectStep, AddAttachmentStep, SubmitProposalStep
<1> QED BY <1>1, <1>2, <1>3 DEF Hiring!MarketplaceNext, Offers

(* What is listed of a project. *)
LEMMA ProjectShown ==
  ASSUME HiringConstants, MarketInv, NEW p \in Projects, project[p] # None
  PROVE  /\ Hiring!projectJSON(p).id = p
         /\ Hiring!projectJSON(p).dates = {Hiring!Dated(projectOutbox[p][i]) : i \in DOMAIN projectOutbox[p]}
<1>1. PICK row, log : row = project[p] /\ log = projectOutbox[p] OBVIOUS
<1>2. row \in ProjectRecs /\ log \in Seq(ProjectEvents) /\ ProjectStory(row, log) BY <1>1 DEF MarketInv, MarketTypes
<1>3. row.status \in {"draft", "published", "closed"} BY <1>2 DEF ProjectRecs
<1>4. PICK dates : dates = (IF row.published_at THEN {"published_at"} ELSE {}) \cup (IF row.closed_at THEN {"closed_at"} ELSE {}) OBVIOUS
<1>5. Hiring!projectJSON(p).id = p /\ Hiring!projectJSON(p).dates = dates
  BY <1>1, <1>4 DEF Hiring!projectJSON, Hiring!GetProject
<1>6. PICK told : told = {Hiring!Dated(log[i]) : i \in DOMAIN log} OBVIOUS
<1>7. DOMAIN log = 1 .. Len(log) BY <1>2
<1>8. Hiring!Dated("project.published") = "published_at" /\ Hiring!Dated("project.closed") = "closed_at" BY DEF Hiring!Dated
<1>9. CASE row.status = "draft"
  <2>1. log = <<>> /\ ~row.published_at /\ ~row.closed_at BY <1>1, <1>2, <1>9 DEF ProjectStory
  <2>2. told = {} BY <1>6, <2>1
  <2> QED BY <1>1, <1>4, <1>5, <1>6, <2>1, <2>2
<1>10. CASE row.status = "published"
  <2>1. Len(log) = 1 /\ log[1] = "project.published" /\ row.published_at /\ ~row.closed_at BY <1>1, <1>2, <1>10 DEF ProjectStory
  <2>2. DOMAIN log = {1} BY <1>7, <2>1
  <2>3. told = {"published_at"} BY <1>6, <1>8, <2>1, <2>2
  <2> QED BY <1>1, <1>4, <1>5, <1>6, <2>1, <2>3
<1>11. CASE row.status = "closed" /\ row.published_at
  <2>1. Len(log) = 2 /\ log[1] = "project.published" /\ log[2] = "project.closed" /\ row.closed_at BY <1>1, <1>2, <1>11 DEF ProjectStory
  <2>2. DOMAIN log = {1, 2} BY <1>7, <2>1
  <2>3. told = {"published_at", "closed_at"} BY <1>6, <1>8, <2>1, <2>2
  <2> QED BY <1>1, <1>4, <1>5, <1>6, <1>11, <2>1, <2>3
<1>12. CASE row.status = "closed" /\ ~row.published_at
  <2>1. Len(log) = 1 /\ log[1] = "project.closed" /\ row.closed_at BY <1>1, <1>2, <1>12 DEF ProjectStory
  <2>2. DOMAIN log = {1} BY <1>7, <2>1
  <2>3. told = {"closed_at"} BY <1>6, <1>8, <2>1, <2>2
  <2> QED BY <1>1, <1>4, <1>5, <1>6, <1>12, <2>1, <2>3
<1> QED BY <1>3, <1>9, <1>10, <1>11, <1>12

(* A project is published exactly when that was its last event. *)
LEMMA PublishedLast ==
  ASSUME HiringConstants, MarketInv, NEW p \in Projects
  PROVE  (project[p] # None /\ project[p].status = "published")
           <=> (projectOutbox[p] # <<>> /\ Hiring!LastOf(projectOutbox[p]) = "project.published")
<1>1. PICK row, log : row = project[p] /\ log = projectOutbox[p] OBVIOUS
<1>2. row \in ProjectRecs \cup {None} /\ log \in Seq(ProjectEvents) /\ ProjectStory(row, log) BY <1>1 DEF MarketInv, MarketTypes
<1>3. CASE row = None BY <1>1, <1>2, <1>3 DEF ProjectStory
<1>4. CASE row # None /\ row.status = "draft" BY <1>1, <1>2, <1>4 DEF ProjectStory
<1>5. CASE row # None /\ row.status = "published"
  <2>1. Len(log) = 1 /\ log[1] = "project.published" BY <1>2, <1>5 DEF ProjectStory
  <2>2. log # <<>> BY <2>1
  <2> QED BY <1>1, <1>5, <2>1, <2>2 DEF Hiring!LastOf
<1>6. CASE row # None /\ row.status = "closed"
  <2>1. log[Len(log)] = "project.closed" BY <1>2, <1>6 DEF ProjectStory
  <2> QED BY <1>1, <1>6, <2>1 DEF Hiring!LastOf
<1> QED BY <1>2, <1>3, <1>4, <1>5, <1>6 DEF ProjectRecs

(* The property that the lists and the events tell the same story. *)
LEMMA ListsForm == HiringConstants /\ MarketInv => Hiring!ListsFollowEvents
<1> SUFFICES ASSUME HiringConstants, MarketInv PROVE Hiring!ListsFollowEvents OBVIOUS
<1>1. {j.id : j \in Hiring!ListProjects("")} =
        {p \in Projects : projectOutbox[p] # <<>> /\ Hiring!LastOf(projectOutbox[p]) = "project.published"}
  <2>1. Hiring!ListProjects("") = {Hiring!projectJSON(p) : p \in {q \in Projects : project[q] # None /\ project[q].status = "published"}}
    BY DEF Hiring!ListProjects
  <2>2. \A p \in {q \in Projects : project[q] # None /\ project[q].status = "published"} : Hiring!projectJSON(p).id = p
    BY ProjectShown
  <2>3. {j.id : j \in Hiring!ListProjects("")} = {q \in Projects : project[q] # None /\ project[q].status = "published"}
    <3>1. PICK S : S = {q \in Projects : project[q] # None /\ project[q].status = "published"} OBVIOUS
    <3>2. \A j : j \in Hiring!ListProjects("") <=> \E p \in S : j = Hiring!projectJSON(p) BY <2>1, <3>1
    <3>3. \A p \in S : Hiring!projectJSON(p) \in Hiring!ListProjects("") /\ Hiring!projectJSON(p).id = p BY <2>2, <3>1, <3>2
    <3>4. \A j \in Hiring!ListProjects("") : j.id \in S BY <3>2, <3>3
    <3>5. \A x : x \in {j.id : j \in Hiring!ListProjects("")} <=> x \in S BY <3>3, <3>4
    <3> QED BY <3>1, <3>5
  <2> QED BY <2>3, PublishedLast
<1>2. ASSUME NEW s \in Hiring!ProjectStatuses, NEW j \in Hiring!ListProjects(s)
      PROVE  j.dates = {Hiring!Dated(projectOutbox[j.id][i]) : i \in DOMAIN projectOutbox[j.id]}
  <2>1. PICK p \in Projects : project[p] # None /\ j = Hiring!projectJSON(p) BY <1>2 DEF Hiring!ListProjects
  <2> QED BY <2>1, ProjectShown
<1>3. ASSUME NEW p \in Projects, NEW u \in Hiring!Callers, NEW s \in {"submitted", "shortlisted", "withdrawn"}
      PROVE  Hiring!ListProposalsForProject(p, s, u) =
               {b \in UNION {Hiring!ListForFreelancer(f) : f \in Hiring!Users} :
                  b[1] = p /\ u = Hiring!ProjectClientOf(p) /\ Hiring!LastOf(proposalOutbox[b]) = Hiring!Announced[s]}
  <2>1. \A b : b \in UNION {Hiring!ListForFreelancer(f) : f \in Hiring!Users} <=> b \in Offers /\ proposal[b] # None
    BY DEF Hiring!ListForFreelancer, Offers
  <2>2. \A b \in Offers : proposal[b] # None => (Hiring!LastOf(proposalOutbox[b]) = Hiring!Announced[s] <=> proposal[b].status = s)
    <3> SUFFICES ASSUME NEW b \in Offers, proposal[b] # None
                 PROVE Hiring!LastOf(proposalOutbox[b]) = Hiring!Announced[s] <=> proposal[b].status = s
      OBVIOUS
    <3>1. PICK x : x = proposal[b].status OBVIOUS
    <3>2. x \in {"submitted", "shortlisted", "withdrawn"} BY <3>1 DEF MarketInv, MarketTypes, ProposalRecs
    <3>3. Hiring!LastOf(proposalOutbox[b]) = Hiring!Announced[x] BY <3>1 DEF MarketInv, ProposalStory, Hiring!LastOf
    <3>4. Hiring!Announced[x] = Hiring!Announced[s] <=> x = s BY <1>3, <3>2 DEF Hiring!Announced
    <3> QED BY <3>1, <3>3, <3>4
  <2>3. \A b : b \in Hiring!ListForProject(p, s) <=> b \in Offers /\ b[1] = p /\ proposal[b] # None /\ proposal[b].status = s
    <3>1. \A b : b \in {p} \X Hiring!Users <=> b \in Offers /\ b[1] = p BY DEF Offers
    <3> QED BY <1>3, <3>1 DEF Hiring!ListForProject
  <2>4. CASE u = Hiring!ProjectClientOf(p) /\ u # None
    <3>1. Hiring!ListProposalsForProject(p, s, u) = Hiring!ListForProject(p, s)
      BY <2>4 DEF Hiring!ListProposalsForProject, Hiring!Identified
    <3> QED BY <2>1, <2>2, <2>3, <2>4, <3>1
  <2>5. CASE u # Hiring!ProjectClientOf(p)
    <3>1. Hiring!ListProposalsForProject(p, s, u) = {} BY <2>5 DEF Hiring!ListProposalsForProject
    <3> QED BY <2>5, <3>1
  <2>6. CASE u = Hiring!ProjectClientOf(p) /\ u = None
    <3>1. Hiring!ListProposalsForProject(p, s, u) = {} BY <2>6 DEF Hiring!ListProposalsForProject, Hiring!Identified
    <3>2. project[p] = None
      <4>1. project[p] # None => project[p].client \in Clients BY DEF MarketInv, MarketTypes, ProjectRecs
      <4>2. None \notin Clients BY DEF HiringConstants, Hiring!ContractsConstants, Hiring!MarketplaceConstants
      <4> QED BY <2>6, <4>1, <4>2 DEF Hiring!ProjectClientOf
    <3>3. \A b \in Offers : b[1] = p => proposal[b] = None BY <3>2 DEF MarketInv
    <3> QED BY <2>1, <3>1, <3>3
  <2> QED BY <2>4, <2>5, <2>6
<1> QED BY <1>1, <1>2, <1>3 DEF Hiring!ListsFollowEvents

-----------------------------------------------------------------------------
(* Contracts *)

TableTypes ==
  /\ contract \in [Contracts -> ContractRecs \cup {None}]
  /\ milestones \in [Contracts -> Seq(MilestoneRecs)]
  /\ deliverables \in [Hiring!MilestoneRows -> Nat]
  /\ timeline \in [Contracts -> Seq(TimelineRecs)]
  /\ contractOutbox \in [Contracts -> Seq(ContractNews)]
  /\ work \in [Requests -> WorkRecs]

AmountsOf(ms) == [i \in DOMAIN ms |-> ms[i].amount]

(* Contract c with milestones ms is worth the bid it was made from. *)
Terms(c, ms) ==
  c # None => /\ HasBid(c.proposal, c.client, c.price) /\ c.client # None
              /\ c.freelancer = c.proposal[2] /\ c.client # c.freelancer
              /\ c.kind = "fixed" => c.price = SumCents(DOMAIN ms, AmountsOf(ms))

(* So is the contract that a request is about to insert. *)
Asked(w) ==
  w.op = "create" =>
    /\ HasBid(w.prop.row, w.prop.client, w.prop.bid) /\ w.prop.client # None
    /\ w.prop.freelancer = w.prop.row[2] /\ w.prop.client # w.prop.freelancer
    /\ w.kind = "fixed" => w.prop.bid = SumCents(DOMAIN w.amounts, w.amounts)

(* The events of a log about the contract itself, up to place n. *)
ToldIn(log, n) == {i \in 1 .. n : log[i].type # "milestone.approved"}

NewsOf(event) == IF event = "activate" THEN "contract.activated" ELSE "contract.disputed"

(* The timeline t leads to the contract's status, and the log announced it. *)
Story(c, t, log) ==
  IF c = None THEN t = <<>> /\ log = <<>>
  ELSE /\ t # <<>> /\ t[1].from = None /\ t[Len(t)].to = c.status
       /\ \A i \in 2 .. Len(t) : t[i].from = t[i - 1].to
       /\ Cardinality(ToldIn(log, Len(log))) = Len(t) - 1
       /\ \A n \in ToldIn(log, Len(log)) : log[n].type = NewsOf(t[Cardinality(ToldIn(log, n)) + 1].event)

ApprovalOf(i) == [type |-> "milestone.approved", seq |-> i]

(* A milestone's status, the approvals announced and the deliverables. *)
MilestoneStory(st, n, d) ==
  /\ n = IF st = "approved" THEN 1 ELSE 0
  /\ d <= IF st \in {"submitted", "approved"} THEN 1 ELSE 0

From(op) == IF op = "fund" THEN "pending" ELSE IF op = "submit" THEN "funded" ELSE "submitted"

(* What a request read of the row it locked is what the row holds. *)
ReadStill(w, con, ms) ==
  /\ w.op \in {"fund", "submit", "approve"} =>
       w.lock[2] \in DOMAIN ms[w.lock[1]] /\ ms[w.lock[1]][w.lock[2]].status = From(w.op)
  /\ w.op = "dispute" => con[w.lock] # None /\ con[w.lock].status = w.from

(* A contract that is not there has nothing. *)
Unborn(k) == milestones[k] = <<>> /\ \A i \in 1 .. MaxSeq : deliverables[<<k, i>>] = 0

HiringIInv ==
  /\ MarketInv /\ TableTypes
  /\ \A k \in Contracts : Terms(contract[k], milestones[k])
  /\ \A k \in Contracts : Story(contract[k], timeline[k], contractOutbox[k])
  /\ \A k \in Contracts : contract[k] = None => Unborn(k)
  /\ \A k \in Contracts : \A i \in DOMAIN milestones[k] :
       /\ i \in 1 .. MaxSeq
       /\ MilestoneStory(milestones[k][i].status, CountOf(contractOutbox[k], ApprovalOf(i)), deliverables[<<k, i>>])
  /\ \A r \in Requests : Asked(work[r]) /\ ReadStill(work[r], contract, milestones)
  /\ \A r, s \in Requests : r # s /\ work[r].lock = work[s].lock => work[r].lock = None

(* The events told after one event more. *)
LEMMA ToldAppend ==
  ASSUME NEW log \in Seq(ContractNews), NEW o \in ContractNews
  PROVE  /\ \A n \in 1 .. Len(log) : ToldIn(Append(log, o), n) = ToldIn(log, n)
         /\ o.type = "milestone.approved" => ToldIn(Append(log, o), Len(log) + 1) = ToldIn(log, Len(log))
         /\ o.type # "milestone.approved" =>
              /\ ToldIn(Append(log, o), Len(log) + 1) = ToldIn(log, Len(log)) \cup {Len(log) + 1}
              /\ Cardinality(ToldIn(Append(log, o), Len(log) + 1)) = Cardinality(ToldIn(log, Len(log))) + 1
         /\ Cardinality(ToldIn(log, Len(log))) \in Nat
<1>1. PICK m, l : m = Append(log, o) /\ l = Len(log) + 1 OBVIOUS
<1>2. m[l] = o /\ (\A i \in 1 .. Len(log) : m[i] = log[i]) /\ Len(log) \in Nat BY <1>1, LogAppend
<1>3. \A n \in 1 .. Len(log) : ToldIn(m, n) = ToldIn(log, n) BY <1>2 DEF ToldIn
<1>4. o.type = "milestone.approved" => ToldIn(m, l) = ToldIn(log, Len(log)) BY <1>1, <1>2 DEF ToldIn
<1>5. o.type # "milestone.approved" => ToldIn(m, l) = ToldIn(log, Len(log)) \cup {l} BY <1>1, <1>2 DEF ToldIn
<1>6. IsFiniteSet(1 .. Len(log)) BY FS_Interval, <1>2
<1>7. IsFiniteSet(ToldIn(log, Len(log))) BY <1>6, FS_Subset DEF ToldIn
<1>8. l \notin ToldIn(log, Len(log)) BY <1>1, <1>2 DEF ToldIn
<1>9. Cardinality(ToldIn(log, Len(log)) \cup {l}) = Cardinality(ToldIn(log, Len(log))) + 1 BY <1>7, <1>8, FS_AddElement
<1>10. Cardinality(ToldIn(log, Len(log))) \in Nat BY <1>7, FS_CardinalityType
<1> QED BY <1>1, <1>3, <1>4, <1>5, <1>9, <1>10

(* An approval leaves the story as it is. *)
LEMMA StoryApproved ==
  ASSUME NEW c, c # None, NEW t, NEW log \in Seq(ContractNews), NEW o \in ContractNews, o.type = "milestone.approved",
         Story(c, t, log)
  PROVE  Story(c, t, Append(log, o))
<1>1. PICK m : m = Append(log, o) OBVIOUS
<1>2. Len(m) = Len(log) + 1 /\ (\A i \in 1 .. Len(log) : m[i] = log[i]) /\ Len(log) \in Nat BY <1>1, LogAppend
<1>3. ToldIn(m, Len(m)) = ToldIn(log, Len(log)) /\ \A n \in 1 .. Len(log) : ToldIn(m, n) = ToldIn(log, n)
  BY <1>1, <1>2, ToldAppend
<1>4. Cardinality(ToldIn(m, Len(m))) = Len(t) - 1 BY <1>3 DEF Story
<1>5. ASSUME NEW n \in ToldIn(m, Len(m)) PROVE m[n].type = NewsOf(t[Cardinality(ToldIn(m, n)) + 1].event)
  <2>1. n \in ToldIn(log, Len(log)) /\ n \in 1 .. Len(log) BY <1>3, <1>5 DEF ToldIn
  <2>2. m[n] = log[n] /\ ToldIn(m, n) = ToldIn(log, n) BY <1>2, <1>3, <2>1
  <2>3. log[n].type = NewsOf(t[Cardinality(ToldIn(log, n)) + 1].event) BY <2>1 DEF Story
  <2> QED BY <2>2, <2>3
<1> QED BY <1>1, <1>4, <1>5 DEF Story

(* A transition that is written to the timeline and announced. *)
LEMMA StoryMoves ==
  ASSUME NEW c, c # None, NEW t \in Seq(TimelineRecs), NEW log \in Seq(ContractNews), Story(c, t, log),
         NEW d, d # None, NEW e \in TimelineRecs, NEW o \in ContractNews,
         e.from = c.status, e.to = d.status, o.type = NewsOf(e.event)
  PROVE  Story(d, Append(t, e), Append(log, o))
<1>1. PICK m, s : m = Append(log, o) /\ s = Append(t, e) OBVIOUS
<1>2. Len(m) = Len(log) + 1 /\ m[Len(log) + 1] = o /\ (\A i \in 1 .. Len(log) : m[i] = log[i]) /\ Len(log) \in Nat
  BY <1>1, LogAppend
<1>3. Len(s) = Len(t) + 1 /\ s[Len(t) + 1] = e /\ (\A i \in 1 .. Len(t) : s[i] = t[i]) /\ Len(t) \in Nat
  BY <1>1, LogAppend
<1>4. o.type # "milestone.approved" BY DEF NewsOf
<1>5. /\ ToldIn(m, Len(m)) = ToldIn(log, Len(log)) \cup {Len(log) + 1}
      /\ Cardinality(ToldIn(m, Len(m))) = Cardinality(ToldIn(log, Len(log))) + 1
      /\ \A n \in 1 .. Len(log) : ToldIn(m, n) = ToldIn(log, n)
  BY <1>1, <1>2, <1>4, ToldAppend
<1>6. t # <<>> /\ t[1].from = None /\ t[Len(t)].to = c.status /\ Cardinality(ToldIn(log, Len(log))) = Len(t) - 1
      /\ \A i \in 2 .. Len(t) : t[i].from = t[i - 1].to
  BY DEF Story
<1>7. Len(t) > 0 BY <1>6
<1>8. Cardinality(ToldIn(m, Len(m))) = Len(s) - 1 BY <1>3, <1>5, <1>6
<1>9. s # <<>> /\ s[1].from = None /\ s[Len(s)].to = d.status BY <1>3, <1>6, <1>7
<1>10. \A i \in 2 .. Len(s) : s[i].from = s[i - 1].to
  <2> SUFFICES ASSUME NEW i \in 2 .. Len(s) PROVE s[i].from = s[i - 1].to OBVIOUS
  <2>1. CASE i = Len(t) + 1
    <3>1. s[i - 1] = t[Len(t)] /\ s[i] = e BY <1>3, <1>7, <2>1
    <3> QED BY <1>6, <3>1
  <2>2. CASE i # Len(t) + 1
    <3>1. i \in 2 .. Len(t) /\ i - 1 \in 1 .. Len(t) /\ i \in 1 .. Len(t) BY <1>3, <2>2
    <3> QED BY <1>3, <1>6, <3>1
  <2> QED BY <2>1, <2>2
<1>11. ASSUME NEW n \in ToldIn(m, Len(m)) PROVE m[n].type = NewsOf(s[Cardinality(ToldIn(m, n)) + 1].event)
  <2>1. CASE n = Len(log) + 1
    <3>1. Cardinality(ToldIn(m, n)) + 1 = Len(t) + 1 BY <1>2, <1>3, <1>8, <2>1
    <3> QED BY <1>2, <1>3, <2>1, <3>1
  <2>2. CASE n # Len(log) + 1
    <3>1. n \in ToldIn(log, Len(log)) BY <1>5, <1>11, <2>2
    <3>2. n \in 1 .. Len(log) BY <3>1 DEF ToldIn
    <3>3. log[n].type = NewsOf(t[Cardinality(ToldIn(log, n)) + 1].event) BY <3>1 DEF Story
    <3>4. PICK x : x = Cardinality(ToldIn(log, n)) OBVIOUS
    <3>5. x + 1 \in 1 .. Len(t)
      <4>1. IsFiniteSet(1 .. Len(log)) BY FS_Interval, <1>2
      <4>2. IsFiniteSet(ToldIn(log, Len(log))) BY <4>1, FS_Subset DEF ToldIn
      <4>3. ToldIn(log, n) \subseteq ToldIn(log, Len(log)) BY <1>2, <3>2 DEF ToldIn
      <4>4. x <= Len(t) - 1 /\ x \in Nat BY <1>6, <3>4, <4>2, <4>3, FS_Subset, FS_CardinalityType
      <4> QED BY <1>3, <4>4
    <3>6. s[x + 1] = t[x + 1] BY <1>3, <3>5
    <3>7. m[n] = log[n] /\ Cardinality(ToldIn(m, n)) = x BY <1>2, <1>5, <3>2, <3>4
    <3> QED BY <3>3, <3>4, <3>6, <3>7
  <2> QED BY <2>1, <2>2
<1> QED BY <1>1, <1>8, <1>9, <1>10, <1>11 DEF Story

(* Terms survive every step that keeps clients and bids. *)
LEMMA TermsKept ==
  ASSUME MarketGrows, NEW c, NEW ms, Terms(c, ms)
  PROVE  Terms(c, ms)'
<1>1. CASE c = None BY <1>1 DEF Terms
<1>2. CASE c # None
  <2>1. HasBid(c.proposal, c.client, c.price) BY <1>2 DEF Terms
  <2>2. HasBid(c.proposal, c.client, c.price)' BY <2>1, BidKept
  <2> QED BY <1>2, <2>2 DEF Terms
<1> QED BY <1>1, <1>2

(* And so does what a request is about to insert. *)
LEMMA AskedKept ==
  ASSUME MarketGrows, NEW w, Asked(w)
  PROVE  Asked(w)'
<1>1. CASE w.op # "create" BY <1>1 DEF Asked
<1>2. CASE w.op = "create"
  <2>1. HasBid(w.prop.row, w.prop.client, w.prop.bid) BY <1>2 DEF Asked
  <2>2. HasBid(w.prop.row, w.prop.client, w.prop.bid)' BY <2>1, BidKept
  <2> QED BY <1>2, <2>2 DEF Asked
<1> QED BY <1>1, <1>2

(* Nothing grows when nothing changes. *)
LEMMA MarketStill ==
  ASSUME MarketInv, UNCHANGED <<project, projectOutbox, proposal, proposalOutbox>>
  PROVE  MarketInv' /\ MarketGrows
<1>1. Offers' = Offers BY DEF Offers, Hiring!Users
<1>2. MarketGrows BY DEF MarketGrows
<1>3. MarketInv' BY <1>1 DEF MarketInv, MarketTypes, ProjectStory, ProposalStory, ProjectRecs, ProposalRecs, ProjectEvents,
                          ProposalEvents, Hiring!Announced
<1> QED BY <1>2, <1>3

(* The invariant from its parts, each about the rows of the next state. *)
LEMMA HiringParts ==
  ASSUME MarketInv',
         contract' \in [Contracts -> ContractRecs \cup {None}], milestones' \in [Contracts -> Seq(MilestoneRecs)],
         deliverables' \in [Hiring!MilestoneRows -> Nat], timeline' \in [Contracts -> Seq(TimelineRecs)],
         contractOutbox' \in [Contracts -> Seq(ContractNews)], work' \in [Requests -> WorkRecs],
         \A k \in Contracts : \A c, ms : c = contract'[k] /\ ms = milestones'[k] => Terms(c, ms)',
         \A k \in Contracts : Story(contract'[k], timeline'[k], contractOutbox'[k]),
         \A k \in Contracts : contract'[k] = None =>
           milestones'[k] = <<>> /\ \A i \in 1 .. MaxSeq : deliverables'[<<k, i>>] = 0,
         \A k \in Contracts : \A i \in DOMAIN milestones'[k] :
           /\ i \in 1 .. MaxSeq
           /\ MilestoneStory(milestones'[k][i].status, CountOf(contractOutbox'[k], ApprovalOf(i)), deliverables'[<<k, i>>]),
         \A r \in Requests : ReadStill(work'[r], contract', milestones') /\ \A w : w = work'[r] => Asked(w)',
         \A r, s \in Requests : r # s /\ work'[r].lock = work'[s].lock => work'[r].lock = None
  PROVE  HiringIInv'
<1>1. TableTypes' BY DEF TableTypes
<1>2. \A k \in Contracts : Terms(contract[k], milestones[k])'
  BY DEF Terms, HasBid
<1>3. \A r \in Requests : Asked(work[r])'
  BY DEF Asked, HasBid
<1>4. \A k \in Contracts : Unborn(k)' <=> (milestones'[k] = <<>> /\ \A i \in 1 .. MaxSeq : deliverables'[<<k, i>>] = 0)
  BY DEF Unborn
<1> QED BY <1>1, <1>2, <1>3, <1>4 DEF HiringIInv

(* A step of the project or the proposal service. *)
LEMMA MarketOnly ==
  ASSUME HiringIInv, MarketInv', MarketGrows,
         UNCHANGED <<contract, milestones, deliverables, timeline, contractOutbox, work>>
  PROVE  HiringIInv'
<1>1. TableTypes /\ \A k \in Contracts : Story(contract[k], timeline[k], contractOutbox[k]) BY DEF HiringIInv
<1>2. \A k \in Contracts : \A c, ms : c = contract'[k] /\ ms = milestones'[k] => Terms(c, ms)' BY TermsKept DEF HiringIInv
<1>3. \A r \in Requests : ReadStill(work'[r], contract', milestones') /\ \A w : w = work'[r] => Asked(w)' BY AskedKept DEF HiringIInv
<1>4. \A k \in Contracts : contract'[k] = None => milestones'[k] = <<>> /\ \A i \in 1 .. MaxSeq : deliverables'[<<k, i>>] = 0
  BY DEF HiringIInv, Unborn
<1>5. \A k \in Contracts : \A i \in DOMAIN milestones'[k] :
        /\ i \in 1 .. MaxSeq
        /\ MilestoneStory(milestones'[k][i].status, CountOf(contractOutbox'[k], ApprovalOf(i)), deliverables'[<<k, i>>])
  BY DEF HiringIInv
<1>6. \A r, s \in Requests : r # s /\ work'[r].lock = work'[s].lock => work'[r].lock = None BY DEF HiringIInv
<1>7. /\ contract' \in [Contracts -> ContractRecs \cup {None}] /\ milestones' \in [Contracts -> Seq(MilestoneRecs)]
      /\ deliverables' \in [Hiring!MilestoneRows -> Nat] /\ timeline' \in [Contracts -> Seq(TimelineRecs)]
      /\ contractOutbox' \in [Contracts -> Seq(ContractNews)] /\ work' \in [Requests -> WorkRecs]
      /\ \A k \in Contracts : Story(contract'[k], timeline'[k], contractOutbox'[k])
  BY <1>1 DEF TableTypes
<1> QED BY <1>2, <1>3, <1>4, <1>5, <1>6, <1>7, HiringParts

(* A request reads and locks a row, or gives up. *)
LEMMA WorkOnly ==
  ASSUME HiringIInv, UNCHANGED <<project, projectOutbox, proposal, proposalOutbox>>,
         UNCHANGED <<contract, milestones, deliverables, timeline, contractOutbox>>,
         NEW r \in Requests, NEW w \in WorkRecs, work' = [work EXCEPT ![r] = w],
         Asked(w), ReadStill(w, contract, milestones), w.lock # None => Hiring!RowFree(w.lock)
  PROVE  HiringIInv'
<1>0. MarketInv' /\ MarketGrows BY MarketStill DEF HiringIInv
<1>1. TableTypes /\ \A k \in Contracts : Story(contract[k], timeline[k], contractOutbox[k]) BY DEF HiringIInv
<1>2. \A k \in Contracts : \A c, ms : c = contract'[k] /\ ms = milestones'[k] => Terms(c, ms)' BY <1>0, TermsKept DEF HiringIInv
<1>3. work' \in [Requests -> WorkRecs] /\ work'[r] = w /\ \A s \in Requests \ {r} : work'[s] = work[s] BY <1>1 DEF TableTypes
<1>4. \A s \in Requests : Asked(work'[s]) /\ ReadStill(work'[s], contract', milestones') BY <1>3 DEF HiringIInv
<1>5. \A s \in Requests : ReadStill(work'[s], contract', milestones') /\ \A x : x = work'[s] => Asked(x)' BY <1>0, <1>4, AskedKept
<1>6. \A k \in Contracts : contract'[k] = None => milestones'[k] = <<>> /\ \A i \in 1 .. MaxSeq : deliverables'[<<k, i>>] = 0
  BY DEF HiringIInv, Unborn
<1>7. \A k \in Contracts : \A i \in DOMAIN milestones'[k] :
        /\ i \in 1 .. MaxSeq
        /\ MilestoneStory(milestones'[k][i].status, CountOf(contractOutbox'[k], ApprovalOf(i)), deliverables'[<<k, i>>])
  BY DEF HiringIInv
<1>8. \A q, s \in Requests : q # s /\ work'[q].lock = work'[s].lock => work'[q].lock = None
  <2>1. \A q, s \in Requests : q # s /\ work[q].lock = work[s].lock => work[q].lock = None BY DEF HiringIInv
  <2>2. w.lock # None => \A s \in Requests : work[s].lock # w.lock BY DEF Hiring!RowFree
  <2> QED BY <1>3, <2>1, <2>2
<1>9. /\ contract' \in [Contracts -> ContractRecs \cup {None}] /\ milestones' \in [Contracts -> Seq(MilestoneRecs)]
      /\ deliverables' \in [Hiring!MilestoneRows -> Nat] /\ timeline' \in [Contracts -> Seq(TimelineRecs)]
      /\ contractOutbox' \in [Contracts -> Seq(ContractNews)]
      /\ \A k \in Contracts : Story(contract'[k], timeline'[k], contractOutbox'[k])
  BY <1>1 DEF TableTypes
<1> QED BY <1>0, <1>2, <1>3, <1>5, <1>6, <1>7, <1>8, <1>9, HiringParts

(* Rows that the invariant allows contract k to have. *)
RowsOK(k, c, ms, t, log, d) ==
  /\ c \in ContractRecs /\ ms \in Seq(MilestoneRecs) /\ t \in Seq(TimelineRecs) /\ log \in Seq(ContractNews)
  /\ d \in [Hiring!MilestoneRows -> Nat] /\ \A m \in Hiring!MilestoneRows : m[1] # k => d[m] = deliverables[m]
  /\ Terms(c, ms) /\ Story(c, t, log)
  /\ \A i \in DOMAIN ms : i \in 1 .. MaxSeq /\ MilestoneStory(ms[i].status, CountOf(log, ApprovalOf(i)), d[<<k, i>>])

RowsWritten(k, c, ms, t, log, d) ==
  /\ contract' = [contract EXCEPT ![k] = c] /\ milestones' = [milestones EXCEPT ![k] = ms]
  /\ timeline' = [timeline EXCEPT ![k] = t] /\ contractOutbox' = [contractOutbox EXCEPT ![k] = log]
  /\ deliverables' = d

(* A request ends, and what the others read still holds. *)
OthersRead ==
  /\ work' \in [Requests -> WorkRecs]
  /\ \A r \in Requests : work'[r] = Hiring!Idle \/ (work'[r] = work[r] /\ ReadStill(work[r], contract', milestones'))

(* A step that writes the rows of one contract. *)
LEMMA ContractStep ==
  ASSUME HiringConstants, HiringIInv, UNCHANGED <<project, projectOutbox, proposal, proposalOutbox>>,
         NEW k \in Contracts, NEW c, NEW ms, NEW t, NEW log, NEW d, RowsOK(k, c, ms, t, log, d),
         RowsWritten(k, c, ms, t, log, d), OthersRead
  PROVE  HiringIInv'
<1> USE DEF RowsWritten
<1>0. MarketInv' /\ MarketGrows BY MarketStill DEF HiringIInv
<1>1. TableTypes BY DEF HiringIInv
<1>2. /\ c \in ContractRecs /\ c # None /\ ms \in Seq(MilestoneRecs) /\ t \in Seq(TimelineRecs) /\ log \in Seq(ContractNews)
      /\ d \in [Hiring!MilestoneRows -> Nat]
  BY DEF RowsOK, HiringConstants
<1>3. /\ contract' \in [Contracts -> ContractRecs \cup {None}] /\ milestones' \in [Contracts -> Seq(MilestoneRecs)]
      /\ deliverables' \in [Hiring!MilestoneRows -> Nat] /\ timeline' \in [Contracts -> Seq(TimelineRecs)]
      /\ contractOutbox' \in [Contracts -> Seq(ContractNews)] /\ work' \in [Requests -> WorkRecs]
  BY <1>1, <1>2 DEF TableTypes, OthersRead
<1>4. /\ contract'[k] = c /\ milestones'[k] = ms /\ timeline'[k] = t /\ contractOutbox'[k] = log
      /\ \A q \in Contracts \ {k} : /\ contract'[q] = contract[q] /\ milestones'[q] = milestones[q]
                                    /\ timeline'[q] = timeline[q] /\ contractOutbox'[q] = contractOutbox[q]
                                    /\ \A i \in 1 .. MaxSeq : deliverables'[<<q, i>>] = deliverables[<<q, i>>]
  <2>1. \A q \in Contracts \ {k} : \A i \in 1 .. MaxSeq : d[<<q, i>>] = deliverables[<<q, i>>]
    BY DEF RowsOK, Hiring!MilestoneRows
  <2> QED BY <1>1, <2>1 DEF TableTypes
<1>5. \A q \in Contracts : Terms(contract'[q], milestones'[q]) BY <1>4 DEF HiringIInv, RowsOK
<1>6. \A q \in Contracts : \A x, y : x = contract'[q] /\ y = milestones'[q] => Terms(x, y)' BY <1>0, <1>5, TermsKept
<1>7. \A q \in Contracts : Story(contract'[q], timeline'[q], contractOutbox'[q]) BY <1>4 DEF HiringIInv, RowsOK
<1>8. \A q \in Contracts : contract'[q] = None => milestones'[q] = <<>> /\ \A i \in 1 .. MaxSeq : deliverables'[<<q, i>>] = 0
  <2> SUFFICES ASSUME NEW q \in Contracts, contract'[q] = None
               PROVE milestones'[q] = <<>> /\ \A i \in 1 .. MaxSeq : deliverables'[<<q, i>>] = 0
    OBVIOUS
  <2>1. q # k /\ contract[q] = None BY <1>2, <1>4
  <2>2. Unborn(q) BY <2>1 DEF HiringIInv
  <2> QED BY <1>4, <2>1, <2>2 DEF Unborn
<1>9. \A q \in Contracts : \A i \in DOMAIN milestones'[q] :
        /\ i \in 1 .. MaxSeq
        /\ MilestoneStory(milestones'[q][i].status, CountOf(contractOutbox'[q], ApprovalOf(i)), deliverables'[<<q, i>>])
  BY <1>4 DEF HiringIInv, RowsOK
<1>10. Asked(Hiring!Idle) /\ ReadStill(Hiring!Idle, contract', milestones') /\ Hiring!Idle.lock = None
  BY DEF Asked, ReadStill, Hiring!Idle
<1>11. \A r \in Requests : Asked(work'[r]) /\ ReadStill(work'[r], contract', milestones') BY <1>10 DEF OthersRead, HiringIInv
<1>12. \A r \in Requests : ReadStill(work'[r], contract', milestones') /\ \A x : x = work'[r] => Asked(x)' BY <1>0, <1>11, AskedKept
<1>13. \A r, s \in Requests : r # s /\ work'[r].lock = work'[s].lock => work'[r].lock = None BY <1>10 DEF OthersRead, HiringIInv
<1> QED BY <1>0, <1>3, <1>6, <1>7, <1>8, <1>9, <1>12, <1>13, HiringParts

(* The instance counts and sums with the same operators. *)
LEMMA SumBridge ==
  /\ \A S : Hiring!Cardinality(S) = Cardinality(S)
  /\ \A S, f : Hiring!SumCents(S, f) = SumCents(S, f)
  /\ \A log, e : Hiring!CountOf(log, e) = CountOf(log, e)
<1>1. \A S : Hiring!Cardinality(S) = Cardinality(S) BY DEF Hiring!Cardinality, Cardinality, Hiring!IsFiniteSet, IsFiniteSet
<1>2. \A S, f : Hiring!SumCents(S, f) = SumCents(S, f) BY <1>1 DEF Hiring!SumCents, SumCents, Hiring!CentsOf, CentsOf
<1>3. \A log, e : Hiring!CountOf(log, e) = CountOf(log, e) BY <1>1 DEF Hiring!CountOf, CountOf
<1> QED BY <1>1, <1>2, <1>3

(* A request looks a proposal up before it inserts the contract. *)
LEMMA LookupStep ==
  ASSUME HiringConstants, HiringIInv, NEW r \in Requests, NEW u \in Hiring!Callers, NEW b \in Offers, NEW kind, NEW amounts \in Breakdowns,
         Hiring!LookupProposal(r, u, b, kind, amounts)
  PROVE  HiringIInv'
<1>1. PICK prop : prop = Hiring!ProposalForContract(b) OBVIOUS
<1>2. PICK w : w = [op |-> "create", lock |-> None, prop |-> prop, kind |-> kind, amounts |-> amounts] OBVIOUS
<1>3. /\ proposal[b] # None /\ kind \in {"fixed", "hourly"} /\ u # None
      /\ Hiring!deriveContractTerms(u, kind, amounts, prop)
      /\ work' = [work EXCEPT ![r] = w] /\ UNCHANGED <<Hiring!market, Hiring!tables>>
  BY <1>1, <1>2 DEF Hiring!LookupProposal, Hiring!create, Hiring!Identified, Hiring!LookupGet, Hiring!Begin
<1>4. /\ proposal[b] \in ProposalRecs /\ project[b[1]] # None /\ project[b[1]] \in ProjectRecs /\ b[2] \in Hiring!Users
  BY <1>3 DEF HiringIInv, MarketInv, MarketTypes, Offers
<1>5. /\ prop \in LookupRecs /\ prop.row = b /\ prop.client = project[b[1]].client /\ prop.freelancer = b[2]
      /\ prop.bid = proposal[b].bid
  <2>1. Hiring!GetProposal(b).row = proposal[b] BY DEF Hiring!GetProposal
  <2>2. prop = [row |-> b, client |-> project[b[1]].client, freelancer |-> b[2], status |-> proposal[b].status, bid |-> proposal[b].bid]
    BY <1>1, <2>1 DEF Hiring!ProposalForContract, Hiring!ProjectClientOfProposal
  <2>3. /\ project[b[1]].client \in Hiring!Users /\ proposal[b].bid \in Int
        /\ proposal[b].status \in {"submitted", "shortlisted", "withdrawn"}
    BY <1>4 DEF ProposalRecs, ProjectRecs, Hiring!Users
  <2> QED BY <1>4, <2>2, <2>3 DEF LookupRecs
<1>6. w \in Creating /\ w.op = "create" /\ w.lock = None /\ w.prop = prop /\ w.kind = kind /\ w.amounts = amounts
  BY <1>2, <1>3, <1>5 DEF Creating, HiringConstants, Hiring!ContractsConstants
<1>7. HasBid(b, prop.client, prop.bid) BY <1>3, <1>4, <1>5 DEF HasBid
<1>8. /\ prop.client # None /\ prop.client # prop.freelancer
      /\ kind = "fixed" => prop.bid = SumCents(DOMAIN amounts, amounts)
  BY <1>3, SumBridge DEF Hiring!deriveContractTerms, Hiring!SumOf
<1>9. Asked(w) /\ ReadStill(w, contract, milestones) BY <1>5, <1>6, <1>7, <1>8 DEF Asked, ReadStill
<1> QED BY <1>3, <1>6, <1>9, WorkOnly DEF WorkRecs, Hiring!market, Hiring!tables

(* A milestone row is locked and found in the status it moves from. *)
LEMMA MilestoneInfoStep ==
  ASSUME HiringConstants, HiringIInv, NEW r \in Requests, NEW m \in Hiring!MilestoneRows, NEW op \in {"fund", "submit", "approve"},
         NEW from, from = From(op), Hiring!milestoneInfo(r, op, m, from)
  PROVE  HiringIInv'
<1>1. PICK w : w = [op |-> op, lock |-> m] OBVIOUS
<1>2. /\ m[2] \in DOMAIN milestones[m[1]] /\ milestones[m[1]][m[2]].status = From(op) /\ Hiring!RowFree(m)
      /\ work' = [work EXCEPT ![r] = w] /\ UNCHANGED <<Hiring!market, Hiring!tables>>
  BY <1>1 DEF Hiring!milestoneInfo, Hiring!Begin
<1>3. w \in Moving /\ w.op = op /\ w.lock = m BY <1>1 DEF Moving
<1>4. Asked(w) /\ ReadStill(w, contract, milestones) BY <1>2, <1>3 DEF Asked, ReadStill
<1> QED BY <1>2, <1>3, <1>4, WorkOnly DEF WorkRecs, Hiring!market, Hiring!tables

(* A contract row is locked and its status read. *)
LEMMA CurrentStatusStep ==
  ASSUME HiringConstants, HiringIInv, NEW r \in Requests, NEW k \in Contracts, NEW u, NEW against,
         Hiring!CurrentStatus(r, k, u, against)
  PROVE  HiringIInv'
<1>1. PICK st : st = contract[k].status OBVIOUS
<1>2. PICK w : w = [op |-> "dispute", lock |-> k, from |-> st] OBVIOUS
<1>3. /\ contract[k] # None /\ Hiring!RowFree(k)
      /\ work' = [work EXCEPT ![r] = w] /\ UNCHANGED <<Hiring!market, Hiring!tables>>
  BY <1>1, <1>2 DEF Hiring!CurrentStatus, Hiring!Begin
<1>4. st \in ContractStates BY <1>1, <1>3 DEF HiringIInv, TableTypes, ContractRecs
<1>5. w \in Disputing /\ w.op = "dispute" /\ w.lock = k /\ w.from = st BY <1>2, <1>4 DEF Disputing
<1>6. Asked(w) /\ ReadStill(w, contract, milestones) BY <1>1, <1>3, <1>5 DEF Asked, ReadStill
<1> QED BY <1>3, <1>5, <1>6, WorkOnly DEF WorkRecs, Hiring!market, Hiring!tables

(* A request that ends with nothing written. *)
LEMMA HiringRollback ==
  ASSUME HiringConstants, HiringIInv, NEW r \in Requests, Hiring!Rollback(r)
  PROVE  HiringIInv'
<1>1. PICK w : w = Hiring!Idle OBVIOUS
<1>2. w \in WorkRecs /\ w.lock = None /\ w.op = "idle" BY <1>1 DEF WorkRecs, Hiring!Idle
<1>3. Asked(w) /\ ReadStill(w, contract, milestones) BY <1>2 DEF Asked, ReadStill
<1>4. work' = [work EXCEPT ![r] = w] /\ UNCHANGED <<Hiring!market, Hiring!tables>> BY <1>1 DEF Hiring!Rollback
<1> QED BY <1>2, <1>3, <1>4, WorkOnly DEF Hiring!market, Hiring!tables

(* A log given by its entries. *)
LEMMA SeqOf ==
  ASSUME NEW S, NEW n \in Nat, NEW f \in [1 .. n -> S]
  PROVE  f \in Seq(S)
OBVIOUS

(* The contract is inserted with its milestones and the first event. *)
LEMMA CreateFromProposalStep ==
  ASSUME HiringConstants, HiringIInv, NEW r \in Requests, NEW k \in Contracts, Hiring!CreateFromProposal(r, k)
  PROVE  HiringIInv'
<1>1. PICK w : w = work[r] OBVIOUS
<1>2. PICK c, ms, e, idle : /\ c = Hiring!InsertContract(w.prop, w.kind) /\ ms = Hiring!InsertMilestones(w.kind, w.amounts)
                            /\ e = Hiring!ContractEvent("create", None, "pending_funding") /\ idle = Hiring!Idle
  OBVIOUS
<1>3. /\ w.op = "create" /\ contract[k] = None
      /\ contract' = [contract EXCEPT ![k] = c] /\ milestones' = [milestones EXCEPT ![k] = ms]
      /\ timeline' = [timeline EXCEPT ![k] = Append(timeline[k], e)] /\ work' = [work EXCEPT ![r] = idle]
      /\ UNCHANGED <<Hiring!market, deliverables, contractOutbox>>
  BY <1>1, <1>2 DEF Hiring!CreateFromProposal, Hiring!InsertContractEvent, Hiring!Commit
<1>4. TableTypes /\ Asked(w) /\ Unborn(k) /\ Story(None, timeline[k], contractOutbox[k]) BY <1>1, <1>3 DEF HiringIInv
<1>5. w \in Creating
  <2>1. w \in WorkRecs BY <1>1, <1>4 DEF TableTypes
  <2> QED BY <1>3, <2>1 DEF WorkRecs, Creating, Moving, Disputing, Hiring!Idle
<1>6. w.prop \in LookupRecs /\ w.kind \in {"fixed", "hourly"} /\ w.amounts \in Seq(Nat) /\ Len(w.amounts) <= MaxSeq
  BY <1>5 DEF Creating, HiringConstants, Hiring!ContractsConstants
<1>7. /\ c \in ContractRecs /\ c.proposal = w.prop.row /\ c.client = w.prop.client /\ c.freelancer = w.prop.freelancer
      /\ c.kind = w.kind /\ c.price = w.prop.bid /\ c.status = "pending_funding"
  BY <1>2, <1>6 DEF Hiring!InsertContract, ContractRecs, LookupRecs, ContractStates
<1>8. c # None BY <1>7 DEF HiringConstants
<1>9. PICK t : t = Append(timeline[k], e) OBVIOUS
<1>10. e \in TimelineRecs /\ e.from = None /\ e.to = "pending_funding"
  BY <1>2 DEF Hiring!ContractEvent, TimelineRecs, ContractStates
<1>11. timeline[k] = <<>> /\ contractOutbox[k] = <<>> BY <1>4 DEF Story
<1>12. t \in Seq(TimelineRecs) /\ Len(t) = 1 /\ t[1] = e BY <1>9, <1>10, <1>11
<1>13. Story(c, t, <<>>)
  <2>1. ToldIn(<<>>, 0) = {} BY DEF ToldIn
  <2>2. Cardinality(ToldIn(<<>>, 0)) = 0 BY <2>1, FS_EmptySet
  <2>3. t # <<>>
    <3>1. ASSUME t = <<>> PROVE FALSE
      <4>1. Len(t) = 0 BY <3>1
      <4> QED BY <1>12, <4>1
    <3> QED BY <3>1
  <2> QED BY <1>7, <1>8, <1>10, <1>12, <2>1, <2>2, <2>3 DEF Story
<1>14. /\ ms \in Seq(MilestoneRecs)
       /\ w.kind = "fixed" => DOMAIN ms = DOMAIN w.amounts /\ \A i \in DOMAIN ms : ms[i].amount = w.amounts[i]
       /\ \A i \in DOMAIN ms : ms[i].status = "pending"
  <2>1. CASE w.kind = "hourly" BY <1>2, <2>1 DEF Hiring!InsertMilestones
  <2>2. CASE w.kind # "hourly"
    <3>1. ms = [i \in 1 .. Len(w.amounts) |-> [amount |-> w.amounts[i], status |-> "pending"]]
      BY <1>2, <1>6, <2>2 DEF Hiring!InsertMilestones
    <3>2. \A i \in 1 .. Len(w.amounts) : w.amounts[i] \in Nat BY <1>6
    <3>3. \A i \in 1 .. Len(w.amounts) : ms[i] \in MilestoneRecs /\ ms[i].amount = w.amounts[i] /\ ms[i].status = "pending"
      BY <3>1, <3>2 DEF MilestoneRecs
    <3>4. PICK n \in Nat : n = Len(w.amounts) BY <1>6
    <3>5. ms \in Seq(MilestoneRecs)
      <4>1. ms = [i \in 1 .. n |-> ms[i]] BY <3>1, <3>4
      <4>2. ms \in [1 .. n -> MilestoneRecs] BY <3>3, <3>4, <4>1
      <4> QED BY <4>2, SeqOf
    <3> QED BY <1>6, <3>1, <3>3, <3>5
  <2> QED BY <2>1, <2>2
<1>15. Terms(c, ms)
  <2>1. w.kind = "fixed" => SumCents(DOMAIN ms, AmountsOf(ms)) = SumCents(DOMAIN w.amounts, w.amounts)
    <3> SUFFICES ASSUME w.kind = "fixed" PROVE SumCents(DOMAIN ms, AmountsOf(ms)) = SumCents(DOMAIN w.amounts, w.amounts) OBVIOUS
    <3>1. \A i \in DOMAIN ms : AmountsOf(ms)[i] = w.amounts[i] BY <1>14 DEF AmountsOf
    <3> QED BY <1>14, <3>1, SumSame
  <2> QED BY <1>3, <1>4, <1>7, <2>1 DEF Terms, Asked
<1>16. \A i \in DOMAIN ms : i \in 1 .. MaxSeq
  <2>1. CASE w.kind = "hourly" BY <1>2, <2>1 DEF Hiring!InsertMilestones
  <2>2. CASE w.kind = "fixed"
    <3>1. DOMAIN ms = 1 .. Len(w.amounts) BY <1>6, <1>14, <2>2
    <3>2. MaxSeq \in Nat BY DEF HiringConstants, Hiring!ContractsConstants
    <3> QED BY <1>6, <3>1, <3>2
  <2> QED BY <1>6, <2>1, <2>2
<1>17. deliverables \in [Hiring!MilestoneRows -> Nat] /\ \A i \in 1 .. MaxSeq : deliverables[<<k, i>>] = 0
  BY <1>4 DEF TableTypes, Unborn
<1>18. RowsOK(k, c, ms, t, <<>>, deliverables)
  BY <1>7, <1>12, <1>13, <1>14, <1>15, <1>16, <1>17, CountOfNone DEF RowsOK, MilestoneStory
<1>19. contractOutbox' = [contractOutbox EXCEPT ![k] = <<>>] BY <1>3, <1>4, <1>11 DEF TableTypes
<1>20. OthersRead
  <2>1. work' \in [Requests -> WorkRecs] /\ work'[r] = Hiring!Idle /\ \A s \in Requests \ {r} : work'[s] = work[s]
    BY <1>2, <1>3, <1>4 DEF TableTypes, WorkRecs
  <2>2. ASSUME NEW s \in Requests PROVE ReadStill(work[s], contract', milestones')
    <3>1. ReadStill(work[s], contract, milestones) /\ work[s] \in WorkRecs BY <1>4 DEF HiringIInv, TableTypes
    <3>2. CASE work[s].op \in {"fund", "submit", "approve"}
      <4>1. work[s] \in Moving BY <3>1, <3>2 DEF WorkRecs, Creating, Moving, Disputing, Hiring!Idle
      <4>2. PICK q \in Contracts : q = work[s].lock[1] BY <4>1 DEF Moving, Hiring!MilestoneRows
      <4>3. q # k BY <1>4, <3>1, <3>2, <4>2 DEF ReadStill, Unborn
      <4>4. milestones'[q] = milestones[q] BY <1>3, <1>4, <4>3 DEF TableTypes
      <4> QED BY <3>1, <3>2, <4>2, <4>4 DEF ReadStill
    <3>3. CASE work[s].op = "dispute"
      <4>1. work[s] \in Disputing BY <3>1, <3>3 DEF WorkRecs, Creating, Moving, Disputing, Hiring!Idle
      <4>2. PICK q \in Contracts : q = work[s].lock BY <4>1 DEF Disputing
      <4>3. q # k BY <1>3, <3>1, <3>3, <4>2 DEF ReadStill
      <4>4. contract'[q] = contract[q] BY <1>3, <1>4, <4>3 DEF TableTypes
      <4> QED BY <3>1, <3>3, <4>2, <4>4 DEF ReadStill
    <3> QED BY <3>2, <3>3 DEF ReadStill
  <2> QED BY <2>1, <2>2 DEF OthersRead
<1> QED BY <1>3, <1>9, <1>18, <1>19, <1>20, ContractStep DEF Hiring!market, RowsWritten

(* Other news are no approval. *)
LEMMA OtherNews ==
  ASSUME NEW log \in Seq(ContractNews), NEW o \in ContractNews, o.type # "milestone.approved", NEW i
  PROVE  CountOf(Append(log, o), ApprovalOf(i)) = CountOf(log, ApprovalOf(i))
<1>1. o # ApprovalOf(i) BY DEF ApprovalOf
<1>2. PICK a : a = ApprovalOf(i) OBVIOUS
<1>3. CountOf(log, a) \in Nat /\ CountOf(Append(log, o), a) = CountOf(log, a) + IF o = a THEN 1 ELSE 0 BY CountAppend
<1> QED BY <1>1, <1>2, <1>3

(* A new status of contract k does not touch a request on another row. *)
LEMMA OthersKeep ==
  ASSUME TableTypes, NEW k \in Contracts, NEW c, contract' = [contract EXCEPT ![k] = c], milestones' = milestones,
         NEW w \in WorkRecs, w.lock # k, ReadStill(w, contract, milestones)
  PROVE  ReadStill(w, contract', milestones')
<1>1. CASE w.op = "dispute"
  <2>1. w \in Disputing BY <1>1 DEF WorkRecs, Creating, Moving, Disputing, Hiring!Idle
  <2>2. w.lock \in Contracts BY <2>1 DEF Disputing
  <2>3. contract'[w.lock] = contract[w.lock] BY <2>2 DEF TableTypes
  <2> QED BY <1>1, <2>3 DEF ReadStill
<1>2. CASE w.op # "dispute" BY <1>2 DEF ReadStill
<1> QED BY <1>1, <1>2
(* The guarded UPDATE of the contract row, with its event. *)
LEMMA ActivateStep ==
  ASSUME HiringConstants, HiringIInv, NEW k \in Contracts, NEW u, Hiring!ActivateContract(k, u)
  PROVE  HiringIInv'
<1>1. PICK old : old = contract[k] OBVIOUS
<1>2. PICK c, e, o : /\ c = [[old EXCEPT !.status = "active"] EXCEPT !.started = TRUE]
                     /\ e = Hiring!ContractEvent("activate", "pending_funding", "active")
                     /\ o = [type |-> "contract.activated", seq |-> 0]
  OBVIOUS
<1>3. /\ old # None /\ Hiring!RowFree(k) /\ old.status = "pending_funding"
      /\ contract' = [contract EXCEPT ![k].status = "active", ![k].started = TRUE]
      /\ timeline' = [timeline EXCEPT ![k] = Append(timeline[k], e)]
      /\ contractOutbox' = [contractOutbox EXCEPT ![k] = Append(contractOutbox[k], o)]
      /\ UNCHANGED <<Hiring!market, work, milestones, deliverables>>
  BY <1>1, <1>2 DEF Hiring!ActivateContract, Hiring!TransitionContract, Hiring!InsertContractEvent, Hiring!Enqueue
<1>4. TableTypes BY DEF HiringIInv
<1>5. PICK ms, t, log : ms = milestones[k] /\ t = timeline[k] /\ log = contractOutbox[k] OBVIOUS
<1>6. /\ old \in ContractRecs /\ ms \in Seq(MilestoneRecs) /\ t \in Seq(TimelineRecs) /\ log \in Seq(ContractNews)
      /\ Story(old, t, log) /\ Terms(old, ms)
      /\ \A i \in DOMAIN ms : i \in 1 .. MaxSeq /\ MilestoneStory(ms[i].status, CountOf(log, ApprovalOf(i)), deliverables[<<k, i>>])
  BY <1>1, <1>3, <1>4, <1>5 DEF HiringIInv, TableTypes
<1>7. contract' = [contract EXCEPT ![k] = c]
  BY <1>1, <1>2, <1>3, <1>4, <1>6 DEF TableTypes, ContractRecs
<1>8. /\ c \in ContractRecs /\ c.status = "active" /\ c.proposal = old.proposal /\ c.client = old.client
      /\ c.freelancer = old.freelancer /\ c.kind = old.kind /\ c.price = old.price
  BY <1>2, <1>6 DEF ContractRecs, ContractStates
<1>9. c # None BY <1>8 DEF HiringConstants
<1>10. e \in TimelineRecs /\ e.from = old.status /\ e.to = c.status /\ e.event = "activate"
  BY <1>2, <1>3, <1>8 DEF Hiring!ContractEvent, TimelineRecs, ContractStates
<1>11. o \in ContractNews /\ o.type = NewsOf(e.event) /\ o.type # "milestone.approved" BY <1>2, <1>10 DEF ContractNews, NewsOf
<1>12. PICK t2, log2 : t2 = Append(t, e) /\ log2 = Append(log, o) OBVIOUS
<1>13. Story(c, t2, log2) BY <1>3, <1>6, <1>9, <1>10, <1>11, <1>12, StoryMoves
<1>14. t2 \in Seq(TimelineRecs) /\ log2 \in Seq(ContractNews) BY <1>6, <1>10, <1>11, <1>12, LogAppend
<1>15. \A i : CountOf(log2, ApprovalOf(i)) = CountOf(log, ApprovalOf(i)) BY <1>6, <1>11, <1>12, OtherNews
<1>16. Terms(c, ms) BY <1>3, <1>6, <1>8 DEF Terms
<1>17. RowsOK(k, c, ms, t2, log2, deliverables)
  BY <1>4, <1>6, <1>8, <1>13, <1>14, <1>15, <1>16 DEF RowsOK, TableTypes
<1>18. milestones' = [milestones EXCEPT ![k] = ms] BY <1>3, <1>4, <1>5 DEF TableTypes
<1>19. OthersRead
  <2>1. work' \in [Requests -> WorkRecs] /\ \A s \in Requests : work'[s] = work[s] BY <1>3, <1>4 DEF TableTypes
  <2>2. ASSUME NEW s \in Requests PROVE ReadStill(work[s], contract', milestones')
    <3>1. ReadStill(work[s], contract, milestones) /\ work[s] \in WorkRecs BY <1>4 DEF HiringIInv, TableTypes
    <3>2. work[s].lock # k BY <1>3 DEF Hiring!RowFree
    <3> QED BY <1>3, <1>4, <1>7, <3>1, <3>2, OthersKeep
  <2> QED BY <2>1, <2>2 DEF OthersRead
<1>20. timeline' = [timeline EXCEPT ![k] = t2] /\ contractOutbox' = [contractOutbox EXCEPT ![k] = log2] BY <1>3, <1>5, <1>12
<1>21. UNCHANGED <<project, projectOutbox, proposal, proposalOutbox>> /\ deliverables' = deliverables BY <1>3 DEF Hiring!market
<1> QED BY <1>7, <1>17, <1>18, <1>19, <1>20, <1>21, ContractStep DEF RowsWritten

(* The second step of a dispute, with the status read by the first. *)
LEMMA RaiseDisputeStep ==
  ASSUME HiringConstants, HiringIInv, NEW r \in Requests, Hiring!RaiseDispute(r)
  PROVE  HiringIInv'
<1>1. PICK w, k : w = work[r] /\ k = w.lock OBVIOUS
<1>2. w.op = "dispute" BY <1>1 DEF Hiring!RaiseDispute
<1>3. TableTypes /\ ReadStill(w, contract, milestones) BY <1>1 DEF HiringIInv
<1>4. w \in WorkRecs BY <1>1, <1>3 DEF TableTypes
<1>5. w \in Disputing BY <1>2, <1>4 DEF WorkRecs, Creating, Moving, Disputing, Hiring!Idle
<1>6. k \in Contracts BY <1>1, <1>5 DEF Disputing
<1>7. PICK old : old = contract[k] OBVIOUS
<1>8. old # None /\ old.status = w.from BY <1>1, <1>2, <1>3, <1>7 DEF ReadStill
<1>9. PICK c, e, o, idle : /\ c = [old EXCEPT !.status = "disputed"] /\ e = Hiring!ContractEvent("dispute", w.from, "disputed")
                           /\ o = [type |-> "contract.disputed", seq |-> 0] /\ idle = Hiring!Idle
  OBVIOUS
<1>10. /\ contract' = [contract EXCEPT ![k] = c]
       /\ timeline' = [timeline EXCEPT ![k] = Append(timeline[k], e)]
       /\ contractOutbox' = [contractOutbox EXCEPT ![k] = Append(contractOutbox[k], o)]
       /\ work' = [work EXCEPT ![r] = idle]
       /\ UNCHANGED <<Hiring!market, milestones, deliverables>>
  BY <1>1, <1>7, <1>9 DEF Hiring!RaiseDispute, Hiring!InsertContractEvent, Hiring!Enqueue, Hiring!Commit
<1>11. PICK ms, t, log : ms = milestones[k] /\ t = timeline[k] /\ log = contractOutbox[k] OBVIOUS
<1>12. /\ old \in ContractRecs /\ ms \in Seq(MilestoneRecs) /\ t \in Seq(TimelineRecs) /\ log \in Seq(ContractNews)
       /\ Story(old, t, log) /\ Terms(old, ms)
       /\ \A i \in DOMAIN ms : i \in 1 .. MaxSeq /\ MilestoneStory(ms[i].status, CountOf(log, ApprovalOf(i)), deliverables[<<k, i>>])
  BY <1>3, <1>6, <1>7, <1>8, <1>11 DEF HiringIInv, TableTypes
<1>13. /\ c \in ContractRecs /\ c.status = "disputed" /\ c.proposal = old.proposal /\ c.client = old.client
       /\ c.freelancer = old.freelancer /\ c.kind = old.kind /\ c.price = old.price
  BY <1>9, <1>12 DEF ContractRecs, ContractStates
<1>14. c # None BY <1>13 DEF HiringConstants
<1>15. e \in TimelineRecs /\ e.from = old.status /\ e.to = c.status /\ e.event = "dispute"
  BY <1>8, <1>9, <1>12, <1>13 DEF Hiring!ContractEvent, TimelineRecs, ContractStates, ContractRecs
<1>16. o \in ContractNews /\ o.type = NewsOf(e.event) /\ o.type # "milestone.approved" BY <1>9, <1>15 DEF ContractNews, NewsOf
<1>17. PICK t2, log2 : t2 = Append(t, e) /\ log2 = Append(log, o) OBVIOUS
<1>18. Story(c, t2, log2) BY <1>8, <1>12, <1>14, <1>15, <1>16, <1>17, StoryMoves
<1>19. t2 \in Seq(TimelineRecs) /\ log2 \in Seq(ContractNews) BY <1>12, <1>15, <1>16, <1>17, LogAppend
<1>20. \A i : CountOf(log2, ApprovalOf(i)) = CountOf(log, ApprovalOf(i)) BY <1>12, <1>16, <1>17, OtherNews
<1>21. Terms(c, ms) BY <1>8, <1>12, <1>13 DEF Terms
<1>22. RowsOK(k, c, ms, t2, log2, deliverables)
  BY <1>3, <1>12, <1>13, <1>18, <1>19, <1>20, <1>21 DEF RowsOK, TableTypes
<1>23. milestones' = [milestones EXCEPT ![k] = ms] BY <1>3, <1>10, <1>11 DEF TableTypes
<1>24. OthersRead
  <2>1. work' \in [Requests -> WorkRecs] /\ work'[r] = Hiring!Idle /\ \A s \in Requests \ {r} : work'[s] = work[s]
    BY <1>3, <1>9, <1>10 DEF TableTypes, WorkRecs
  <2>2. ASSUME NEW s \in Requests, s # r PROVE ReadStill(work[s], contract', milestones')
    <3>1. ReadStill(work[s], contract, milestones) /\ work[s] \in WorkRecs BY <1>3 DEF HiringIInv, TableTypes
    <3>2. work[s].lock # k BY <1>1, <1>6, <2>2 DEF HiringIInv, HiringConstants, Hiring!ContractsConstants
    <3> QED BY <1>3, <1>6, <1>10, <3>1, <3>2, OthersKeep
  <2> QED BY <2>1, <2>2 DEF OthersRead
<1>25. timeline' = [timeline EXCEPT ![k] = t2] /\ contractOutbox' = [contractOutbox EXCEPT ![k] = log2] BY <1>10, <1>11, <1>17
<1>26. UNCHANGED <<project, projectOutbox, proposal, proposalOutbox>> /\ deliverables' = deliverables BY <1>10 DEF Hiring!market
<1>27. contract' = [contract EXCEPT ![k] = c] BY <1>10
<1> QED BY <1>6, <1>22, <1>23, <1>24, <1>25, <1>26, <1>27, ContractStep DEF RowsWritten

(* What milestone i of contract k may bring along when it moves. *)
MilestoneMay(k, i, to, log, d) ==
  /\ log \in Seq(ContractNews) /\ d \in [Hiring!MilestoneRows -> Nat]
  /\ \A m \in Hiring!MilestoneRows : m # <<k, i>> => d[m] = deliverables[m]
  /\ Story(contract[k], timeline[k], log)
  /\ \A j : j # i => CountOf(log, ApprovalOf(j)) = CountOf(contractOutbox[k], ApprovalOf(j))
  /\ MilestoneStory(to, CountOf(log, ApprovalOf(i)), d[<<k, i>>])

(* A milestone row moves to the next status, and its lock is released. *)
LEMMA MilestoneMoves ==
  ASSUME HiringConstants, HiringIInv, UNCHANGED <<project, projectOutbox, proposal, proposalOutbox>>,
         NEW r \in Requests, NEW k \in Contracts, NEW i \in 1 .. MaxSeq, work[r].lock = <<k, i>>,
         work[r].op \in {"fund", "submit", "approve"}, NEW to \in {"funded", "submitted", "approved"},
         milestones' = [milestones EXCEPT ![k][i].status = to], UNCHANGED <<contract, timeline>>,
         NEW log, contractOutbox' = [contractOutbox EXCEPT ![k] = log], NEW d, deliverables' = d,
         MilestoneMay(k, i, to, log, d),
         work' = [work EXCEPT ![r] = Hiring!Idle]
  PROVE  HiringIInv'
<1>1. TableTypes /\ ReadStill(work[r], contract, milestones) BY DEF HiringIInv
<1>2. PICK c, t, old : c = contract[k] /\ t = timeline[k] /\ old = milestones[k] OBVIOUS
<1>3. i \in DOMAIN old BY <1>1, <1>2 DEF ReadStill
<1>4. /\ old \in Seq(MilestoneRecs) /\ t \in Seq(TimelineRecs) /\ Terms(c, old)
      /\ \A j \in DOMAIN old : j \in 1 .. MaxSeq /\ MilestoneStory(old[j].status, CountOf(contractOutbox[k], ApprovalOf(j)), deliverables[<<k, j>>])
  BY <1>1, <1>2 DEF HiringIInv, TableTypes
<1>5. c # None
  <2>1. old # <<>> BY <1>3
  <2> QED BY <1>2, <2>1 DEF HiringIInv, Unborn
<1>6. c \in ContractRecs BY <1>1, <1>2, <1>5 DEF TableTypes
<1>7. PICK m : m = [old[i] EXCEPT !.status = to] OBVIOUS
<1>8. PICK ms : ms = [old EXCEPT ![i] = m] OBVIOUS
<1>9. milestones' = [milestones EXCEPT ![k] = ms] BY <1>2, <1>7, <1>8
<1>10. old[i] \in MilestoneRecs BY <1>3, <1>4
<1>11. m \in MilestoneRecs /\ m.status = to /\ m.amount = old[i].amount BY <1>7, <1>10 DEF MilestoneRecs
<1>12. ms \in Seq(MilestoneRecs) /\ DOMAIN ms = DOMAIN old /\ ms[i] = m /\ \A j \in DOMAIN old : j # i => ms[j] = old[j]
  BY <1>3, <1>4, <1>8, <1>11
<1>13. Terms(c, ms)
  <2>1. \A j \in DOMAIN old : AmountsOf(ms)[j] = AmountsOf(old)[j] BY <1>3, <1>11, <1>12 DEF AmountsOf
  <2>2. SumCents(DOMAIN ms, AmountsOf(ms)) = SumCents(DOMAIN old, AmountsOf(old)) BY <1>12, <2>1, SumSame
  <2> QED BY <1>4, <2>2 DEF Terms
<1>14. Story(c, t, log) /\ log \in Seq(ContractNews) /\ d \in [Hiring!MilestoneRows -> Nat] BY <1>2 DEF MilestoneMay
<1>15. \A x \in Hiring!MilestoneRows : x[1] # k => d[x] = deliverables[x] BY DEF MilestoneMay
<1>16. \A j \in DOMAIN ms : j \in 1 .. MaxSeq /\ MilestoneStory(ms[j].status, CountOf(log, ApprovalOf(j)), d[<<k, j>>])
  <2> SUFFICES ASSUME NEW j \in DOMAIN ms
               PROVE j \in 1 .. MaxSeq /\ MilestoneStory(ms[j].status, CountOf(log, ApprovalOf(j)), d[<<k, j>>])
    OBVIOUS
  <2>1. j \in 1 .. MaxSeq /\ j \in DOMAIN old BY <1>4, <1>12
  <2>2. CASE j = i BY <1>11, <1>12, <2>1, <2>2 DEF MilestoneMay
  <2>3. CASE j # i
    <3>1. <<k, j>> # <<k, i>> /\ <<k, j>> \in Hiring!MilestoneRows BY <2>1, <2>3 DEF Hiring!MilestoneRows
    <3>2. /\ d[<<k, j>>] = deliverables[<<k, j>>]
          /\ CountOf(log, ApprovalOf(j)) = CountOf(contractOutbox[k], ApprovalOf(j))
      BY <2>3, <3>1 DEF MilestoneMay
    <3>3. ms[j] = old[j] BY <1>12, <2>1, <2>3
    <3> QED BY <1>4, <2>1, <2>3, <3>2, <3>3
  <2> QED BY <2>2, <2>3
<1>17. RowsOK(k, c, ms, t, log, d) BY <1>4, <1>6, <1>12, <1>13, <1>14, <1>15, <1>16 DEF RowsOK
<1>18. contract' = [contract EXCEPT ![k] = c] /\ timeline' = [timeline EXCEPT ![k] = t] BY <1>1, <1>2 DEF TableTypes
<1>19. OthersRead
  <2>1. work' \in [Requests -> WorkRecs] /\ work'[r] = Hiring!Idle /\ \A s \in Requests \ {r} : work'[s] = work[s]
    BY <1>1 DEF TableTypes, WorkRecs
  <2>2. ASSUME NEW s \in Requests, s # r PROVE ReadStill(work[s], contract', milestones')
    <3>1. ReadStill(work[s], contract, milestones) /\ work[s] \in WorkRecs BY <1>1 DEF HiringIInv, TableTypes
    <3>2. work[s].lock # <<k, i>>
      <4>1. <<k, i>> \in Hiring!MilestoneRows BY DEF Hiring!MilestoneRows
      <4> QED BY <2>2, <4>1 DEF HiringIInv, HiringConstants
    <3>3. CASE work[s].op \in {"fund", "submit", "approve"}
      <4>1. work[s] \in Moving BY <3>1, <3>3 DEF WorkRecs, Creating, Moving, Disputing, Hiring!Idle
      <4>2. PICK q \in Contracts, j \in 1 .. MaxSeq : work[s].lock = <<q, j>> BY <4>1 DEF Moving, Hiring!MilestoneRows
      <4>3. j \in DOMAIN milestones[q] /\ milestones[q][j].status = From(work[s].op) BY <3>1, <3>3, <4>2 DEF ReadStill
      <4>4. q # k \/ j # i BY <3>2, <4>2
      <4>5. j \in DOMAIN milestones'[q] /\ milestones'[q][j] = milestones[q][j]
        <5>1. CASE q = k
          <6>1. milestones'[q] = ms BY <1>1, <1>9, <5>1 DEF TableTypes
          <6> QED BY <1>2, <1>12, <4>3, <4>4, <5>1, <6>1
        <5>2. CASE q # k
          <6>1. milestones'[q] = milestones[q] BY <1>1, <1>9, <5>2 DEF TableTypes
          <6> QED BY <4>3, <6>1
        <5> QED BY <5>1, <5>2
      <4>6. work[s].lock[1] = q /\ work[s].lock[2] = j /\ work[s].op # "dispute" BY <3>3, <4>2
      <4> QED BY <4>3, <4>5, <4>6 DEF ReadStill
    <3>4. CASE work[s].op \notin {"fund", "submit", "approve"} BY <3>1, <3>4 DEF ReadStill
    <3> QED BY <3>3, <3>4
  <2> QED BY <2>1, <2>2 DEF OthersRead
<1>20. HiringConstants /\ HiringIInv /\ contractOutbox' = [contractOutbox EXCEPT ![k] = log] /\ deliverables' = d
       /\ UNCHANGED <<project, projectOutbox, proposal, proposalOutbox>>
  OBVIOUS
<1>21. RowsWritten(k, c, ms, t, log, d) BY <1>9, <1>18, <1>20 DEF RowsWritten
<1> QED BY <1>17, <1>19, <1>20, <1>21, ContractStep

(* The row that a milestone request holds. *)
LEMMA MilestoneHeld ==
  ASSUME HiringIInv, NEW r \in Requests, NEW op \in {"fund", "submit", "approve"}, work[r].op = op
  PROVE  \E k \in Contracts, i \in 1 .. MaxSeq :
           /\ work[r].lock = <<k, i>> /\ i \in DOMAIN milestones[k] /\ milestones[k][i].status = From(op)
           /\ MilestoneStory(From(op), CountOf(contractOutbox[k], ApprovalOf(i)), deliverables[<<k, i>>])
           /\ <<k, i>> \in Hiring!MilestoneRows /\ contract[k] # None
<1>1. TableTypes /\ ReadStill(work[r], contract, milestones) BY DEF HiringIInv
<1>2. work[r] \in WorkRecs BY <1>1 DEF TableTypes
<1>3. work[r] \in Moving BY <1>2 DEF WorkRecs, Creating, Moving, Disputing, Hiring!Idle
<1>4. PICK k \in Contracts, i \in 1 .. MaxSeq : work[r].lock = <<k, i>> BY <1>3 DEF Moving, Hiring!MilestoneRows
<1>5. i \in DOMAIN milestones[k] /\ milestones[k][i].status = From(op) BY <1>1, <1>4 DEF ReadStill
<1>6. MilestoneStory(From(op), CountOf(contractOutbox[k], ApprovalOf(i)), deliverables[<<k, i>>]) BY <1>5 DEF HiringIInv
<1>7. contract[k] # None
  <2>1. milestones[k] # <<>> BY <1>5
  <2> QED BY <2>1 DEF HiringIInv, Unborn
<1> QED BY <1>4, <1>5, <1>6, <1>7 DEF Hiring!MilestoneRows

(* The three milestone transitions. *)
LEMMA FundStep ==
  ASSUME HiringConstants, HiringIInv, NEW r \in Requests, NEW u, Hiring!FundMilestone(r, u)
  PROVE  HiringIInv'
<1>1. work[r].op = "fund" BY DEF Hiring!FundMilestone
<1>2. PICK k \in Contracts, i \in 1 .. MaxSeq :
           /\ work[r].lock = <<k, i>> /\ i \in DOMAIN milestones[k] /\ milestones[k][i].status = From("fund")
           /\ MilestoneStory(From("fund"), CountOf(contractOutbox[k], ApprovalOf(i)), deliverables[<<k, i>>])
           /\ <<k, i>> \in Hiring!MilestoneRows /\ contract[k] # None
  BY <1>1, MilestoneHeld
<1>3. work[r].lock[1] = k /\ work[r].lock[2] = i BY <1>2
<1>4. /\ milestones' = [milestones EXCEPT ![k][i].status = "funded"] /\ work' = [work EXCEPT ![r] = Hiring!Idle]
      /\ UNCHANGED <<Hiring!market, contract, deliverables, timeline, contractOutbox>>
  BY <1>3 DEF Hiring!FundMilestone, Hiring!UpdateMilestone, Hiring!Commit
<1>5. PICK log : log = contractOutbox[k] OBVIOUS
<1>6. TableTypes /\ Story(contract[k], timeline[k], log) BY <1>5 DEF HiringIInv
<1>7. log \in Seq(ContractNews) /\ deliverables \in [Hiring!MilestoneRows -> Nat] BY <1>5, <1>6 DEF TableTypes
<1>8. MilestoneStory("funded", CountOf(log, ApprovalOf(i)), deliverables[<<k, i>>]) BY <1>2, <1>5 DEF MilestoneStory, From
<1>9. MilestoneMay(k, i, "funded", log, deliverables) BY <1>5, <1>6, <1>7, <1>8 DEF MilestoneMay
<1>10. contractOutbox' = [contractOutbox EXCEPT ![k] = log] BY <1>4, <1>5, <1>6 DEF TableTypes
<1>11. deliverables' = deliverables /\ UNCHANGED <<project, projectOutbox, proposal, proposalOutbox>> /\ UNCHANGED <<contract, timeline>>
  BY <1>4 DEF Hiring!market
<1> QED BY <1>1, <1>2, <1>4, <1>9, <1>10, <1>11, MilestoneMoves

(* The freelancer submits, with a deliverable or without. *)
LEMMA SubmitStep ==
  ASSUME HiringConstants, HiringIInv, NEW r \in Requests, NEW u, NEW withWork \in BOOLEAN, Hiring!SubmitMilestone(r, u, withWork)
  PROVE  HiringIInv'
<1>1. work[r].op = "submit" BY DEF Hiring!SubmitMilestone
<1>2. PICK k \in Contracts, i \in 1 .. MaxSeq :
           /\ work[r].lock = <<k, i>> /\ i \in DOMAIN milestones[k] /\ milestones[k][i].status = From("submit")
           /\ MilestoneStory(From("submit"), CountOf(contractOutbox[k], ApprovalOf(i)), deliverables[<<k, i>>])
           /\ <<k, i>> \in Hiring!MilestoneRows /\ contract[k] # None
  BY <1>1, MilestoneHeld
<1>3. work[r].lock[1] = k /\ work[r].lock[2] = i BY <1>2
<1>4. PICK d : d = IF withWork THEN [deliverables EXCEPT ![<<k, i>>] = deliverables[<<k, i>>] + 1] ELSE deliverables OBVIOUS
<1>5. /\ milestones' = [milestones EXCEPT ![k][i].status = "submitted"] /\ work' = [work EXCEPT ![r] = Hiring!Idle]
      /\ deliverables' = d /\ UNCHANGED <<Hiring!market, contract, timeline, contractOutbox>>
  BY <1>2, <1>3, <1>4 DEF Hiring!SubmitMilestone, Hiring!UpdateMilestone, Hiring!InsertDeliverable, Hiring!Commit
<1>6. PICK log : log = contractOutbox[k] OBVIOUS
<1>7. TableTypes /\ Story(contract[k], timeline[k], log) BY <1>6 DEF HiringIInv
<1>8. log \in Seq(ContractNews) /\ deliverables \in [Hiring!MilestoneRows -> Nat] BY <1>6, <1>7 DEF TableTypes
<1>9. CountOf(log, ApprovalOf(i)) = 0 /\ deliverables[<<k, i>>] = 0
  <2>1. deliverables[<<k, i>>] \in Nat BY <1>2, <1>8
  <2> QED BY <1>2, <1>6, <2>1 DEF MilestoneStory, From
<1>10. /\ d \in [Hiring!MilestoneRows -> Nat] /\ d[<<k, i>>] <= 1
       /\ \A m \in Hiring!MilestoneRows : m # <<k, i>> => d[m] = deliverables[m]
  <2>1. CASE withWork BY <1>2, <1>4, <1>8, <1>9, <2>1
  <2>2. CASE ~withWork BY <1>2, <1>4, <1>8, <1>9, <2>2
  <2> QED BY <2>1, <2>2
<1>11. MilestoneStory("submitted", CountOf(log, ApprovalOf(i)), d[<<k, i>>]) BY <1>9, <1>10 DEF MilestoneStory
<1>12. MilestoneMay(k, i, "submitted", log, d) BY <1>6, <1>7, <1>8, <1>10, <1>11 DEF MilestoneMay
<1>13. contractOutbox' = [contractOutbox EXCEPT ![k] = log] BY <1>5, <1>6, <1>7 DEF TableTypes
<1>14. deliverables' = d /\ UNCHANGED <<project, projectOutbox, proposal, proposalOutbox>> /\ UNCHANGED <<contract, timeline>>
  BY <1>5 DEF Hiring!market
<1> QED BY <1>1, <1>2, <1>5, <1>12, <1>13, <1>14, MilestoneMoves

(* The client approves, and the approval is announced. *)
LEMMA ApproveStep ==
  ASSUME HiringConstants, HiringIInv, NEW r \in Requests, NEW u, Hiring!ApproveMilestone(r, u)
  PROVE  HiringIInv'
<1>1. work[r].op = "approve" BY DEF Hiring!ApproveMilestone
<1>2. PICK k \in Contracts, i \in 1 .. MaxSeq :
           /\ work[r].lock = <<k, i>> /\ i \in DOMAIN milestones[k] /\ milestones[k][i].status = From("approve")
           /\ MilestoneStory(From("approve"), CountOf(contractOutbox[k], ApprovalOf(i)), deliverables[<<k, i>>])
           /\ <<k, i>> \in Hiring!MilestoneRows /\ contract[k] # None
  BY <1>1, MilestoneHeld
<1>3. work[r].lock[1] = k /\ work[r].lock[2] = i BY <1>2
<1>4. PICK old, o : old = contractOutbox[k] /\ o = ApprovalOf(i) OBVIOUS
<1>5. PICK log : log = Append(old, o) OBVIOUS
<1>6. /\ milestones' = [milestones EXCEPT ![k][i].status = "approved"] /\ work' = [work EXCEPT ![r] = Hiring!Idle]
      /\ contractOutbox' = [contractOutbox EXCEPT ![k] = log]
      /\ UNCHANGED <<Hiring!market, contract, timeline, deliverables>>
  BY <1>3, <1>4, <1>5 DEF Hiring!ApproveMilestone, Hiring!UpdateMilestone, Hiring!Enqueue, Hiring!Commit, ApprovalOf
<1>7. TableTypes /\ Story(contract[k], timeline[k], old) BY <1>4 DEF HiringIInv
<1>8. old \in Seq(ContractNews) /\ deliverables \in [Hiring!MilestoneRows -> Nat] BY <1>4, <1>7 DEF TableTypes
<1>9. o \in ContractNews /\ o.type = "milestone.approved" BY <1>4 DEF ApprovalOf, ContractNews
<1>10. log \in Seq(ContractNews) BY <1>5, <1>8, <1>9, LogAppend
<1>11. Story(contract[k], timeline[k], log) BY <1>2, <1>5, <1>7, <1>8, <1>9, StoryApproved
<1>12. \A j : CountOf(old, ApprovalOf(j)) \in Nat /\ CountOf(log, ApprovalOf(j)) = CountOf(old, ApprovalOf(j)) + IF j = i THEN 1 ELSE 0
  <2> SUFFICES ASSUME NEW j
               PROVE CountOf(old, ApprovalOf(j)) \in Nat /\ CountOf(log, ApprovalOf(j)) = CountOf(old, ApprovalOf(j)) + IF j = i THEN 1 ELSE 0
    OBVIOUS
  <2>1. PICK a : a = ApprovalOf(j) OBVIOUS
  <2>2. CountOf(old, a) \in Nat /\ CountOf(log, a) = CountOf(old, a) + IF o = a THEN 1 ELSE 0 BY <1>5, <1>8, <1>9, CountAppend
  <2>3. o = a <=> j = i BY <1>4, <2>1 DEF ApprovalOf
  <2> QED BY <2>1, <2>2, <2>3
<1>13. CountOf(log, ApprovalOf(i)) = 1
  <2>1. CountOf(old, ApprovalOf(i)) = 0 BY <1>2, <1>4 DEF MilestoneStory, From
  <2> QED BY <1>12, <2>1
<1>14. MilestoneStory("approved", CountOf(log, ApprovalOf(i)), deliverables[<<k, i>>]) BY <1>2, <1>13 DEF MilestoneStory, From
<1>15. \A j : j # i => CountOf(log, ApprovalOf(j)) = CountOf(contractOutbox[k], ApprovalOf(j)) BY <1>4, <1>12
<1>16. MilestoneMay(k, i, "approved", log, deliverables) BY <1>8, <1>10, <1>11, <1>14, <1>15 DEF MilestoneMay
<1>17. deliverables' = deliverables /\ UNCHANGED <<project, projectOutbox, proposal, proposalOutbox>> /\ UNCHANGED <<contract, timeline>>
  BY <1>6 DEF Hiring!market
<1> QED BY <1>1, <1>2, <1>6, <1>16, <1>17, MilestoneMoves

(* The invariant holds at first, *)
LEMMA HiringInit ==
  ASSUME HiringConstants, Hiring!Init
  PROVE  HiringIInv
<1>1. MarketInv BY DEF Hiring!Init, Hiring!InitMarketplace, MarketInv, MarketTypes, Offers, ProjectStory, ProposalStory
<1>2. TableTypes BY DEF Hiring!Init, TableTypes, WorkRecs
<1>3. /\ \A k \in Contracts : contract[k] = None /\ milestones[k] = <<>> /\ timeline[k] = <<>> /\ contractOutbox[k] = <<>>
      /\ \A m \in Hiring!MilestoneRows : deliverables[m] = 0
      /\ \A r \in Requests : work[r] = Hiring!Idle
  BY DEF Hiring!Init
<1>4. \A k \in Contracts : Terms(contract[k], milestones[k]) /\ Story(contract[k], timeline[k], contractOutbox[k]) BY <1>3 DEF Terms, Story
<1>5. \A k \in Contracts : Unborn(k) BY <1>3 DEF Unborn, Hiring!MilestoneRows
<1>6. \A k \in Contracts : DOMAIN milestones[k] = {} BY <1>3
<1>7. Asked(Hiring!Idle) /\ ReadStill(Hiring!Idle, contract, milestones) /\ Hiring!Idle.lock = None BY DEF Asked, ReadStill, Hiring!Idle
<1> QED BY <1>1, <1>2, <1>3, <1>4, <1>5, <1>6, <1>7 DEF HiringIInv

(* and every step keeps it. *)
LEMMA HiringStep ==
  ASSUME HiringConstants, HiringIInv, [Hiring!Next]_Hiring!vars
  PROVE  HiringIInv'
<1>1. CASE Hiring!MarketplaceNext /\ UNCHANGED <<Hiring!tables, work>>
  <2>1. MarketInv' /\ MarketGrows BY <1>1, MarketStep DEF HiringIInv
  <2> QED BY <1>1, <2>1, MarketOnly DEF Hiring!tables
<1>2. CASE UNCHANGED Hiring!vars
  <2>1. UNCHANGED <<project, projectOutbox, proposal, proposalOutbox>> /\ UNCHANGED <<contract, milestones, deliverables, timeline, contractOutbox, work>>
    BY <1>2 DEF Hiring!vars, Hiring!market, Hiring!tables
  <2>2. MarketInv' /\ MarketGrows BY <2>1, MarketStill DEF HiringIInv
  <2> QED BY <2>1, <2>2, MarketOnly
<1>3. CASE Hiring!ContractsNext
  <2>1. ASSUME NEW r \in Requests, NEW u \in Hiring!Callers,
               \/ \E b \in Projects \X Hiring!Users, kind \in {"fixed", "hourly", "other"}, amounts \in Breakdowns :
                    Hiring!LookupProposal(r, u, b, kind, amounts)
               \/ Hiring!FundMilestone(r, u)
               \/ \E withWork \in BOOLEAN : Hiring!SubmitMilestone(r, u, withWork)
               \/ Hiring!ApproveMilestone(r, u)
               \/ \E k \in Contracts, against \in Hiring!Callers : Hiring!CurrentStatus(r, k, u, against)
        PROVE  HiringIInv'
    BY <2>1, LookupStep, FundStep, SubmitStep, ApproveStep, CurrentStatusStep DEF Offers
  <2>2. ASSUME NEW r \in Requests, NEW m \in Hiring!MilestoneRows,
               \/ Hiring!milestoneInfo(r, "fund", m, "pending")
               \/ Hiring!milestoneInfo(r, "submit", m, "funded")
               \/ Hiring!milestoneInfo(r, "approve", m, "submitted")
        PROVE  HiringIInv'
    <3>1. From("fund") = "pending" /\ From("submit") = "funded" /\ From("approve") = "submitted" BY DEF From
    <3> QED BY <2>2, <3>1, MilestoneInfoStep
  <2>3. ASSUME NEW r \in Requests,
               (\E k \in Contracts : Hiring!CreateFromProposal(r, k)) \/ Hiring!RaiseDispute(r) \/ Hiring!Rollback(r)
        PROVE  HiringIInv'
    BY <2>3, CreateFromProposalStep, RaiseDisputeStep, HiringRollback
  <2>4. ASSUME NEW k \in Contracts, NEW u \in Hiring!Callers, Hiring!ActivateContract(k, u) PROVE HiringIInv'
    BY <2>4, ActivateStep
  <2> QED BY <1>3, <2>1, <2>2, <2>3, <2>4 DEF Hiring!ContractsNext
<1> QED BY <1>1, <1>2, <1>3 DEF Hiring!Next

(* So the invariant of hiring always holds. *)
LEMMA HiringInvariant ==
  ASSUME HiringConstants
  PROVE  Hiring!Spec => []HiringIInv
<1>1. Hiring!Init => HiringIInv BY HiringInit
<1>2. HiringIInv /\ [Hiring!Next]_Hiring!vars => HiringIInv' BY HiringStep
<1> QED BY <1>1, <1>2, PTL DEF Hiring!Spec

(* The behaviours of the project, proposal and contract services. *)
LEMMA HiringPart == ServicesSpec => []~(part = "hiring") \/ ([](part = "hiring") /\ Hiring!Spec)
<1>1. ServicesInit /\ part = "hiring" => Hiring!Init BY DEF ServicesInit
<1>2. part = "hiring" /\ [ServicesNext]_allVars => (part = "hiring")' /\ [Hiring!Next]_(Hiring!vars)
  <2>1. part = "hiring" /\ ServicesNext => part' = "hiring" /\ Hiring!Next BY DEF ServicesNext
  <2>2. UNCHANGED allVars => UNCHANGED part /\ UNCHANGED Hiring!vars
    BY DEF allVars, hiringVars, Hiring!vars, Hiring!market, Hiring!tables
  <2> QED BY <2>1, <2>2
<1>3. ~(part = "hiring") /\ [ServicesNext]_allVars => (~(part = "hiring"))' BY DEF ServicesNext, allVars
<1> QED BY <1>1, <1>2, <1>3, PTL DEF ServicesSpec, Hiring!Spec

(* The lists of projects and proposals agree with the events announced. *)
THEOREM HiringLists ==
  ASSUME HiringConstants
  PROVE  ServicesSpec => []ListsFollowEvents
<1>1. HiringIInv => Hiring!ListsFollowEvents BY ListsForm DEF HiringIInv
<1> QED BY <1>1, HiringInvariant, HiringPart, PTL DEF ListsFollowEvents

(* The timeline a party reads explains the contract's status. *)
THEOREM ContractTimeline ==
  ASSUME HiringConstants
  PROVE  ServicesSpec => []TimelineExplainsStatus
<1>1. HiringIInv => Hiring!TimelineExplainsStatus
  <2> SUFFICES ASSUME HiringIInv, NEW k \in Contracts, contract[k] # None, NEW u \in Hiring!Parties(k)
               PROVE LET t == Hiring!ContractEvents(k, u)
                         last == Len(contractOutbox[k]) IN
                     /\ t # <<>> /\ t[1].from = None /\ Hiring!LastOf(t).to = Hiring!ContractParties(k).status
                     /\ \A i \in 2..Len(t) : t[i].from = t[i - 1].to
                     /\ Hiring!Cardinality(Hiring!Told(k, last)) = Len(t) - 1
                     /\ \A n \in Hiring!Told(k, last) :
                          LET event == t[Hiring!Cardinality(Hiring!Told(k, n)) + 1].event IN
                          contractOutbox[k][n].type = IF event = "activate" THEN "contract.activated" ELSE "contract.disputed"
    BY DEF Hiring!TimelineExplainsStatus
  <2>1. contract[k] \in ContractRecs /\ Story(contract[k], timeline[k], contractOutbox[k]) BY DEF HiringIInv, TableTypes
  <2>2. u # None
    <3>1. u \in Hiring!Users BY <2>1 DEF Hiring!Parties, Hiring!GetContractTx, ContractRecs
    <3> QED BY <3>1 DEF HiringConstants, Hiring!ContractsConstants, Hiring!MarketplaceConstants, Hiring!Users
  <2>3. Hiring!ContractEvents(k, u) = timeline[k]
    BY <2>2 DEF Hiring!ContractEvents, Hiring!Identified, Hiring!requireParty, Hiring!ListContractEvents
  <2>4. \A n : Hiring!Told(k, n) = ToldIn(contractOutbox[k], n) BY DEF Hiring!Told, ToldIn
  <2>5. \A n : Hiring!Cardinality(Hiring!Told(k, n)) = Cardinality(ToldIn(contractOutbox[k], n)) BY <2>4, SumBridge
  <2>6. Hiring!ContractParties(k).status = contract[k].status BY DEF Hiring!ContractParties
  <2> QED BY <2>1, <2>3, <2>4, <2>5, <2>6 DEF Story, NewsOf, Hiring!LastOf
<1> QED BY <1>1, HiringInvariant, HiringPart, PTL DEF TimelineExplainsStatus

(* A contract is worth the bid it was made from. *)
THEOREM ContractTerms ==
  ASSUME HiringConstants
  PROVE  ServicesSpec => []ContractHonoursBid
<1>1. HiringIInv => Hiring!ContractHonoursBid
  <2> SUFFICES ASSUME HiringIInv, NEW u \in Hiring!Users, NEW k \in Hiring!ListForUser(u, "")
               PROVE LET view == Hiring!GetContract(k, u)  b == view.row.proposal  ms == view.milestones IN
                     /\ k \in Hiring!ListForUser(b[2], "freelancer") /\ b[2] # u
                     /\ Hiring!ProjectClientOf(b[1]) = u
                     /\ view.row.price = Hiring!GetProposal(b).row.bid
                     /\ view.row.kind = "fixed" => view.row.price = Hiring!SumCents(DOMAIN ms, [i \in DOMAIN ms |-> ms[i].amount])
    BY DEF Hiring!ContractHonoursBid
  <2>1. k \in Contracts /\ contract[k] # None /\ u = contract[k].client BY DEF Hiring!ListForUser
  <2>2. PICK c, ms : c = contract[k] /\ ms = milestones[k] OBVIOUS
  <2>3. c \in ContractRecs /\ Terms(c, ms) BY <2>1, <2>2 DEF HiringIInv, TableTypes
  <2>4. Hiring!GetContract(k, u) = [row |-> c, milestones |-> ms]
    <3>1. u # None BY DEF HiringConstants, Hiring!ContractsConstants, Hiring!MarketplaceConstants, Hiring!Users
    <3>2. u \in Hiring!Parties(k) BY <2>1 DEF Hiring!Parties, Hiring!GetContractTx
    <3> QED BY <2>1, <2>2, <3>1, <3>2 DEF Hiring!GetContract, Hiring!Identified, Hiring!requireParty, Hiring!ListMilestones
  <2>5. /\ HasBid(c.proposal, u, c.price) /\ c.freelancer = c.proposal[2] /\ u # c.freelancer
        /\ c.kind = "fixed" => c.price = SumCents(DOMAIN ms, AmountsOf(ms))
    BY <2>1, <2>2, <2>3 DEF Terms
  <2>6. k \in Hiring!ListForUser(c.proposal[2], "freelancer") BY <2>1, <2>2, <2>5 DEF Hiring!ListForUser
  <2>7. Hiring!ProjectClientOf(c.proposal[1]) = u /\ Hiring!GetProposal(c.proposal).row.bid = c.price
    BY <2>5 DEF HasBid, Hiring!ProjectClientOf, Hiring!GetProposal
  <2>8. Hiring!SumCents(DOMAIN ms, [i \in DOMAIN ms |-> ms[i].amount]) = SumCents(DOMAIN ms, AmountsOf(ms)) BY SumBridge DEF AmountsOf
  <2>9. PICK view : view = Hiring!GetContract(k, u) OBVIOUS
  <2>10. view.row = c /\ view.milestones = ms
    <3>1. view = [row |-> c, milestones |-> ms] BY <2>4, <2>9
    <3> HIDE <2>9
    <3> QED BY ONLY <3>1
  <2> QED BY <2>5, <2>6, <2>7, <2>8, <2>9, <2>10
<1> QED BY <1>1, HiringInvariant, HiringPart, PTL DEF ContractHonoursBid

(* A milestone's approval is announced once. *)
THEOREM MilestoneApprovedOnce ==
  ASSUME HiringConstants
  PROVE  ServicesSpec => []ApprovedOnce
<1>1. HiringIInv => Hiring!ApprovedOnce
  <2> SUFFICES ASSUME HiringIInv, NEW m \in Hiring!MilestoneRows, m[2] \in DOMAIN milestones[m[1]]
               PROVE /\ Hiring!CountOf(contractOutbox[m[1]], [type |-> "milestone.approved", seq |-> m[2]])
                          = IF milestones[m[1]][m[2]].status = "approved" THEN 1 ELSE 0
                     /\ deliverables[m] <= IF milestones[m[1]][m[2]].status \in {"submitted", "approved"} THEN 1 ELSE 0
    BY DEF Hiring!ApprovedOnce
  <2>1. PICK k \in Contracts, i \in 1 .. MaxSeq : m = <<k, i>> BY DEF Hiring!MilestoneRows
  <2>2. MilestoneStory(milestones[k][i].status, CountOf(contractOutbox[k], ApprovalOf(i)), deliverables[<<k, i>>])
    BY <2>1 DEF HiringIInv
  <2>3. Hiring!CountOf(contractOutbox[k], [type |-> "milestone.approved", seq |-> i]) = CountOf(contractOutbox[k], ApprovalOf(i))
    BY SumBridge DEF ApprovalOf
  <2>4. m[1] = k /\ m[2] = i BY <2>1
  <2> QED BY <2>1, <2>2, <2>3, <2>4 DEF MilestoneStory
<1> QED BY <1>1, HiringInvariant, HiringPart, PTL DEF ApprovedOnce

-----------------------------------------------------------------------------
(* Messages *)

Posts == [conv : Conversations, sender : Members, at : Nat]

ChatTypes ==
  /\ participants \in [Conversations -> SUBSET Members]
  /\ messages \in Seq(Posts)
  /\ lastMessageAt \in [Conversations -> Nat]
  /\ posting \in [Posters -> Posts \cup {None}]
  /\ clock \in Nat

(* Whoever posts takes part, now and later. *)
SenderTakesPart(p) == p.sender \in participants[p.conv]

Announced ==
  msgOutbox = [i \in DOMAIN messages |->
                 [id |-> i, conv |-> messages[i].conv, sender |-> messages[i].sender]]

History(cv) == {i \in DOMAIN messages : messages[i].conv = cv}

(* The conversation shows the time of its last message. *)
Touched(cv) ==
  IF History(cv) = {} THEN lastMessageAt[cv] = 0
  ELSE \E i \in History(cv) : (\A j \in History(cv) : j <= i) /\ lastMessageAt[cv] = messages[i].at

ChatIInv ==
  /\ ChatTypes /\ Announced
  /\ \A i \in DOMAIN messages : SenderTakesPart(messages[i])
  /\ \A x \in Posters : posting[x] # None => SenderTakesPart(posting[x])
  /\ \A cv \in Conversations : Touched(cv)

(* The invariant of the messaging service holds at first. *)
LEMMA ChatInit == Chat!InitMessaging => ChatIInv
<1> SUFFICES ASSUME Chat!InitMessaging PROVE ChatIInv OBVIOUS
<1>1. /\ participants = [cv \in Conversations |-> {}] /\ messages = <<>> /\ msgOutbox = <<>>
      /\ lastMessageAt = [cv \in Conversations |-> 0] /\ posting = [x \in Posters |-> None] /\ clock = 0
  BY DEF Chat!InitMessaging
<1>2. ChatTypes BY <1>1 DEF ChatTypes
<1>3. Announced BY <1>1 DEF Announced
<1>4. \A cv \in Conversations : Touched(cv) BY <1>1 DEF Touched, History
<1> QED BY <1>1, <1>2, <1>3, <1>4 DEF ChatIInv

(* Steps that leave the messages alone. *)
LEMMA ChatKept ==
  ASSUME ChatIInv, UNCHANGED <<messages, lastMessageAt, msgOutbox>>,
         participants' \in [Conversations -> SUBSET Members],
         \A cv \in Conversations : participants[cv] \subseteq participants'[cv],
         posting' \in [Posters -> Posts \cup {None}], clock' \in Nat,
         \A x \in Posters : posting'[x] # None =>
            posting'[x] = posting[x] \/ posting'[x].sender \in participants'[posting'[x].conv]
  PROVE  ChatIInv'
<1>1. ChatTypes' BY DEF ChatIInv, ChatTypes
<1>2. Announced' BY DEF ChatIInv, Announced
<1>3. ASSUME NEW i \in DOMAIN messages' PROVE SenderTakesPart(messages[i])'
  <2>1. messages[i] \in Posts /\ SenderTakesPart(messages[i]) BY DEF ChatIInv, ChatTypes
  <2> QED BY <2>1 DEF Posts, SenderTakesPart
<1>4. ASSUME NEW x \in Posters, posting'[x] # None PROVE SenderTakesPart(posting[x])'
  <2>1. CASE posting'[x] = posting[x]
    <3>1. posting[x] \in Posts /\ SenderTakesPart(posting[x]) BY <1>4, <2>1 DEF ChatIInv, ChatTypes
    <3> QED BY <2>1, <3>1 DEF Posts, SenderTakesPart
  <2> QED BY <1>4, <2>1 DEF SenderTakesPart
<1>5. \A cv \in Conversations : Touched(cv)' BY DEF ChatIInv, Touched, History
<1> QED BY <1>1, <1>2, <1>3, <1>4, <1>5 DEF ChatIInv

(* A conversation is created with its participants. *)
LEMMA CreateConversationStep ==
  ASSUME ChatIInv, NEW cv \in Conversations, NEW creator, NEW others, Chat!CreateConversation(cv, creator, others)
  PROVE  ChatIInv'
<1>1. /\ participants[cv] = {} /\ Chat!AddParticipants(creator, others) \subseteq Members
      /\ participants' = [participants EXCEPT ![cv] = Chat!AddParticipants(creator, others)]
      /\ UNCHANGED <<messages, lastMessageAt, msgOutbox, posting, clock>>
  BY DEF Chat!CreateConversation
<1>2. /\ participants' \in [Conversations -> SUBSET Members]
      /\ \A x \in Conversations : participants[x] \subseteq participants'[x]
  BY <1>1 DEF ChatIInv, ChatTypes
<1> QED BY <1>1, <1>2, ChatKept DEF ChatIInv, ChatTypes

(* A post checks its sender before its transaction. *)
LEMMA BeginPostStep ==
  ASSUME ChatIInv, NEW x \in Posters, NEW cv \in Conversations, NEW u \in Members, Chat!BeginPost(x, cv, u)
  PROVE  ChatIInv'
<1>1. PICK p : p = [conv |-> cv, sender |-> u, at |-> clock + 1] OBVIOUS
<1>2. /\ u \in participants[cv] /\ clock' = clock + 1 /\ posting' = [posting EXCEPT ![x] = p]
      /\ UNCHANGED <<participants, messages, lastMessageAt, msgOutbox>>
  BY <1>1 DEF Chat!BeginPost, Chat!IsParticipant
<1>3. ChatTypes /\ clock + 1 \in Nat BY DEF ChatIInv, ChatTypes
<1>4. p \in Posts /\ p.sender \in participants'[p.conv] BY <1>1, <1>2, <1>3 DEF Posts
<1>5. posting' \in [Posters -> Posts \cup {None}] /\ \A y \in Posters : posting'[y] = posting[y] \/ posting'[y] = p
  BY <1>2, <1>3, <1>4 DEF ChatTypes
<1> QED BY <1>2, <1>3, <1>4, <1>5, ChatKept DEF ChatTypes

(* A failed post leaves no message. *)
LEMMA RollbackPostStep ==
  ASSUME ChatIInv, NEW x \in Posters, Chat!RollbackPost(x)
  PROVE  ChatIInv'
<1>1. posting' = [posting EXCEPT ![x] = None] /\ UNCHANGED <<participants, messages, lastMessageAt, msgOutbox, clock>>
  BY DEF Chat!RollbackPost
<1>2. posting' \in [Posters -> Posts \cup {None}] /\ \A y \in Posters : posting'[y] = posting[y] \/ posting'[y] = None
  BY <1>1 DEF ChatIInv, ChatTypes
<1> QED BY <1>1, <1>2, ChatKept DEF ChatIInv, ChatTypes

(* A commit adds the message, its event and the time at once. *)
LEMMA CommitPostStep ==
  ASSUME ChatIInv, NEW x \in Posters, Chat!CommitPost(x)
  PROVE  ChatIInv'
<1>1. PICK p \in Posts : p = posting[x] /\ SenderTakesPart(p) BY DEF ChatIInv, ChatTypes, Chat!CommitPost
<1>2. /\ messages' = Append(messages, p) /\ lastMessageAt' = [lastMessageAt EXCEPT ![p.conv] = p.at]
      /\ msgOutbox' = Append(msgOutbox, [id |-> Len(messages) + 1, conv |-> p.conv, sender |-> p.sender])
      /\ posting' = [posting EXCEPT ![x] = None] /\ UNCHANGED <<participants, clock>>
  BY <1>1 DEF Chat!CommitPost, Chat!InsertMessage, Chat!TouchConversation
<1>3. ChatTypes /\ Announced /\ messages \in Seq(Posts) /\ Len(messages) \in Nat /\ DOMAIN messages = 1 .. Len(messages)
      /\ p.conv \in Conversations /\ p.at \in Nat /\ p.sender \in Members
  BY DEF ChatIInv, ChatTypes, Posts
<1> DEFINE n == Len(messages) + 1
<1>4. /\ messages' \in Seq(Posts) /\ DOMAIN messages' = 1 .. n /\ messages'[n] = p /\ Len(messages') = n
      /\ \A i \in 1 .. Len(messages) : messages'[i] = messages[i]
  BY <1>2, <1>3
<1>5. ChatTypes' BY <1>2, <1>3, <1>4 DEF ChatTypes
<1>6. Announced'
  <2> DEFINE e(i) == [id |-> i, conv |-> messages[i].conv, sender |-> messages[i].sender]
             d(i) == [id |-> i, conv |-> messages'[i].conv, sender |-> messages'[i].sender]
  <2>1. msgOutbox = [i \in 1 .. Len(messages) |-> e(i)] BY <1>3 DEF Announced
  <2>2. PICK last : last = [id |-> n, conv |-> p.conv, sender |-> p.sender] OBVIOUS
  <2>3. Len(msgOutbox) = Len(messages) BY <1>3, <2>1
  <2>4. msgOutbox' = [i \in 1 .. n |-> IF i = n THEN last ELSE msgOutbox[i]]
    BY <1>2, <1>3, <2>1, <2>2, <2>3
  <2>5. \A i \in 1 .. n : d(i) = IF i = n THEN last ELSE msgOutbox[i]
    <3>1. d(n) = last BY <1>4, <2>2
    <3>2. \A i \in 1 .. Len(messages) : d(i) = msgOutbox[i] BY <1>4, <2>1
    <3>3. \A i \in 1 .. n : i = n \/ i \in 1 .. Len(messages) BY <1>3
    <3>4. n \notin 1 .. Len(messages) BY <1>3
    <3> HIDE DEF d, n
    <3> QED BY <3>1, <3>2, <3>3, <3>4
  <2>6. msgOutbox' = [i \in 1 .. n |-> d(i)]
    <3> HIDE DEF d, n
    <3> QED BY <2>4, <2>5
  <2> QED BY <2>6, <1>4 DEF Announced
<1>7. \A i \in DOMAIN messages' : SenderTakesPart(messages[i])'
  <2>1. \A i \in 1 .. n : i = n \/ i \in 1 .. Len(messages) BY <1>3
  <2> QED BY <2>1, <1>1, <1>2, <1>3, <1>4 DEF ChatIInv, SenderTakesPart
<1>8. \A y \in Posters : posting'[y] # None => SenderTakesPart(posting[y])'
  BY <1>2, <1>3 DEF ChatIInv, ChatTypes, SenderTakesPart
<1>9. ASSUME NEW cv \in Conversations PROVE Touched(cv)'
  <2>1. n \in Nat /\ \A i \in 1 .. Len(messages) : i <= n /\ i # n BY <1>3
  <2>2. \A i \in 1 .. n : i = n \/ i \in 1 .. Len(messages) BY <1>3
  <2>3. CASE cv = p.conv
    <3>1. n \in History(cv)' /\ \A j \in History(cv)' : j <= n BY <1>4, <2>1, <2>2, <2>3 DEF History
    <3>2. lastMessageAt'[cv] = messages'[n].at BY <1>2, <1>3, <1>4, <2>3 DEF ChatTypes
    <3> HIDE DEF n
    <3> QED BY <3>1, <3>2 DEF Touched
  <2>4. CASE cv # p.conv
    <3>1. History(cv)' = History(cv) BY <1>3, <1>4, <2>1, <2>2, <2>4 DEF History
    <3>2. lastMessageAt'[cv] = lastMessageAt[cv] BY <1>2, <1>3, <2>4 DEF ChatTypes
    <3>3. \A i \in History(cv) : messages'[i] = messages[i] BY <1>3, <1>4 DEF History
    <3>4. Touched(cv) BY DEF ChatIInv
    <3> QED BY <3>1, <3>2, <3>3, <3>4 DEF Touched
  <2> QED BY <2>3, <2>4
<1> QED BY <1>5, <1>6, <1>7, <1>8, <1>9 DEF ChatIInv

(* So the invariant of the messaging service always holds. *)
LEMMA ChatInvariant == Chat!MessagingSpec => []ChatIInv
<1>1. Chat!InitMessaging => ChatIInv BY ChatInit
<1>2. ChatIInv /\ Chat!MessagingNext => ChatIInv'
  <2> SUFFICES ASSUME ChatIInv, Chat!MessagingNext PROVE ChatIInv' OBVIOUS
  <2>1. ASSUME UNCHANGED <<participants, messages, lastMessageAt, msgOutbox, posting, clock>> PROVE ChatIInv'
    BY <2>1, ChatKept DEF ChatIInv, ChatTypes
  <2> QED BY <2>1, CreateConversationStep, BeginPostStep, CommitPostStep, RollbackPostStep
          DEF Chat!MessagingNext, Chat!MarkRead, Chat!AddAttachment
<1>3. ChatIInv /\ UNCHANGED Chat!msgVars => ChatIInv' BY ChatKept DEF Chat!msgVars, ChatIInv, ChatTypes
<1> QED BY <1>1, <1>2, <1>3, PTL DEF Chat!MessagingSpec

(* The behaviours of the messaging service. *)
LEMMA ChatPart == ServicesSpec => []~(part = "messaging") \/ ([](part = "messaging") /\ Chat!MessagingSpec)
<1>1. ServicesInit /\ part = "messaging" => Chat!InitMessaging BY DEF ServicesInit
<1>2. part = "messaging" /\ [ServicesNext]_allVars => (part = "messaging")' /\ [Chat!MessagingNext]_(Chat!msgVars)
  <2>1. part = "messaging" /\ ServicesNext => part' = "messaging" /\ Chat!MessagingNext BY DEF ServicesNext
  <2>2. UNCHANGED allVars => UNCHANGED part /\ UNCHANGED Chat!msgVars
    BY DEF allVars, chatVars, sharedVars, Chat!msgVars
  <2> QED BY <2>1, <2>2
<1>3. ~(part = "messaging") /\ [ServicesNext]_allVars => (~(part = "messaging"))' BY DEF ServicesNext, allVars
<1> QED BY <1>1, <1>2, <1>3, PTL DEF ServicesSpec, Chat!MessagingSpec

(* Every message of a history was announced in the order of its insertion, its
   sender is a participant, and the list shows the time of the last message. *)
THEOREM MessagingHistory == ServicesSpec => []HistoryAnnounced
<1>1. ChatIInv => Chat!HistoryAnnounced
  <2> SUFFICES ASSUME ChatIInv PROVE Chat!HistoryAnnounced OBVIOUS
  <2>1. msgOutbox = [i \in DOMAIN messages |->
                       [id |-> i, conv |-> messages[i].conv, sender |-> messages[i].sender]]
    BY DEF ChatIInv, Announced
  <2>2. ASSUME NEW cv \in Conversations, NEW u \in Members, cv \in Chat!ListConversations(u)
        PROVE  LET history == Chat!ListMessages(cv, u)
                   last == CHOOSE i \in history : \A j \in history : j <= i IN
               /\ \A i \in history : Chat!IsParticipant(cv, messages[i].sender)
               /\ lastMessageAt[cv] = IF history = {} THEN 0 ELSE messages[last].at
    <3> DEFINE last == CHOOSE i \in History(cv) : \A j \in History(cv) : j <= i
    <3>1. Chat!ListMessages(cv, u) = History(cv)
      BY <2>2 DEF Chat!ListMessages, Chat!ListConversations, History
    <3>2. \A i \in History(cv) : Chat!IsParticipant(cv, messages[i].sender)
      BY DEF ChatIInv, SenderTakesPart, Chat!IsParticipant, History
    <3>3. Touched(cv) BY DEF ChatIInv
    <3>4. ASSUME History(cv) # {} PROVE lastMessageAt[cv] = messages[last].at
      <4>1. PICK i \in History(cv) : (\A j \in History(cv) : j <= i) /\ lastMessageAt[cv] = messages[i].at
        BY <3>3, <3>4 DEF Touched
      <4>2. last \in History(cv) /\ \A j \in History(cv) : j <= last BY <4>1
      <4>3. History(cv) \subseteq Nat BY DEF History, ChatIInv, ChatTypes
      <4>4. last = i BY <4>1, <4>2, <4>3
      <4> QED BY <4>1, <4>4
    <3>5. lastMessageAt[cv] = IF History(cv) = {} THEN 0 ELSE messages[last].at BY <3>3, <3>4 DEF Touched
    <3> HIDE DEF last
    <3> QED BY <3>1, <3>2, <3>5 DEF last
  <2> QED BY <2>1, <2>2 DEF Chat!HistoryAnnounced
<1> QED BY <1>1, ChatInvariant, ChatPart, PTL DEF HistoryAnnounced

-----------------------------------------------------------------------------
(* The hub *)

HubFrames ==
  [n : Nat, type : {"message.sent", "typing", "notice"}, conv : Conversations \cup {None},
   sender : Accounts \cup {None}, id : Nat \cup {None}]
HubPosts == [conv : Conversations, sender : Accounts, at : Nat]
HubOps ==
  [do : {"close"}] \cup [do : {"join"}, conv : Conversations]
    \cup [do : {"persist"}, conv : Conversations, id : Nat \cup {None}]
ConnRecs ==
  [at : {"new", "registered", "open", "closing", "closed", "clear", "gone", "leaked"}, closed : BOOLEAN,
   joined : SUBSET Conversations, queue : Seq(HubFrames), got : SUBSET Nat, op : HubOps \cup {None}]
SubRecs ==
  [replica : Hub!Replicas, conv : Conversations, opener : Conns, open : BOOLEAN, running : BOOLEAN,
   inbox : Seq(HubFrames), frame : HubFrames \cup {None}, todo : SUBSET Conns, closing : Conns \cup {None}]
Entries == [subscribers : SUBSET Conns, sub : Hub!Subs]

HubConstants ==
  /\ IsFiniteSet(Conns) /\ Conns \subseteq Posters /\ UserOf \in [Conns -> Accounts]
  /\ None \notin HubOps /\ None \notin SubRecs /\ None \notin Entries /\ None \notin HubPosts
  /\ None \notin Conns /\ None # Hub!Ended

HubTypes ==
  /\ participants \in [Conversations -> SUBSET Accounts]
  /\ messages \in Seq(HubPosts)
  /\ posting \in [Posters -> HubPosts \cup {None}]
  /\ clock \in Nat /\ frames \in Nat
  /\ conn \in [Conns -> ConnRecs]
  /\ convs \in [Hub!Replicas -> [Conversations -> Entries \cup {None}]]
  /\ userConns \in [Hub!Replicas -> [Accounts -> Int]]
  /\ sub \in [Hub!Subs -> SubRecs \cup {None, Hub!Ended}]

Registers(at) == at \in {"registered", "open", "closing", "closed", "leaked"}

(* The message id of conversation cv is in the history under its sender. *)
InHistory(id, cv, u) ==
  /\ id \in DOMAIN messages /\ messages[id].conv = cv /\ messages[id].sender = u
  /\ u \in participants[cv]

(* The state of a connection of user u, whose post in flight is p. *)
ConnGood(u, k, p) ==
  /\ ~Registers(k.at) => k.joined = {}
  /\ \A cv \in k.joined : u \in participants[cv]
  /\ k.op # None =>
       /\ k.at = "open"
       /\ k.op.do = "join" => u \in participants[k.op.conv]
       /\ k.op.do = "persist" /\ k.op.id # None => InHistory(k.op.id, k.op.conv, u)
  /\ p # None => \/ k.at = "gone"
                 \/ /\ k.op # None /\ k.op.do = "persist"
                    /\ p.conv = k.op.conv /\ p.sender = u /\ u \in participants[p.conv]

FrameGood(f) ==
  /\ f \in HubFrames /\ f.n \in 1 .. frames /\ f.conv \in Conversations
  /\ f.id # None => InHistory(f.id, f.conv, f.sender)

MayReach(f, u) == u \in participants[f.conv] /\ (f.type = "typing" => f.sender # u)

(* What waits in a queue may be sent, once. *)
QueueGood(u, q, g) ==
  /\ \A i \in DOMAIN q : q[i] # Hub!Notice => FrameGood(q[i]) /\ MayReach(q[i], u) /\ q[i].n \notin g
  /\ \A i, j \in DOMAIN q : q[i] # Hub!Notice /\ q[j] # Hub!Notice /\ q[i].n = q[j].n => i = j
  /\ g \subseteq 1 .. frames

Seen(q, g) == g \cup {q[i].n : i \in {j \in DOMAIN q : q[j] # Hub!Notice}}

(* What a reader holds is of its conversation, and each frame once. *)
ReaderGood(s) ==
  /\ \A k \in DOMAIN s.inbox : FrameGood(s.inbox[k]) /\ s.inbox[k].conv = s.conv
  /\ \A k, l \in DOMAIN s.inbox : s.inbox[k].n = s.inbox[l].n => k = l
  /\ s.todo # {} => /\ FrameGood(s.frame) /\ s.frame.conv = s.conv
                    /\ \A k \in DOMAIN s.inbox : s.inbox[k].n # s.frame.n
  /\ \A c \in s.todo : ReplicaOf[c] = s.replica /\ MayReach(s.frame, UserOf[c])

Held(s, n) == (\E k \in DOMAIN s.inbox : s.inbox[k].n = n) \/ (s.todo # {} /\ s.frame.n = n)

(* No frame that a reader holds has reached the connections it is for. *)
NotYet(s, c, seen) ==
  ReplicaOf[c] = s.replica =>
    /\ \A k \in DOMAIN s.inbox : s.inbox[k].n \notin seen
    /\ c \in s.todo => s.frame.n \notin seen

Delivering ==
  /\ \A c \in Conns : QueueGood(UserOf[c], conn[c].queue, conn[c].got)
  /\ \A i \in Hub!Subs : sub[i] \in SubRecs =>
       /\ ReaderGood(sub[i])
       /\ \A c \in Conns : NotYet(sub[i], c, Seen(conn[c].queue, conn[c].got))
       /\ \A j \in Hub!Subs : sub[j] \in SubRecs /\ i # j /\ sub[i].replica = sub[j].replica =>
            \A n \in Nat : ~(Held(sub[i], n) /\ Held(sub[j], n))

OpenFor(s, r, cv) == s # None /\ s.open /\ s.replica = r /\ s.conv = cv

OpenSubs(r, cv) == {i \in Hub!Subs : OpenFor(sub[i], r, cv)}
JoinedTo(r, cv) == {c \in Conns : ReplicaOf[c] = r /\ Registers(conn[c].at) /\ cv \in conn[c].joined}
RegisteredAs(r, u) == {c \in Conns : ReplicaOf[c] = r /\ UserOf[c] = u /\ Registers(conn[c].at)}

EntryGood(e, joined, open) ==
  IF e = None THEN joined = {} /\ open = {}
  ELSE e.subscribers = joined /\ joined # {} /\ open = {e.sub}

(* MapsAgree, by replica. *)
MapsHold ==
  \A r \in Hub!Replicas :
    /\ \A u \in Accounts : userConns[r][u] = Cardinality(RegisteredAs(r, u))
    /\ \A cv \in Conversations : EntryGood(convs[r][cv], JoinedTo(r, cv), OpenSubs(r, cv))

HubIInv ==
  /\ HubTypes /\ MapsHold
  /\ \A c \in Conns : ConnGood(UserOf[c], conn[c], posting[c])
  /\ Delivering

(* Conversations gain participants and messages, and lose none. *)
HubGrows ==
  /\ \A cv \in Conversations : participants[cv] \subseteq participants'[cv]
  /\ \A i \in DOMAIN messages : i \in DOMAIN messages' /\ messages'[i] = messages[i]
  /\ frames <= frames'

(* What is true of a frame stays true. *)
LEMMA FrameKept ==
  ASSUME HubTypes, HubTypes', HubGrows, NEW f, FrameGood(f)
  PROVE  FrameGood(f)' /\ \A u : MayReach(f, u) => MayReach(f, u)'
<1>1. f.conv \in Conversations /\ f \in HubFrames /\ f.n \in 1 .. frames BY DEF FrameGood
<1>2. f.n \in 1 .. frames' BY <1>1 DEF HubGrows, HubTypes
<1>3. f.id # None => InHistory(f.id, f.conv, f.sender)' BY <1>1 DEF FrameGood, InHistory, HubGrows
<1>4. FrameGood(f)' BY <1>1, <1>2, <1>3 DEF FrameGood
<1>5. \A u : MayReach(f, u) => MayReach(f, u)' BY <1>1 DEF MayReach, HubGrows
<1> QED BY <1>4, <1>5

(* And of a queue. *)
LEMMA QueueKept ==
  ASSUME HubTypes, HubTypes', HubGrows, NEW u, NEW q, NEW g, QueueGood(u, q, g)
  PROVE  QueueGood(u, q, g)'
<1>0. PICK z : z = Hub!Notice OBVIOUS
<1>1. Hub!Notice' = z BY <1>0 DEF Hub!Notice
<1>2. \A i \in DOMAIN q : q[i] # z => FrameGood(q[i])' /\ MayReach(q[i], u)' /\ q[i].n \notin g
  <2> SUFFICES ASSUME NEW i \in DOMAIN q, q[i] # z PROVE FrameGood(q[i])' /\ MayReach(q[i], u)' /\ q[i].n \notin g
    OBVIOUS
  <2>1. PICK f : f = q[i] OBVIOUS
  <2>2. FrameGood(f) /\ MayReach(f, u) /\ f.n \notin g BY <1>0, <2>1 DEF QueueGood
  <2>3. FrameGood(f)' /\ MayReach(f, u)' BY <2>2, FrameKept
  <2> QED BY <2>1, <2>2, <2>3
<1>3. g \subseteq 1 .. frames' BY DEF QueueGood, HubGrows, HubTypes
<1>4. \A i, j \in DOMAIN q : q[i] # z /\ q[j] # z /\ q[i].n = q[j].n => i = j BY <1>0 DEF QueueGood
<1> QED BY <1>1, <1>2, <1>3, <1>4 DEF QueueGood

(* And of a reader. *)
LEMMA ReaderKept ==
  ASSUME HubTypes, HubTypes', HubGrows, NEW s, ReaderGood(s)
  PROVE  ReaderGood(s)'
<1>1. \A k \in DOMAIN s.inbox : FrameGood(s.inbox[k])' /\ s.inbox[k].conv = s.conv
  <2> SUFFICES ASSUME NEW k \in DOMAIN s.inbox PROVE FrameGood(s.inbox[k])' /\ s.inbox[k].conv = s.conv OBVIOUS
  <2>1. PICK f : f = s.inbox[k] OBVIOUS
  <2>2. FrameGood(f)' BY <2>1, FrameKept DEF ReaderGood
  <2> QED BY <2>1, <2>2 DEF ReaderGood
<1>2. s.todo # {} => FrameGood(s.frame)' /\ \A c \in s.todo : MayReach(s.frame, UserOf[c])'
  <2> SUFFICES ASSUME s.todo # {} PROVE FrameGood(s.frame)' /\ \A c \in s.todo : MayReach(s.frame, UserOf[c])' OBVIOUS
  <2>1. PICK f : f = s.frame OBVIOUS
  <2>2. FrameGood(f) /\ \A c \in s.todo : MayReach(f, UserOf[c]) BY <2>1 DEF ReaderGood
  <2>3. FrameGood(f)' /\ \A c \in s.todo : MayReach(f, UserOf[c])' BY <2>2, FrameKept
  <2> QED BY <2>1, <2>3
<1> QED BY <1>1, <1>2 DEF ReaderGood

(* And of a connection, while its post is the same or none. *)
LEMMA ConnKept ==
  ASSUME HubTypes, HubTypes', HubGrows, NEW u, NEW k \in ConnRecs, NEW p \in HubPosts \cup {None}, ConnGood(u, k, p)
  PROVE  ConnGood(u, k, p)' /\ ConnGood(u, k, None)'
<1>1. \A cv \in k.joined : u \in participants'[cv] BY DEF ConnGood, ConnRecs, HubGrows
<1>2. k.op # None =>
        /\ k.at = "open"
        /\ k.op.do = "join" => u \in participants'[k.op.conv]
        /\ k.op.do = "persist" /\ k.op.id # None => InHistory(k.op.id, k.op.conv, u)'
  <2> SUFFICES ASSUME k.op # None
               PROVE  /\ k.at = "open"
                      /\ k.op.do = "join" => u \in participants'[k.op.conv]
                      /\ k.op.do = "persist" /\ k.op.id # None => InHistory(k.op.id, k.op.conv, u)'
    OBVIOUS
  <2>1. PICK o \in HubOps : o = k.op BY DEF ConnRecs
  <2>2. o.do \in {"join", "persist"} => o.conv \in Conversations BY DEF HubOps
  <2>3. /\ k.at = "open"
        /\ o.do = "join" => u \in participants[o.conv]
        /\ o.do = "persist" /\ o.id # None => InHistory(o.id, o.conv, u)
    BY <2>1 DEF ConnGood
  <2>4. o.do = "join" => u \in participants'[o.conv] BY <2>2, <2>3 DEF HubGrows
  <2>5. o.do = "persist" /\ o.id # None => InHistory(o.id, o.conv, u)' BY <2>2, <2>3 DEF HubGrows, InHistory
  <2> QED BY <2>1, <2>3, <2>4, <2>5
<1>3. p # None => \/ k.at = "gone"
                  \/ /\ k.op # None /\ k.op.do = "persist"
                     /\ p.conv = k.op.conv /\ p.sender = u /\ u \in participants'[p.conv]
  <2>1. p # None => p.conv \in Conversations BY DEF HubPosts
  <2> QED BY <2>1 DEF ConnGood, HubGrows
<1> QED BY <1>1, <1>2, <1>3 DEF ConnGood

(* The hub's module counts with its own instance of FiniteSets. *)
LEMMA HubCardinality ==
  ASSUME NEW S PROVE Hub!Cardinality(S) = Cardinality(S)
BY DEF Hub!Cardinality, Cardinality, Hub!IsFiniteSet, IsFiniteSet

(* The invariant's form of the property. *)
LEMMA MapsForm == MapsHold => Hub!MapsAgree
<1> SUFFICES ASSUME MapsHold, NEW r \in Hub!Replicas
             PROVE  /\ \A u \in Accounts :
                         userConns[r][u] = Hub!Cardinality({c \in Conns : ReplicaOf[c] = r /\ UserOf[c] = u /\ Hub!Registered(c)})
                    /\ \A cv \in Conversations :
                         LET joined == {c \in Conns : ReplicaOf[c] = r /\ Hub!Registered(c) /\ cv \in conn[c].joined}
                             open == {i \in Hub!Subs : sub[i] # None /\ sub[i].open /\ sub[i].replica = r /\ sub[i].conv = cv} IN
                         IF convs[r][cv] = None THEN joined = {} /\ open = {}
                         ELSE convs[r][cv].subscribers = joined /\ joined # {} /\ open = {convs[r][cv].sub}
  BY DEF Hub!MapsAgree
<1>1. \A u : {c \in Conns : ReplicaOf[c] = r /\ UserOf[c] = u /\ Hub!Registered(c)} = RegisteredAs(r, u)
  BY DEF RegisteredAs, Registers, Hub!Registered
<1>2. \A cv : {c \in Conns : ReplicaOf[c] = r /\ Hub!Registered(c) /\ cv \in conn[c].joined} = JoinedTo(r, cv)
  BY DEF JoinedTo, Registers, Hub!Registered
<1>3. \A cv : {i \in Hub!Subs : sub[i] # None /\ sub[i].open /\ sub[i].replica = r /\ sub[i].conv = cv} = OpenSubs(r, cv)
  BY DEF OpenSubs, OpenFor
<1>4. \A u \in Accounts : userConns[r][u] = Hub!Cardinality(RegisteredAs(r, u)) BY HubCardinality DEF MapsHold
<1>5. \A cv \in Conversations :
        IF convs[r][cv] = None THEN JoinedTo(r, cv) = {} /\ OpenSubs(r, cv) = {}
        ELSE convs[r][cv].subscribers = JoinedTo(r, cv) /\ JoinedTo(r, cv) # {} /\ OpenSubs(r, cv) = {convs[r][cv].sub}
  BY DEF MapsHold, EntryGood
<1> QED BY <1>1, <1>2, <1>3, <1>4, <1>5

(* The maps agree when registrations, joins and open subscriptions stay. *)
LEMMA MapsKept ==
  ASSUME MapsHold, convs' = convs, userConns' = userConns,
         \A c \in Conns : Registers(conn'[c].at) = Registers(conn[c].at) /\ conn'[c].joined = conn[c].joined,
         \A i \in Hub!Subs : \A r, cv : OpenFor(sub'[i], r, cv) <=> OpenFor(sub[i], r, cv)
  PROVE  MapsHold'
<1>1. \A r, u : RegisteredAs(r, u)' = RegisteredAs(r, u) BY DEF RegisteredAs, Registers
<1>2. \A r, cv : JoinedTo(r, cv)' = JoinedTo(r, cv) BY DEF JoinedTo, Registers
<1>3. \A r, cv : OpenSubs(r, cv)' = OpenSubs(r, cv) BY DEF OpenSubs, OpenFor, Hub!Subs
<1>4. Hub!Replicas' = Hub!Replicas BY DEF Hub!Replicas
<1> QED BY <1>1, <1>2, <1>3, <1>4 DEF MapsHold, EntryGood

(* A reader t that holds what s held, or less. *)
Shrunk(s, t) ==
  \/ t.inbox = <<>> /\ t.todo = {}
  \/ /\ s \in SubRecs /\ t.replica = s.replica /\ t.conv = s.conv
     /\ t.inbox = s.inbox /\ t.todo = s.todo /\ t.frame = s.frame

(* Readers that hold what they held, or less, and connections that have seen
   what they had, or less. *)
LEMMA DeliveringKept ==
  ASSUME HubTypes, HubTypes', HubGrows, Delivering,
         \A c \in Conns : Seen(conn'[c].queue, conn'[c].got) \subseteq Seen(conn[c].queue, conn[c].got),
         \A c \in Conns : \A q, g : q = conn'[c].queue /\ g = conn'[c].got => QueueGood(UserOf[c], q, g)',
         \A i \in Hub!Subs : sub'[i] \in SubRecs => Shrunk(sub[i], sub'[i])
  PROVE  Delivering'
<1>0. Hub!Subs' = Hub!Subs BY DEF Hub!Subs
<1>d. DOMAIN <<>> = {} OBVIOUS
<1>1. \A c \in Conns : QueueGood(UserOf[c], conn[c].queue, conn[c].got)'
  <2> SUFFICES ASSUME NEW c \in Conns PROVE QueueGood(UserOf[c], conn[c].queue, conn[c].got)' OBVIOUS
  <2>1. PICK q, g : q = conn'[c].queue /\ g = conn'[c].got OBVIOUS
  <2>2. QueueGood(UserOf[c], q, g)' BY <2>1
  <2> QED BY <2>1, <2>2
<1>2. ASSUME NEW i \in Hub!Subs, sub'[i] \in SubRecs
      PROVE  /\ ReaderGood(sub[i])'
             /\ \A c \in Conns : NotYet(sub'[i], c, Seen(conn'[c].queue, conn'[c].got))
             /\ \A n : Held(sub'[i], n) => Held(sub[i], n) /\ sub[i] \in SubRecs /\ sub[i].replica = sub'[i].replica
  <2>1. PICK s, t : s = sub[i] /\ t = sub'[i] OBVIOUS
  <2>2. Shrunk(s, t) BY <1>2, <2>1
  <2>3. CASE t.inbox = <<>> /\ t.todo = {}
    <3>1. ReaderGood(t)' BY <2>3, <1>d DEF ReaderGood
    <3>2. \A n : ~Held(t, n) BY <2>3, <1>d DEF Held
    <3>3. \A c, seen : NotYet(t, c, seen) BY <2>3, <1>d DEF NotYet
    <3> QED BY <2>1, <3>1, <3>2, <3>3
  <2>4. CASE /\ s \in SubRecs /\ t.replica = s.replica /\ t.conv = s.conv
             /\ t.inbox = s.inbox /\ t.todo = s.todo /\ t.frame = s.frame
    <3>1. ReaderGood(s) /\ \A c \in Conns : NotYet(s, c, Seen(conn[c].queue, conn[c].got)) BY <2>1, <2>4 DEF Delivering
    <3>2. ReaderGood(s)' BY <3>1, ReaderKept
    <3>3. ReaderGood(t)' BY <2>4, <3>2 DEF ReaderGood
    <3>4. \A n : Held(t, n) => Held(s, n) BY <2>4 DEF Held
    <3>5. \A c \in Conns : NotYet(t, c, Seen(conn'[c].queue, conn'[c].got))
      <4> SUFFICES ASSUME NEW c \in Conns PROVE NotYet(t, c, Seen(conn'[c].queue, conn'[c].got)) OBVIOUS
      <4>1. PICK new, old : new = Seen(conn'[c].queue, conn'[c].got) /\ old = Seen(conn[c].queue, conn[c].got) OBVIOUS
      <4>2. NotYet(s, c, old) /\ new \subseteq old BY <3>1, <4>1
      <4>3. NotYet(t, c, new) BY <2>4, <4>2 DEF NotYet
      <4> QED BY <4>1, <4>3
    <3> QED BY <2>1, <2>4, <3>3, <3>4, <3>5
  <2> QED BY <2>2, <2>3, <2>4 DEF Shrunk
<1>3. ASSUME NEW i \in Hub!Subs, sub'[i] \in SubRecs, NEW j \in Hub!Subs, sub'[j] \in SubRecs, i # j,
             sub'[i].replica = sub'[j].replica, NEW n \in Nat
      PROVE  ~(Held(sub'[i], n) /\ Held(sub'[j], n))
  <2> SUFFICES ASSUME Held(sub'[i], n), Held(sub'[j], n) PROVE FALSE OBVIOUS
  <2>1. /\ sub[i] \in SubRecs /\ sub[j] \in SubRecs /\ sub[i].replica = sub[j].replica
        /\ Held(sub[i], n) /\ Held(sub[j], n)
    BY <1>2, <1>3
  <2> QED BY <1>3, <2>1 DEF Delivering
<1>4. \A i \in Hub!Subs, c \in Conns : sub'[i] \in SubRecs => NotYet(sub[i], c, Seen(conn[c].queue, conn[c].got))'
  <2>1. Hub!Notice' = Hub!Notice BY DEF Hub!Notice
  <2>2. \A c \in Conns : Seen(conn[c].queue, conn[c].got)' = Seen(conn'[c].queue, conn'[c].got) BY <2>1 DEF Seen
  <2> QED BY <1>2, <2>2 DEF NotYet
<1>5. \A i \in Hub!Subs : \A n : Held(sub[i], n)' = Held(sub'[i], n) BY DEF Held
<1>6. SubRecs' = SubRecs BY DEF SubRecs, Hub!Replicas, HubFrames
<1> QED BY <1>0, <1>1, <1>2, <1>3, <1>4, <1>5, <1>6 DEF Delivering

(* A queue with one notice more. *)
LEMMA QueueNotice ==
  ASSUME NEW u, NEW q \in Seq(HubFrames), NEW g, QueueGood(u, q, g), NEW z, z = Hub!Notice
  PROVE  /\ QueueGood(u, Append(q, z), g)
         /\ Seen(Append(q, z), g) = Seen(q, g)
<1>1. PICK m, n : m = Append(q, z) /\ n = Len(q) + 1 OBVIOUS
<1>2. DOMAIN m = DOMAIN q \cup {n} /\ m[n] = z /\ n \notin DOMAIN q /\ \A i \in DOMAIN q : m[i] = q[i]
  BY <1>1 
<1>3. QueueGood(u, m, g) BY <1>2 DEF QueueGood
<1>4. {j \in DOMAIN m : m[j] # z} = {j \in DOMAIN q : q[j] # z} BY <1>2
<1>5. Seen(m, g) = Seen(q, g) BY <1>2, <1>4 DEF Seen
<1> QED BY <1>1, <1>3, <1>5

(* Nothing waits in an empty queue. *)
LEMMA QueueEmpty ==
  ASSUME NEW u, NEW q, NEW g, QueueGood(u, q, g)
  PROVE  /\ QueueGood(u, <<>>, g) /\ QueueGood(u, <<>>, {})
         /\ Seen(<<>>, g) \subseteq Seen(q, g) /\ Seen(<<>>, {}) \subseteq Seen(q, g)
<1>1. DOMAIN <<>> = {} OBVIOUS
<1> QED BY <1>1 DEF QueueGood, Seen

(* The write pump takes the first frame. *)
LEMMA QueueTail ==
  ASSUME HubTypes, NEW u, NEW q \in Seq(HubFrames), q # <<>>, NEW g \in SUBSET Nat, QueueGood(u, q, g)
  PROVE  /\ QueueGood(u, Tail(q), g \cup ({Head(q).n} \ {0}))
         /\ Seen(Tail(q), g \cup ({Head(q).n} \ {0})) \subseteq Seen(q, g)
         /\ Tail(q) \in Seq(HubFrames) /\ g \cup ({Head(q).n} \ {0}) \in SUBSET Nat
<1>0. PICK z : z = Hub!Notice OBVIOUS
<1>1. PICK m, h, e : m = Tail(q) /\ h = Head(q) /\ e = g \cup ({Head(q).n} \ {0}) OBVIOUS
<1>2. m \in Seq(HubFrames) /\ h = q[1] /\ 1 \in DOMAIN q /\ h \in HubFrames BY <1>1
<1>3. \A i \in DOMAIN m : i + 1 \in DOMAIN q /\ m[i] = q[i + 1] /\ i + 1 # 1 /\ i \in Nat BY <1>1
<1>4. h.n \in Nat BY <1>2 DEF HubFrames
<1>5. z.n = 0 BY <1>0 DEF Hub!Notice
<1>6. \A f : FrameGood(f) => f.n \in 1 .. frames BY DEF FrameGood
<1>7. h # z => FrameGood(h) /\ h.n \notin g /\ h.n \in 1 .. frames BY <1>0, <1>2, <1>6 DEF QueueGood
<1>8. e = (IF h = z THEN g ELSE g \cup {h.n}) BY <1>1, <1>5, <1>7
<1>9. QueueGood(u, m, e)
  <2>1. ASSUME NEW i \in DOMAIN m, m[i] # z
        PROVE  FrameGood(m[i]) /\ MayReach(m[i], u) /\ m[i].n \notin e
    <3>1. FrameGood(m[i]) /\ MayReach(m[i], u) /\ m[i].n \notin g BY <1>0, <1>3, <2>1 DEF QueueGood
    <3>2. h # z => m[i].n # h.n BY <1>0, <1>2, <1>3, <2>1 DEF QueueGood
    <3> QED BY <3>1, <3>2, <1>8
  <2>2. ASSUME NEW i \in DOMAIN m, NEW j \in DOMAIN m, m[i] # z, m[j] # z, m[i].n = m[j].n PROVE i = j
    <3>1. i + 1 = j + 1 BY <1>0, <1>3, <2>2 DEF QueueGood
    <3> QED BY <3>1, <1>3
  <2>3. e \subseteq 1 .. frames BY <1>7, <1>8 DEF QueueGood
  <2> QED BY <1>0, <2>1, <2>2, <2>3 DEF QueueGood
<1>10. Seen(m, e) \subseteq Seen(q, g)
  <2>1. ASSUME NEW i \in DOMAIN m, m[i] # z PROVE m[i].n \in Seen(q, g)
    BY <1>0, <1>3, <2>1 DEF Seen
  <2>2. h # z => h.n \in Seen(q, g) BY <1>0, <1>2 DEF Seen
  <2>3. g \subseteq Seen(q, g) BY DEF Seen
  <2> QED BY <1>0, <1>8, <2>1, <2>2, <2>3 DEF Seen
<1>11. e \in SUBSET Nat BY <1>4, <1>8
<1> QED BY <1>1, <1>2, <1>9, <1>10, <1>11

(* An answer to the client: queued, or the queue is full. *)
LEMMA ReplyForm ==
  ASSUME HubConstants, NEW k \in ConnRecs
  PROVE  /\ Hub!Reply(k) \in ConnRecs
         /\ Hub!Reply(k).at = k.at /\ Hub!Reply(k).joined = k.joined /\ Hub!Reply(k).got = k.got
         /\ Hub!Reply(k).queue = k.queue \/ Hub!Reply(k).queue = Append(k.queue, Hub!Notice)
         /\ Hub!Reply(k).op # None => Hub!Reply(k).op.do = "close"
<1>1. Hub!Notice \in HubFrames BY DEF Hub!Notice, HubFrames
<1>2. Append(k.queue, Hub!Notice) \in Seq(HubFrames) BY <1>1 DEF ConnRecs
<1>3. PICK a, b, c : /\ a = [k EXCEPT !.queue = Append(@, Hub!Notice), !.op = None]
                     /\ b = [k EXCEPT !.op = None] /\ c = [k EXCEPT !.op = [do |-> "close"]]
  OBVIOUS
<1>4. Hub!Reply(k) \in {a, b, c} BY <1>3 DEF Hub!Reply
<1>5. a \in ConnRecs /\ a.at = k.at /\ a.joined = k.joined /\ a.got = k.got /\ a.op = None /\ a.queue = Append(k.queue, Hub!Notice)
  BY <1>2, <1>3 DEF ConnRecs
<1>6. b \in ConnRecs /\ b.at = k.at /\ b.joined = k.joined /\ b.got = k.got /\ b.op = None /\ b.queue = k.queue
  BY <1>3 DEF ConnRecs
<1>7. [do |-> "close"] \in HubOps BY DEF HubOps
<1>8. c \in ConnRecs /\ c.at = k.at /\ c.joined = k.joined /\ c.got = k.got /\ c.op.do = "close" /\ c.queue = k.queue
  BY <1>3, <1>7 DEF ConnRecs
<1> QED BY <1>4, <1>5, <1>6, <1>8

(* A step of connection c after which the maps agree. *)
LEMMA ConnChange ==
  ASSUME HubConstants, HubIInv, HubTypes', HubGrows, NEW c \in Conns, NEW k \in ConnRecs,
         conn' = [conn EXCEPT ![c] = k], MapsHold',
         \A i \in Hub!Subs : sub'[i] \in SubRecs => Shrunk(sub[i], sub'[i]),
         QueueGood(UserOf[c], k.queue, k.got),
         Seen(k.queue, k.got) \subseteq Seen(conn[c].queue, conn[c].got),
         \A p : p = posting'[c] => ConnGood(UserOf[c], k, p)',
         \A o \in Conns \ {c} : posting'[o] = posting[o]
  PROVE  HubIInv'
<1>0. HubTypes /\ MapsHold /\ Delivering BY DEF HubIInv
<1>1. conn'[c] = k /\ \A o \in Conns \ {c} : conn'[o] = conn[o] BY <1>0 DEF HubTypes
<1>3. ASSUME NEW o \in Conns PROVE ConnGood(UserOf[o], conn[o], posting[o])'
  <2>1. PICK l, p : l = conn'[o] /\ p = posting'[o] OBVIOUS
  <2>2. CASE o = c BY <1>1, <2>1, <2>2
  <2>3. CASE o # c
    <3>1. l = conn[o] /\ p = posting[o] BY <1>1, <2>1, <2>3
    <3>2. l \in ConnRecs /\ p \in HubPosts \cup {None} BY <1>0, <3>1 DEF HubTypes, HubConstants
    <3>3. ConnGood(UserOf[o], l, p) BY <3>1 DEF HubIInv
    <3>4. ConnGood(UserOf[o], l, p)' BY <1>0, <3>2, <3>3, ConnKept
    <3> QED BY <2>1, <3>4
  <2> QED BY <2>2, <2>3
<1>4. \A o \in Conns : \A q, g : q = conn'[o].queue /\ g = conn'[o].got => QueueGood(UserOf[o], q, g)'
  <2> SUFFICES ASSUME NEW o \in Conns, NEW q, NEW g, q = conn'[o].queue, g = conn'[o].got
               PROVE  QueueGood(UserOf[o], q, g)'
    OBVIOUS
  <2>1. QueueGood(UserOf[o], q, g)
    <3>1. CASE o = c BY <3>1, <1>1
    <3>2. CASE o # c
      <4>1. q = conn[o].queue /\ g = conn[o].got BY <3>2, <1>1
      <4> QED BY <1>0, <4>1 DEF Delivering
    <3> QED BY <3>1, <3>2
  <2> QED BY <1>0, <2>1, QueueKept
<1>5. \A o \in Conns : Seen(conn'[o].queue, conn'[o].got) \subseteq Seen(conn[o].queue, conn[o].got)
  BY <1>1
<1>6. Delivering' BY <1>0, <1>4, <1>5, DeliveringKept
<1> QED BY <1>3, <1>6 DEF HubIInv

(* A step of connection c that neither registers nor joins. *)
LEMMA ConnStep ==
  ASSUME HubConstants, HubIInv, HubTypes', HubGrows, NEW c \in Conns, NEW k \in ConnRecs,
         conn' = [conn EXCEPT ![c] = k], UNCHANGED <<convs, userConns, sub>>,
         Registers(k.at) = Registers(conn[c].at), k.joined = conn[c].joined,
         QueueGood(UserOf[c], k.queue, k.got),
         Seen(k.queue, k.got) \subseteq Seen(conn[c].queue, conn[c].got),
         \A p : p = posting'[c] => ConnGood(UserOf[c], k, p)',
         \A o \in Conns \ {c} : posting'[o] = posting[o]
  PROVE  HubIInv'
<1>0. HubTypes /\ MapsHold /\ Delivering BY DEF HubIInv
<1>1. conn'[c] = k /\ \A o \in Conns \ {c} : conn'[o] = conn[o] BY <1>0 DEF HubTypes
<1>2. MapsHold' BY <1>0, <1>1, MapsKept
<1>3. \A i \in Hub!Subs : sub'[i] \in SubRecs => Shrunk(sub[i], sub'[i]) BY DEF Shrunk
<1> QED BY <1>2, <1>3, ConnChange

(* The same when the messaging service is not involved. *)
LEMMA ConnAlone ==
  ASSUME HubConstants, HubIInv, NEW c \in Conns, NEW k \in ConnRecs,
         conn' = [conn EXCEPT ![c] = k], UNCHANGED <<convs, userConns, sub, frames>>,
         UNCHANGED Hub!msgVars,
         Registers(k.at) = Registers(conn[c].at), k.joined = conn[c].joined,
         QueueGood(UserOf[c], k.queue, k.got),
         Seen(k.queue, k.got) \subseteq Seen(conn[c].queue, conn[c].got),
         ConnGood(UserOf[c], k, posting[c])
  PROVE  HubIInv'
<1>0. HubTypes BY DEF HubIInv
<1>m. participants' = participants /\ messages' = messages /\ posting' = posting /\ clock' = clock
  BY DEF Hub!msgVars
<1>1. conn' \in [Conns -> ConnRecs] BY <1>0 DEF HubTypes
<1>2. HubTypes' BY <1>0, <1>1, <1>m DEF HubTypes, ConnRecs, SubRecs, Entries, Hub!Replicas, Hub!Subs, Hub!Ended, HubFrames, HubOps, HubPosts
<1>3. HubGrows BY <1>0, <1>m DEF HubGrows, HubTypes
<1>4. posting[c] \in HubPosts \cup {None} BY <1>0 DEF HubTypes, HubConstants
<1>5. \A p : p = posting'[c] => ConnGood(UserOf[c], k, p)'
  <2> SUFFICES ASSUME NEW p, p = posting'[c] PROVE ConnGood(UserOf[c], k, p)' OBVIOUS
  <2>1. ConnGood(UserOf[c], k, p) /\ p \in HubPosts \cup {None} BY <1>m, <1>4
  <2> QED BY <1>0, <1>2, <1>3, <2>1, ConnKept
<1> QED BY <1>2, <1>3, <1>5, <1>m, ConnStep

(* What is known of a connection. *)
LEMMA ConnFacts ==
  ASSUME HubConstants, HubIInv, NEW c \in Conns
  PROVE  /\ conn[c] \in ConnRecs /\ ConnGood(UserOf[c], conn[c], posting[c])
         /\ QueueGood(UserOf[c], conn[c].queue, conn[c].got)
         /\ conn[c].queue \in Seq(HubFrames) /\ conn[c].got \in SUBSET Nat
         /\ posting[c] \in HubPosts \cup {None} /\ UserOf[c] \in Accounts /\ ReplicaOf[c] \in Hub!Replicas
<1>1. conn[c] \in ConnRecs /\ posting[c] \in HubPosts \cup {None} BY DEF HubIInv, HubTypes, HubConstants
<1>2. conn[c].queue \in Seq(HubFrames) /\ conn[c].got \in SUBSET Nat BY <1>1 DEF ConnRecs
<1> QED BY <1>1, <1>2 DEF HubIInv, Delivering, HubConstants, Hub!Replicas

(* The hub stands still while conversations may grow. *)
LEMMA HubStill ==
  ASSUME HubConstants, HubIInv, HubTypes', HubGrows, posting' = posting, UNCHANGED <<conn, convs, userConns, sub>>
  PROVE  HubIInv'
<1>0. HubTypes /\ MapsHold /\ Delivering BY DEF HubIInv
<1>3. MapsHold' BY <1>0, MapsKept
<1>4. ASSUME NEW o \in Conns PROVE ConnGood(UserOf[o], conn[o], posting[o])'
  <2>1. PICK l, p : l = conn[o] /\ p = posting[o] OBVIOUS
  <2>2. l \in ConnRecs /\ p \in HubPosts \cup {None} /\ ConnGood(UserOf[o], l, p) BY <2>1, ConnFacts
  <2>3. ConnGood(UserOf[o], l, p)' BY <1>0, <2>2, ConnKept
  <2> QED BY <2>1, <2>3
<1>5. \A o \in Conns : \A q, g : q = conn'[o].queue /\ g = conn'[o].got => QueueGood(UserOf[o], q, g)'
  BY <1>0, QueueKept DEF Delivering
<1>6. \A i \in Hub!Subs : sub'[i] \in SubRecs => Shrunk(sub[i], sub'[i]) BY DEF Shrunk
<1>7. Delivering' BY <1>0, <1>5, <1>6, DeliveringKept
<1> QED BY <1>3, <1>4, <1>7 DEF HubIInv

(* Nothing but presence changes. *)
LEMMA HubStutter ==
  ASSUME HubConstants, HubIInv, UNCHANGED <<conn, convs, userConns, sub, frames>>, UNCHANGED Hub!msgVars
  PROVE  HubIInv'
<1>m. participants' = participants /\ messages' = messages /\ posting' = posting /\ clock' = clock
  BY DEF Hub!msgVars
<1>0. HubTypes BY DEF HubIInv
<1>1. HubTypes' BY <1>0, <1>m DEF HubTypes, ConnRecs, SubRecs, Entries, Hub!Replicas, Hub!Subs, Hub!Ended, HubFrames, HubOps, HubPosts
<1>2. HubGrows BY <1>0, <1>m DEF HubGrows, HubTypes
<1> QED BY <1>1, <1>2, <1>m, HubStill

(* The first heartbeat. *)
LEMMA StartStep ==
  ASSUME HubConstants, HubIInv, NEW c \in Conns, Hub!Start(c) PROVE HubIInv'
<1>1. PICK l \in ConnRecs : l = conn[c] BY ConnFacts
<1>2. PICK k : k = [l EXCEPT !.at = "open"] OBVIOUS
<1>3. /\ k \in ConnRecs /\ k.at = "open" /\ k.joined = l.joined /\ k.queue = l.queue /\ k.got = l.got /\ k.op = l.op
  BY <1>1, <1>2 DEF ConnRecs
<1>4. l.at = "registered" /\ conn' = [conn EXCEPT ![c] = k] BY <1>1, <1>2 DEF Hub!Start
<1>5. Registers(k.at) = Registers(l.at) BY <1>3, <1>4 DEF Registers
<1>6. ConnGood(UserOf[c], l, posting[c]) BY <1>1, ConnFacts
<1>7. ConnGood(UserOf[c], k, posting[c]) BY <1>3, <1>4, <1>5, <1>6 DEF ConnGood
<1> QED BY <1>1, <1>3, <1>4, <1>5, <1>7, ConnAlone, ConnFacts DEF Hub!Start

(* A frame is written to the client. *)
LEMMA WritePumpStep ==
  ASSUME HubConstants, HubIInv, NEW c \in Conns, Hub!writePump(c) PROVE HubIInv'
<1>1. PICK l \in ConnRecs : l = conn[c] BY ConnFacts
<1>2. PICK q, g : q = Tail(l.queue) /\ g = l.got \cup ({Head(l.queue).n} \ {0}) OBVIOUS
<1>3. l.queue # <<>> BY <1>1 DEF Hub!writePump
<1>4. /\ QueueGood(UserOf[c], q, g) /\ Seen(q, g) \subseteq Seen(l.queue, l.got)
      /\ q \in Seq(HubFrames) /\ g \in SUBSET Nat
  BY <1>1, <1>2, <1>3, ConnFacts, QueueTail DEF HubIInv
<1>5. PICK k : k = [[l EXCEPT !.queue = q] EXCEPT !.got = g] OBVIOUS
<1>6. /\ k \in ConnRecs /\ k.at = l.at /\ k.joined = l.joined /\ k.queue = q /\ k.got = g /\ k.op = l.op
  BY <1>1, <1>4, <1>5 DEF ConnRecs
<1>7. conn' = [conn EXCEPT ![c] = k] BY <1>1, <1>2, <1>5 DEF Hub!writePump, HubIInv, HubTypes, ConnRecs
<1>8. ConnGood(UserOf[c], l, posting[c]) BY <1>1, ConnFacts
<1>9. ConnGood(UserOf[c], k, posting[c]) BY <1>6, <1>8 DEF ConnGood
<1> QED BY <1>1, <1>4, <1>6, <1>7, <1>9, ConnAlone DEF Hub!writePump

(* The read loop ends. *)
LEMMA ReadEndsStep ==
  ASSUME HubConstants, HubIInv, NEW c \in Conns, Hub!ReadEnds(c) PROVE HubIInv'
<1>1. PICK l \in ConnRecs : l = conn[c] BY ConnFacts
<1>2. PICK a \in {"closed", "closing"} : a = IF l.closed THEN "closed" ELSE "closing" OBVIOUS
<1>3. l.at = "open" /\ l.op = None BY <1>1 DEF Hub!ReadEnds, Hub!Reading
<1>4. PICK k : k = [[l EXCEPT !.at = a] EXCEPT !.queue = <<>>] OBVIOUS
<1>5. <<>> \in Seq(HubFrames) OBVIOUS
<1>6. /\ k \in ConnRecs /\ k.at = a /\ k.joined = l.joined /\ k.queue = <<>> /\ k.got = l.got /\ k.op = l.op
  BY <1>1, <1>4, <1>5 DEF ConnRecs
<1>7. conn' = [conn EXCEPT ![c] = k] BY <1>1, <1>2, <1>4 DEF Hub!ReadEnds
<1>8. ConnGood(UserOf[c], l, posting[c]) BY <1>1, ConnFacts
<1>9. Registers(k.at) /\ Registers(l.at) BY <1>3, <1>6 DEF Registers
<1>10. ConnGood(UserOf[c], k, posting[c]) BY <1>3, <1>6, <1>8, <1>9 DEF ConnGood
<1>11. QueueGood(UserOf[c], k.queue, k.got) /\ Seen(k.queue, k.got) \subseteq Seen(l.queue, l.got)
  BY <1>1, <1>6, ConnFacts, QueueEmpty
<1> QED BY <1>1, <1>6, <1>7, <1>9, <1>10, <1>11, ConnAlone DEF Hub!ReadEnds

(* The connection's own goroutine closes the channel, or panics. *)
LEMMA CloseOwnStep ==
  ASSUME HubConstants, HubIInv, NEW c \in Conns, Hub!CloseOwn(c) PROVE HubIInv'
<1>1. PICK l \in ConnRecs : l = conn[c] BY ConnFacts
<1>2. l.at \in {"closing", "open"} /\ (l.at = "open" => l.op # None /\ l.op.do = "close")
  BY <1>1 DEF Hub!CloseOwn
<1>3. PICK a \in {"leaked", "closed", "open"} : a = IF l.closed THEN "leaked" ELSE IF l.at = "closing" THEN "closed" ELSE l.at
  BY <1>2
<1>4. PICK k : k = [[[l EXCEPT !.closed = TRUE] EXCEPT !.op = None] EXCEPT !.at = a] OBVIOUS
<1>5. /\ k \in ConnRecs /\ k.at = a /\ k.joined = l.joined /\ k.queue = l.queue /\ k.got = l.got /\ k.op = None
  BY <1>1, <1>4 DEF ConnRecs
<1>6. conn' = [conn EXCEPT ![c] = k]
  <2>1. conn \in [Conns -> ConnRecs] BY DEF HubIInv, HubTypes
  <2> QED BY <1>1, <1>3, <1>4, <2>1 DEF Hub!CloseOwn, ConnRecs
<1>7. ConnGood(UserOf[c], l, posting[c]) BY <1>1, ConnFacts
<1>8. Registers(k.at) /\ Registers(l.at) BY <1>2, <1>5 DEF Registers
<1>9. posting[c] = None
  <2>1. l.op # None => l.at = "open" BY <1>7 DEF ConnGood
  <2> QED BY <1>2, <1>7, <2>1 DEF ConnGood
<1>10. ConnGood(UserOf[c], k, posting[c]) BY <1>5, <1>7, <1>8, <1>9 DEF ConnGood
<1> QED BY <1>1, <1>5, <1>6, <1>8, <1>10, ConnFacts, ConnAlone DEF Hub!CloseOwn

(* A record of a connection that is gone. *)
LEMMA GoneForm ==
  ASSUME NEW k, k = Hub!Gone \/ k = [Hub!Gone EXCEPT !.at = "gone"] \/ k = [Hub!Gone EXCEPT !.at = "clear"]
  PROVE  k \in ConnRecs /\ k.at \in {"gone", "clear"} /\ k.joined = {} /\ k.queue = <<>> /\ k.got = {} /\ k.op = None
         /\ (k = Hub!Gone => k.at = "gone")
<1>1. PICK n : n = Hub!NewConn OBVIOUS
<1>2. <<>> \in Seq(HubFrames) OBVIOUS
<1>3. n \in ConnRecs /\ n.joined = {} /\ n.queue = <<>> /\ n.got = {} /\ n.op = None
  BY <1>1, <1>2 DEF Hub!NewConn, ConnRecs
<1>4. PICK g : g = [n EXCEPT !.at = "gone"] OBVIOUS
<1>5. g \in ConnRecs /\ g.joined = {} /\ g.queue = <<>> /\ g.got = {} /\ g.op = None /\ g.at = "gone"
  BY <1>3, <1>4 DEF ConnRecs
<1>6. Hub!Gone = g BY <1>1, <1>4 DEF Hub!Gone
<1>7. PICK h, i : h = [g EXCEPT !.at = "gone"] /\ i = [g EXCEPT !.at = "clear"] OBVIOUS
<1>8. h \in ConnRecs /\ h.joined = {} /\ h.queue = <<>> /\ h.got = {} /\ h.op = None /\ h.at = "gone"
  BY <1>5, <1>7 DEF ConnRecs
<1>9. i \in ConnRecs /\ i.joined = {} /\ i.queue = <<>> /\ i.got = {} /\ i.op = None /\ i.at = "clear"
  BY <1>5, <1>7 DEF ConnRecs
<1> QED BY <1>5, <1>6, <1>7, <1>8, <1>9

(* The presence key is deleted after the last connection. *)
LEMMA ClearPresenceStep ==
  ASSUME HubConstants, HubIInv, NEW c \in Conns, Hub!ClearPresence(c) PROVE HubIInv'
<1>1. PICK l \in ConnRecs : l = conn[c] BY ConnFacts
<1>2. PICK k : k = Hub!Gone OBVIOUS
<1>3. k \in ConnRecs /\ k.at = "gone" /\ k.joined = {} /\ k.queue = <<>> /\ k.got = {} /\ k.op = None
  BY <1>2, GoneForm
<1>4. l.at = "clear" /\ conn' = [conn EXCEPT ![c] = k] BY <1>1, <1>2 DEF Hub!ClearPresence
<1>5. ConnGood(UserOf[c], l, posting[c]) BY <1>1, ConnFacts
<1>6. ~Registers(k.at) /\ ~Registers(l.at) BY <1>3, <1>4 DEF Registers
<1>7. l.joined = {} BY <1>5, <1>6 DEF ConnGood
<1>8. ConnGood(UserOf[c], k, posting[c]) BY <1>3 DEF ConnGood
<1>9. QueueGood(UserOf[c], k.queue, k.got) /\ Seen(k.queue, k.got) \subseteq Seen(l.queue, l.got)
  BY <1>1, <1>3, ConnFacts, QueueEmpty
<1>10. k.joined = conn[c].joined /\ Registers(k.at) = Registers(conn[c].at) BY <1>1, <1>3, <1>6, <1>7 DEF Registers
<1> QED BY <1>1, <1>3, <1>4, <1>8, <1>9, <1>10, ConnAlone DEF Hub!ClearPresence

(* The queue of an answer. *)
LEMMA ReplyQueue ==
  ASSUME HubConstants, HubIInv, NEW c \in Conns, NEW l \in ConnRecs, l.queue = conn[c].queue, l.got = conn[c].got
  PROVE  /\ QueueGood(UserOf[c], Hub!Reply(l).queue, Hub!Reply(l).got)
         /\ Seen(Hub!Reply(l).queue, Hub!Reply(l).got) \subseteq Seen(conn[c].queue, conn[c].got)
<1>1. PICK k : k = Hub!Reply(l) OBVIOUS
<1>2. PICK z : z = Hub!Notice OBVIOUS
<1>3. k.got = l.got /\ (k.queue = l.queue \/ k.queue = Append(l.queue, z)) BY <1>1, <1>2, ReplyForm
<1>4. QueueGood(UserOf[c], l.queue, l.got) /\ l.queue \in Seq(HubFrames) BY ConnFacts
<1>5. QueueGood(UserOf[c], Append(l.queue, z), l.got) /\ Seen(Append(l.queue, z), l.got) = Seen(l.queue, l.got)
  BY <1>2, <1>4, QueueNotice
<1> QED BY <1>1, <1>3, <1>4, <1>5

(* Asking the messaging service whether the user takes part. *)
LEMMA AuthorizeJoinStep ==
  ASSUME HubConstants, HubIInv, NEW c \in Conns, NEW cv \in Conversations, Hub!AuthorizeJoin(c, cv) PROVE HubIInv'
<1>1. PICK l \in ConnRecs : l = conn[c] BY ConnFacts
<1>2. l.at = "open" /\ l.op = None BY <1>1 DEF Hub!AuthorizeJoin, Hub!Reading
<1>3. ConnGood(UserOf[c], l, posting[c]) BY <1>1, ConnFacts
<1>4. posting[c] = None BY <1>2, <1>3 DEF ConnGood
<1>5. CASE Hub!CheckMembership(c, cv)
  <2>1. PICK o : o = [do |-> "join", conv |-> cv] OBVIOUS
  <2>2. o \in HubOps /\ o.do = "join" /\ o.conv = cv BY <2>1 DEF HubOps
  <2>3. PICK k : k = [l EXCEPT !.op = o] OBVIOUS
  <2>4. k \in ConnRecs /\ k.at = l.at /\ k.joined = l.joined /\ k.queue = l.queue /\ k.got = l.got /\ k.op = o
    BY <1>1, <2>2, <2>3 DEF ConnRecs
  <2>5. conn' = [conn EXCEPT ![c] = k] BY <1>1, <1>5, <2>1, <2>3 DEF Hub!AuthorizeJoin
  <2>6. UserOf[c] \in participants[cv] BY <1>5 DEF Hub!CheckMembership, Hub!IsParticipant
  <2>7. ConnGood(UserOf[c], k, posting[c]) BY <1>2, <1>3, <1>4, <2>2, <2>4, <2>6 DEF ConnGood
  <2> QED BY <1>1, <2>4, <2>5, <2>7, ConnFacts, ConnAlone DEF Hub!AuthorizeJoin
<1>6. CASE ~Hub!CheckMembership(c, cv)
  <2>1. PICK k : k = Hub!Reply(l) OBVIOUS
  <2>2. /\ k \in ConnRecs /\ k.at = l.at /\ k.joined = l.joined
        /\ k.op # None => k.op.do = "close"
    BY <2>1, ReplyForm
  <2>3. conn' = [conn EXCEPT ![c] = k] BY <1>1, <1>6, <2>1 DEF Hub!AuthorizeJoin
  <2>4. QueueGood(UserOf[c], k.queue, k.got) /\ Seen(k.queue, k.got) \subseteq Seen(l.queue, l.got)
    BY <1>1, <2>1, ReplyQueue
  <2>5. ConnGood(UserOf[c], k, posting[c]) BY <1>2, <1>3, <1>4, <2>2 DEF ConnGood
  <2> QED BY <1>1, <2>2, <2>3, <2>4, <2>5, ConnAlone DEF Hub!AuthorizeJoin
<1> QED BY <1>5, <1>6

(* Closing a subscription. *)
LEMMA CloseSubForm ==
  ASSUME HubConstants, NEW s \in SubRecs
  PROVE  /\ Hub!CloseSub(s) \in SubRecs \cup {Hub!Ended}
         /\ \A r, cv : ~OpenFor(Hub!CloseSub(s), r, cv)
         /\ Hub!CloseSub(s) \in SubRecs => Shrunk(s, Hub!CloseSub(s))
<1>1. PICK t : t = [s EXCEPT !.open = FALSE] OBVIOUS
<1>2. t \in SubRecs /\ t.open = FALSE /\ t.replica = s.replica /\ t.conv = s.conv /\ t.inbox = s.inbox
      /\ t.todo = s.todo /\ t.frame = s.frame
  BY <1>1 DEF SubRecs
<1>3. Hub!Ended.open = FALSE BY DEF Hub!Ended
<1>4. Hub!CloseSub(s) \in {t, Hub!Ended} BY <1>1 DEF Hub!CloseSub
<1>5. ~s.running => Hub!CloseSub(s) = Hub!Ended BY DEF Hub!CloseSub
<1>6. Hub!Ended \in SubRecs => FALSE
  <2>1. \A x \in SubRecs : "replica" \in DOMAIN x BY DEF SubRecs
  <2>2. "replica" \notin DOMAIN Hub!Ended BY DEF Hub!Ended
  <2> QED BY <2>1, <2>2
<1>7. \A r, cv : ~OpenFor(t, r, cv) /\ ~OpenFor(Hub!Ended, r, cv) BY <1>2, <1>3 DEF OpenFor
<1>8. Shrunk(s, t) BY <1>2 DEF Shrunk
<1> QED BY <1>2, <1>4, <1>6, <1>7, <1>8

(* The entry of a conversation that c leaves. *)
Left(c, e) == IF e.subscribers \subseteq {c} THEN None ELSE [e EXCEPT !.subscribers = @ \ {c}]

(* What leaveLocked does to the entries and the subscriptions. *)
LEMMA LeaveForm ==
  ASSUME HubConstants, HubTypes, MapsHold, NEW c \in Conns, NEW cvs \in SUBSET Conversations, Hub!leaveLocked(c, cvs)
  PROVE  /\ convs' \in [Hub!Replicas -> [Conversations -> Entries \cup {None}]]
         /\ \A r \in Hub!Replicas, cv \in Conversations :
              convs'[r][cv] = IF r # ReplicaOf[c] \/ cv \notin cvs \/ convs[r][cv] = None THEN convs[r][cv]
                              ELSE Left(c, convs[r][cv])
         /\ sub' \in [Hub!Subs -> SubRecs \cup {None, Hub!Ended}]
         /\ \A i \in Hub!Subs : sub'[i] \in SubRecs => Shrunk(sub[i], sub'[i])
         /\ \A i \in Hub!Subs, r \in Hub!Replicas, cv \in Conversations :
              OpenFor(sub'[i], r, cv) <=>
                /\ OpenFor(sub[i], r, cv)
                /\ ~(r = ReplicaOf[c] /\ cv \in cvs /\ convs[r][cv] # None /\ convs[r][cv].subscribers \subseteq {c})
<1>0. PICK R : R = ReplicaOf[c] /\ R \in Hub!Replicas BY DEF Hub!Replicas
<1>1. convs \in [Hub!Replicas -> [Conversations -> Entries \cup {None}]] /\ convs[R] \in [Conversations -> Entries \cup {None}]
  BY <1>0 DEF HubTypes
<1>2. PICK row : row = [cv \in Conversations |-> IF convs[R][cv] = None \/ cv \notin cvs THEN convs[R][cv]
                                               ELSE Left(c, convs[R][cv])]
  OBVIOUS
<1>3. convs' = [convs EXCEPT ![R] = row]
  <2>1. row = [cv \in Conversations |->
                 IF convs[R][cv] = None \/ cv \notin cvs THEN convs[R][cv]
                 ELSE IF convs[R][cv].subscribers \subseteq {c} THEN None
                 ELSE [convs[R][cv] EXCEPT !.subscribers = @ \ {c}]]
    BY <1>2 DEF Left
  <2> QED BY <1>0, <2>1 DEF Hub!leaveLocked, Hub!Without
<1>4. \A e \in Entries : Left(c, e) \in Entries \cup {None}
  <2> SUFFICES ASSUME NEW e \in Entries PROVE Left(c, e) \in Entries \cup {None} OBVIOUS
  <2>1. [e EXCEPT !.subscribers = @ \ {c}] \in Entries BY DEF Entries
  <2> QED BY <2>1 DEF Left
<1>5. row \in [Conversations -> Entries \cup {None}] BY <1>1, <1>2, <1>4
<1>6. convs' \in [Hub!Replicas -> [Conversations -> Entries \cup {None}]] BY <1>0, <1>1, <1>3, <1>5
<1>7. ASSUME NEW r \in Hub!Replicas, NEW cv \in Conversations
      PROVE convs'[r][cv] = IF r # ReplicaOf[c] \/ cv \notin cvs \/ convs[r][cv] = None THEN convs[r][cv]
                            ELSE Left(c, convs[r][cv])
  <2>1. CASE r = R
    <3>1. convs'[r] = row BY <1>0, <1>1, <1>3, <2>1
    <3> QED BY <1>0, <1>2, <2>1, <3>1
  <2>2. CASE r # R BY <1>0, <1>1, <1>3, <2>2
  <2> QED BY <2>1, <2>2
<1>8. PICK T : T = Hub!TornDown(c, cvs) OBVIOUS
<1>9. sub' = [i \in Hub!Subs |-> IF i \in T THEN Hub!CloseSub(sub[i]) ELSE sub[i]] BY <1>8 DEF Hub!leaveLocked
<1>10. \A i \in T : i \in Hub!Subs /\ \E cv \in cvs : convs[R][cv] # None /\ convs[R][cv].sub = i /\ convs[R][cv].subscribers \subseteq {c}
  BY <1>0, <1>8 DEF Hub!TornDown
<1>11. \A i \in Hub!Subs, cv \in cvs : convs[R][cv] # None /\ convs[R][cv].sub = i /\ convs[R][cv].subscribers \subseteq {c} => i \in T
  BY <1>0, <1>8 DEF Hub!TornDown
<1>12. ASSUME NEW cv \in cvs, convs[R][cv] # None
       PROVE  OpenSubs(R, cv) = {convs[R][cv].sub}
  <2>1. EntryGood(convs[R][cv], JoinedTo(R, cv), OpenSubs(R, cv)) BY <1>0 DEF MapsHold
  <2> QED BY <1>12, <2>1 DEF EntryGood
<1>13. ASSUME NEW i \in T
       PROVE  sub[i] \in SubRecs /\ \E cv \in cvs : convs[R][cv] # None /\ convs[R][cv].subscribers \subseteq {c} /\ OpenFor(sub[i], R, cv)
  <2>1. PICK cv \in cvs : convs[R][cv] # None /\ convs[R][cv].sub = i /\ convs[R][cv].subscribers \subseteq {c}
    BY <1>10
  <2>2. i \in OpenSubs(R, cv) BY <1>12, <2>1
  <2>3. OpenFor(sub[i], R, cv) /\ i \in Hub!Subs BY <2>2 DEF OpenSubs
  <2>4. sub[i] \in SubRecs \cup {None, Hub!Ended} BY <2>3 DEF HubTypes
  <2>5. Hub!Ended.open = FALSE BY DEF Hub!Ended
  <2> QED BY <2>1, <2>3, <2>4, <2>5 DEF OpenFor
<1>14. ASSUME NEW i \in Hub!Subs
       PROVE  /\ sub'[i] \in SubRecs \cup {None, Hub!Ended}
              /\ sub'[i] \in SubRecs => Shrunk(sub[i], sub'[i])
  <2>1. CASE i \in T
    <3>1. sub'[i] = Hub!CloseSub(sub[i]) /\ sub[i] \in SubRecs BY <1>9, <1>13, <2>1
    <3> QED BY <3>1, CloseSubForm
  <2>2. CASE i \notin T
    <3>1. sub'[i] = sub[i] /\ sub[i] \in SubRecs \cup {None, Hub!Ended} BY <1>9, <2>2 DEF HubTypes
    <3> QED BY <3>1 DEF Shrunk
  <2> QED BY <2>1, <2>2
<1>15. ASSUME NEW i \in Hub!Subs, NEW r \in Hub!Replicas, NEW cv \in Conversations
       PROVE  OpenFor(sub'[i], r, cv) <=>
                /\ OpenFor(sub[i], r, cv)
                /\ ~(r = R /\ cv \in cvs /\ convs[r][cv] # None /\ convs[r][cv].subscribers \subseteq {c})
  <2>1. CASE i \in T
    <3>1. sub'[i] = Hub!CloseSub(sub[i]) /\ sub[i] \in SubRecs BY <1>9, <1>13, <2>1
    <3>2. ~OpenFor(sub'[i], r, cv) BY <3>1, CloseSubForm
    <3>3. PICK v \in cvs : convs[R][v] # None /\ convs[R][v].subscribers \subseteq {c} /\ OpenFor(sub[i], R, v) BY <1>13, <2>1
    <3>4. OpenFor(sub[i], r, cv) => r = R /\ cv = v BY <3>3 DEF OpenFor
    <3> QED BY <3>2, <3>3, <3>4
  <2>2. CASE i \notin T
    <3>1. sub'[i] = sub[i] BY <1>9, <2>2
    <3>2. ASSUME OpenFor(sub[i], r, cv), r = R, cv \in cvs, convs[r][cv] # None, convs[r][cv].subscribers \subseteq {c}
          PROVE  FALSE
      <4>1. i \in OpenSubs(R, cv) BY <3>2 DEF OpenSubs
      <4>2. i = convs[R][cv].sub BY <1>12, <3>2, <4>1
      <4> QED BY <1>11, <2>2, <3>2, <4>2
    <3> QED BY <3>1, <3>2
  <2> QED BY <2>1, <2>2
<1>16. sub' \in [Hub!Subs -> SubRecs \cup {None, Hub!Ended}] BY <1>9, <1>14
<1> QED BY <1>0, <1>6, <1>7, <1>14, <1>15, <1>16

(* After c left, the entries are those of the others. *)
LEMMA LeaveEntries ==
  ASSUME HubConstants, HubTypes, MapsHold, NEW c \in Conns, NEW cvs \in SUBSET Conversations, Hub!leaveLocked(c, cvs),
         NEW k, conn' = [conn EXCEPT ![c] = k], Registers(conn[c].at),
         \A cv \in Conversations : (Registers(k.at) /\ cv \in k.joined) <=> (cv \in conn[c].joined /\ cv \notin cvs)
  PROVE  \A r \in Hub!Replicas, cv \in Conversations : EntryGood(convs'[r][cv], JoinedTo(r, cv)', OpenSubs(r, cv)')
<1> SUFFICES ASSUME NEW r \in Hub!Replicas, NEW cv \in Conversations
             PROVE  EntryGood(convs'[r][cv], JoinedTo(r, cv)', OpenSubs(r, cv)')
  OBVIOUS
<1>1. conn'[c] = k /\ \A o \in Conns \ {c} : conn'[o] = conn[o] BY DEF HubTypes
<1>2. JoinedTo(r, cv)' = IF r = ReplicaOf[c] /\ cv \in cvs THEN JoinedTo(r, cv) \ {c} ELSE JoinedTo(r, cv)
  <2>1. JoinedTo(r, cv)' = {o \in Conns : ReplicaOf[o] = r /\ Registers(conn'[o].at) /\ cv \in conn'[o].joined}
    BY DEF JoinedTo, Registers
  <2> QED BY <1>1, <2>1 DEF JoinedTo
<1>3. PICK e, J, O : e = convs[r][cv] /\ J = JoinedTo(r, cv) /\ O = OpenSubs(r, cv) OBVIOUS
<1>4. e \in Entries \cup {None} /\ EntryGood(e, J, O) BY <1>3 DEF HubTypes, MapsHold
<1>5. OpenSubs(r, cv)' = IF r = ReplicaOf[c] /\ cv \in cvs /\ e # None /\ e.subscribers \subseteq {c} THEN {} ELSE O
  <2>1. OpenSubs(r, cv)' = {i \in Hub!Subs : OpenFor(sub'[i], r, cv)} BY DEF OpenSubs, OpenFor, Hub!Subs
  <2>2. \A i \in Hub!Subs : OpenFor(sub'[i], r, cv) <=>
                /\ OpenFor(sub[i], r, cv)
                /\ ~(r = ReplicaOf[c] /\ cv \in cvs /\ e # None /\ e.subscribers \subseteq {c})
    BY <1>3, LeaveForm
  <2> QED BY <1>3, <2>1, <2>2 DEF OpenSubs
<1>6. convs'[r][cv] = IF r # ReplicaOf[c] \/ cv \notin cvs \/ e = None THEN e ELSE Left(c, e)
  BY <1>3, LeaveForm
<1>7. CASE r # ReplicaOf[c] \/ cv \notin cvs \/ e = None
  <2>1. convs'[r][cv] = e /\ OpenSubs(r, cv)' = O BY <1>5, <1>6, <1>7
  <2>2. JoinedTo(r, cv)' = J
    <3>1. e = None => J = {} BY <1>4 DEF EntryGood
    <3> QED BY <1>2, <1>3, <1>7, <3>1
  <2> QED BY <1>4, <2>1, <2>2
<1>8. CASE r = ReplicaOf[c] /\ cv \in cvs /\ e # None
  <2>1. e \in Entries /\ e.subscribers = J /\ J # {} /\ O = {e.sub} BY <1>4, <1>8 DEF EntryGood
  <2>2. convs'[r][cv] = Left(c, e) /\ JoinedTo(r, cv)' = J \ {c} BY <1>2, <1>3, <1>6, <1>8
  <2>3. CASE e.subscribers \subseteq {c}
    <3>1. Left(c, e) = None BY <2>3 DEF Left
    <3>2. J \ {c} = {} BY <2>1, <2>3
    <3>3. OpenSubs(r, cv)' = {} BY <1>5, <1>8, <2>3
    <3> QED BY <2>2, <3>1, <3>2, <3>3 DEF EntryGood
  <2>4. CASE ~(e.subscribers \subseteq {c})
    <3>1. PICK d : d = [e EXCEPT !.subscribers = @ \ {c}] OBVIOUS
    <3>2. d \in Entries /\ d.subscribers = J \ {c} /\ d.sub = e.sub BY <2>1, <3>1 DEF Entries
    <3>3. Left(c, e) = d /\ d # None BY <2>4, <3>1, <3>2 DEF Left, HubConstants
    <3>4. J \ {c} # {} BY <2>1, <2>4
    <3>5. OpenSubs(r, cv)' = {d.sub} BY <1>5, <2>1, <2>4, <3>2
    <3> QED BY <2>2, <3>2, <3>3, <3>4, <3>5 DEF EntryGood
  <2> QED BY <2>3, <2>4
<1> QED BY <1>7, <1>8

(* The types after a step of the hub. *)
LEMMA HubTypesNext ==
  ASSUME HubTypes, UNCHANGED Hub!msgVars, frames' \in Nat, conn' \in [Conns -> ConnRecs],
         convs' \in [Hub!Replicas -> [Conversations -> Entries \cup {None}]],
         userConns' \in [Hub!Replicas -> [Accounts -> Int]],
         sub' \in [Hub!Subs -> SubRecs \cup {None, Hub!Ended}], frames <= frames'
  PROVE  HubTypes' /\ HubGrows /\ posting' = posting
<1>m. participants' = participants /\ messages' = messages /\ posting' = posting /\ clock' = clock
  BY DEF Hub!msgVars
<1>1. HubTypes' BY <1>m DEF HubTypes, ConnRecs, SubRecs, Entries, Hub!Replicas, Hub!Subs, Hub!Ended, HubFrames, HubOps, HubPosts
<1>2. HubGrows BY <1>m DEF HubGrows
<1> QED BY <1>1, <1>2, <1>m

(* A step of c with new maps, when the messaging service is not involved. *)
LEMMA ConnMaps ==
  ASSUME HubConstants, HubIInv, HubTypes', HubGrows, posting' = posting, MapsHold',
         NEW c \in Conns, NEW k \in ConnRecs, conn' = [conn EXCEPT ![c] = k],
         \A i \in Hub!Subs : sub'[i] \in SubRecs => Shrunk(sub[i], sub'[i]),
         QueueGood(UserOf[c], k.queue, k.got),
         Seen(k.queue, k.got) \subseteq Seen(conn[c].queue, conn[c].got),
         ConnGood(UserOf[c], k, posting[c])
  PROVE  HubIInv'
<1>1. \A p : p = posting'[c] => ConnGood(UserOf[c], k, p)'
  <2> SUFFICES ASSUME NEW p, p = posting'[c] PROVE ConnGood(UserOf[c], k, p)' OBVIOUS
  <2>1. ConnGood(UserOf[c], k, p) /\ p \in HubPosts \cup {None} BY ConnFacts
  <2>2. HubTypes BY DEF HubIInv
  <2> QED BY <2>1, <2>2, ConnKept
<1> QED BY <1>1, ConnChange

(* A connection is registered. *)
LEMMA RegisterStep ==
  ASSUME HubConstants, HubIInv, NEW c \in Conns, Hub!Register(c) PROVE HubIInv'
<1>0. HubTypes /\ MapsHold BY DEF HubIInv
<1>1. PICK l \in ConnRecs : l = conn[c] BY ConnFacts
<1>2. PICK k : k = [l EXCEPT !.at = "registered"] OBVIOUS
<1>3. k \in ConnRecs /\ k.at = "registered" /\ k.joined = l.joined /\ k.queue = l.queue /\ k.got = l.got /\ k.op = l.op
  BY <1>1, <1>2 DEF ConnRecs
<1>4. l.at = "new" /\ conn' = [conn EXCEPT ![c] = k] BY <1>1, <1>2 DEF Hub!Register
<1>5. ConnGood(UserOf[c], l, posting[c]) BY <1>1, ConnFacts
<1>6. Registers(k.at) /\ ~Registers(l.at) BY <1>3, <1>4 DEF Registers
<1>7. l.joined = {} BY <1>5, <1>6 DEF ConnGood
<1>8. ConnGood(UserOf[c], k, posting[c]) BY <1>3, <1>4, <1>5, <1>6, <1>7 DEF ConnGood
<1>9. PICK R, U : R = ReplicaOf[c] /\ U = UserOf[c] /\ R \in Hub!Replicas /\ U \in Accounts BY ConnFacts
<1>10. userConns \in [Hub!Replicas -> [Accounts -> Int]] BY <1>0 DEF HubTypes
<1>11. userConns' = [userConns EXCEPT ![R][U] = userConns[R][U] + 1] BY <1>9 DEF Hub!Register
<1>12. /\ userConns' \in [Hub!Replicas -> [Accounts -> Int]]
       /\ \A r \in Hub!Replicas, u \in Accounts : userConns'[r][u] = IF r = R /\ u = U THEN userConns[r][u] + 1 ELSE userConns[r][u]
  BY <1>9, <1>10, <1>11
<1>13. convs' = convs /\ sub' = sub /\ frames' = frames /\ UNCHANGED Hub!msgVars BY DEF Hub!Register
<1>14. conn' \in [Conns -> ConnRecs] /\ conn'[c] = k /\ \A o \in Conns \ {c} : conn'[o] = conn[o]
  BY <1>0, <1>3, <1>4 DEF HubTypes
<1>15. HubTypes' /\ HubGrows /\ posting' = posting BY <1>0, <1>12, <1>13, <1>14, HubTypesNext DEF HubTypes
<1>16. ASSUME NEW r \in Hub!Replicas, NEW u \in Accounts PROVE userConns'[r][u] = Cardinality(RegisteredAs(r, u)')
  <2>1. userConns[r][u] = Cardinality(RegisteredAs(r, u)) BY <1>0 DEF MapsHold
  <2>2. IsFiniteSet(RegisteredAs(r, u)) BY FS_Subset DEF RegisteredAs, HubConstants
  <2>3. RegisteredAs(r, u)' = {o \in Conns : ReplicaOf[o] = r /\ UserOf[o] = u /\ Registers(conn'[o].at)}
    BY DEF RegisteredAs, Registers
  <2>4. CASE r = R /\ u = U
    <3>1. RegisteredAs(r, u)' = RegisteredAs(r, u) \cup {c} /\ c \notin RegisteredAs(r, u)
      BY <1>1, <1>6, <1>9, <1>14, <2>3, <2>4 DEF RegisteredAs
    <3>2. Cardinality(RegisteredAs(r, u)') = Cardinality(RegisteredAs(r, u)) + 1 BY <2>2, <3>1, FS_AddElement
    <3> QED BY <1>12, <2>1, <2>4, <3>2
  <2>5. CASE ~(r = R /\ u = U)
    <3>1. RegisteredAs(r, u)' = RegisteredAs(r, u) BY <1>9, <1>14, <2>3, <2>5 DEF RegisteredAs
    <3> QED BY <1>12, <2>1, <2>5, <3>1
  <2> QED BY <2>4, <2>5
<1>17. \A r \in Hub!Replicas, cv \in Conversations : JoinedTo(r, cv)' = JoinedTo(r, cv) /\ OpenSubs(r, cv)' = OpenSubs(r, cv)
  <2>1. \A r, cv : JoinedTo(r, cv)' = {o \in Conns : ReplicaOf[o] = r /\ Registers(conn'[o].at) /\ cv \in conn'[o].joined}
    BY DEF JoinedTo, Registers
  <2>2. \A r, cv : JoinedTo(r, cv)' = JoinedTo(r, cv) BY <1>1, <1>3, <1>7, <1>14, <2>1 DEF JoinedTo
  <2>3. \A r, cv : OpenSubs(r, cv)' = OpenSubs(r, cv) BY <1>13 DEF OpenSubs, OpenFor, Hub!Subs
  <2> QED BY <2>2, <2>3
<1>18. MapsHold'
  <2>1. Hub!Replicas' = Hub!Replicas BY DEF Hub!Replicas
  <2> QED BY <1>0, <1>13, <1>16, <1>17, <2>1 DEF MapsHold, EntryGood
<1>19. \A i \in Hub!Subs : sub'[i] \in SubRecs => Shrunk(sub[i], sub'[i]) BY <1>13 DEF Shrunk
<1>20. QueueGood(UserOf[c], k.queue, k.got) /\ Seen(k.queue, k.got) \subseteq Seen(conn[c].queue, conn[c].got)
  BY <1>1, <1>3, ConnFacts
<1> QED BY <1>3, <1>4, <1>8, <1>15, <1>18, <1>19, <1>20, ConnMaps

(* A connection leaves one conversation. *)
LEMMA LeaveStep ==
  ASSUME HubConstants, HubIInv, NEW c \in Conns, NEW cv \in Conversations, Hub!leave(c, cv) PROVE HubIInv'
<1>0. HubTypes /\ MapsHold BY DEF HubIInv
<1>1. PICK l \in ConnRecs : l = conn[c] BY ConnFacts
<1>2. PICK k : k = [l EXCEPT !.joined = l.joined \ {cv}] OBVIOUS
<1>3. k \in ConnRecs /\ k.at = l.at /\ k.joined = l.joined \ {cv} /\ k.queue = l.queue /\ k.got = l.got /\ k.op = l.op
  BY <1>1, <1>2 DEF ConnRecs
<1>4. l.at = "open" /\ conn' = [conn EXCEPT ![c] = k] BY <1>1, <1>2 DEF Hub!leave, Hub!Reading
<1>5. ConnGood(UserOf[c], l, posting[c]) BY <1>1, ConnFacts
<1>6. Registers(k.at) /\ Registers(l.at) BY <1>3, <1>4 DEF Registers
<1>7. ConnGood(UserOf[c], k, posting[c]) BY <1>3, <1>4, <1>5, <1>6 DEF ConnGood
<1>8. Hub!leaveLocked(c, {cv}) /\ userConns' = userConns /\ frames' = frames /\ UNCHANGED Hub!msgVars BY DEF Hub!leave
<1>9. /\ convs' \in [Hub!Replicas -> [Conversations -> Entries \cup {None}]]
      /\ sub' \in [Hub!Subs -> SubRecs \cup {None, Hub!Ended}]
      /\ \A i \in Hub!Subs : sub'[i] \in SubRecs => Shrunk(sub[i], sub'[i])
  BY <1>0, <1>8, LeaveForm
<1>10. conn' \in [Conns -> ConnRecs] /\ conn'[c] = k /\ \A o \in Conns \ {c} : conn'[o] = conn[o]
  BY <1>0, <1>3, <1>4 DEF HubTypes
<1>11. HubTypes' /\ HubGrows /\ posting' = posting BY <1>0, <1>8, <1>9, <1>10, HubTypesNext DEF HubTypes
<1>12. \A v \in Conversations : (Registers(k.at) /\ v \in k.joined) <=> (v \in conn[c].joined /\ v \notin {cv})
  BY <1>1, <1>3, <1>6
<1>13. \A r \in Hub!Replicas, v \in Conversations : EntryGood(convs'[r][v], JoinedTo(r, v)', OpenSubs(r, v)')
  BY <1>0, <1>1, <1>4, <1>6, <1>8, <1>12, LeaveEntries
<1>14. \A r, u : RegisteredAs(r, u)' = RegisteredAs(r, u)
  <2>1. \A r, u : RegisteredAs(r, u)' = {o \in Conns : ReplicaOf[o] = r /\ UserOf[o] = u /\ Registers(conn'[o].at)}
    BY DEF RegisteredAs, Registers
  <2> QED BY <1>1, <1>6, <1>10, <2>1 DEF RegisteredAs
<1>15. MapsHold'
  <2>1. Hub!Replicas' = Hub!Replicas BY DEF Hub!Replicas
  <2>2. \A r \in Hub!Replicas, u \in Accounts : userConns'[r][u] = Cardinality(RegisteredAs(r, u)')
    BY <1>0, <1>8, <1>14 DEF MapsHold
  <2> QED BY <1>13, <2>1, <2>2 DEF MapsHold, EntryGood
<1>16. QueueGood(UserOf[c], k.queue, k.got) /\ Seen(k.queue, k.got) \subseteq Seen(conn[c].queue, conn[c].got)
  BY <1>1, <1>3, ConnFacts
<1> QED BY <1>3, <1>4, <1>7, <1>9, <1>11, <1>15, <1>16, ConnMaps

(* A closed connection leaves all of its conversations. *)
LEMMA UnregisterStep ==
  ASSUME HubConstants, HubIInv, NEW c \in Conns, Hub!unregister(c) PROVE HubIInv'
<1>0. HubTypes /\ MapsHold BY DEF HubIInv
<1>1. PICK l \in ConnRecs : l = conn[c] BY ConnFacts
<1>2. PICK k : k = [Hub!Gone EXCEPT !.at = IF userConns[ReplicaOf[c]][UserOf[c]] - 1 = 0 THEN "clear" ELSE "gone"] OBVIOUS
<1>3. k \in ConnRecs /\ k.at \in {"gone", "clear"} /\ k.joined = {} /\ k.queue = <<>> /\ k.got = {} /\ k.op = None
  BY <1>2, GoneForm
<1>4. l.at = "closed" /\ conn' = [conn EXCEPT ![c] = k] BY <1>1, <1>2 DEF Hub!unregister
<1>5. ConnGood(UserOf[c], l, posting[c]) BY <1>1, ConnFacts
<1>6. ~Registers(k.at) /\ Registers(l.at) BY <1>3, <1>4 DEF Registers
<1>7. posting[c] = None
  <2>1. l.op = None BY <1>4, <1>5 DEF ConnGood
  <2> QED BY <1>4, <1>5, <2>1 DEF ConnGood
<1>8. ConnGood(UserOf[c], k, posting[c]) BY <1>3, <1>7 DEF ConnGood
<1>9. PICK J \in SUBSET Conversations : J = l.joined BY DEF ConnRecs
<1>10. Hub!leaveLocked(c, J) /\ frames' = frames /\ UNCHANGED Hub!msgVars BY <1>1, <1>9 DEF Hub!unregister
<1>11. /\ convs' \in [Hub!Replicas -> [Conversations -> Entries \cup {None}]]
       /\ sub' \in [Hub!Subs -> SubRecs \cup {None, Hub!Ended}]
       /\ \A i \in Hub!Subs : sub'[i] \in SubRecs => Shrunk(sub[i], sub'[i])
  BY <1>0, <1>10, LeaveForm
<1>12. conn' \in [Conns -> ConnRecs] /\ conn'[c] = k /\ \A o \in Conns \ {c} : conn'[o] = conn[o]
  BY <1>0, <1>3, <1>4 DEF HubTypes
<1>13. PICK R, U : R = ReplicaOf[c] /\ U = UserOf[c] /\ R \in Hub!Replicas /\ U \in Accounts BY ConnFacts
<1>14. userConns \in [Hub!Replicas -> [Accounts -> Int]] BY <1>0 DEF HubTypes
<1>15. userConns' = [userConns EXCEPT ![R][U] = userConns[R][U] - 1] BY <1>13 DEF Hub!unregister
<1>16. /\ userConns' \in [Hub!Replicas -> [Accounts -> Int]]
       /\ \A r \in Hub!Replicas, u \in Accounts : userConns'[r][u] = IF r = R /\ u = U THEN userConns[r][u] - 1 ELSE userConns[r][u]
  BY <1>13, <1>14, <1>15
<1>17. HubTypes' /\ HubGrows /\ posting' = posting BY <1>0, <1>10, <1>11, <1>12, <1>16, HubTypesNext DEF HubTypes
<1>18. \A v \in Conversations : (Registers(k.at) /\ v \in k.joined) <=> (v \in conn[c].joined /\ v \notin J)
  BY <1>1, <1>3, <1>9
<1>19. \A r \in Hub!Replicas, v \in Conversations : EntryGood(convs'[r][v], JoinedTo(r, v)', OpenSubs(r, v)')
  BY <1>0, <1>1, <1>4, <1>6, <1>10, <1>18, LeaveEntries
<1>20. ASSUME NEW r \in Hub!Replicas, NEW u \in Accounts PROVE userConns'[r][u] = Cardinality(RegisteredAs(r, u)')
  <2>1. userConns[r][u] = Cardinality(RegisteredAs(r, u)) BY <1>0 DEF MapsHold
  <2>2. IsFiniteSet(RegisteredAs(r, u)) BY FS_Subset DEF RegisteredAs, HubConstants
  <2>3. RegisteredAs(r, u)' = {o \in Conns : ReplicaOf[o] = r /\ UserOf[o] = u /\ Registers(conn'[o].at)}
    BY DEF RegisteredAs, Registers
  <2>4. CASE r = R /\ u = U
    <3>1. RegisteredAs(r, u)' = RegisteredAs(r, u) \ {c} /\ c \in RegisteredAs(r, u)
      BY <1>1, <1>6, <1>13, <1>12, <2>3, <2>4 DEF RegisteredAs
    <3>2. Cardinality(RegisteredAs(r, u)') = Cardinality(RegisteredAs(r, u)) - 1 BY <2>2, <3>1, FS_RemoveElement
    <3> QED BY <1>16, <2>1, <2>4, <3>2
  <2>5. CASE ~(r = R /\ u = U)
    <3>1. RegisteredAs(r, u)' = RegisteredAs(r, u) BY <1>13, <1>12, <2>3, <2>5 DEF RegisteredAs
    <3> QED BY <1>16, <2>1, <2>5, <3>1
  <2> QED BY <2>4, <2>5
<1>21. MapsHold'
  <2>1. Hub!Replicas' = Hub!Replicas BY DEF Hub!Replicas
  <2> QED BY <1>19, <1>20, <2>1 DEF MapsHold, EntryGood
<1>22. QueueGood(UserOf[c], k.queue, k.got) /\ Seen(k.queue, k.got) \subseteq Seen(conn[c].queue, conn[c].got)
  BY <1>3, ConnFacts, QueueEmpty
<1> QED BY <1>3, <1>4, <1>8, <1>11, <1>17, <1>21, <1>22, ConnMaps

(* The record of a connection that has joined one more conversation. *)
LEMMA JoinedForm ==
  ASSUME HubConstants, HubIInv, NEW c \in Conns, NEW cv, conn[c].at = "open", conn[c].op # None,
         conn[c].op.do = "join", conn[c].op.conv = cv,
         NEW k, k = Hub!Reply([conn[c] EXCEPT !.joined = @ \cup {cv}])
  PROVE  /\ cv \in Conversations /\ k \in ConnRecs /\ k.at = "open" /\ k.joined = conn[c].joined \cup {cv}
         /\ ConnGood(UserOf[c], k, posting[c])
         /\ QueueGood(UserOf[c], k.queue, k.got)
         /\ Seen(k.queue, k.got) \subseteq Seen(conn[c].queue, conn[c].got)
<1>1. PICK l \in ConnRecs : l = conn[c] BY ConnFacts
<1>2. PICK o \in HubOps : o = l.op BY <1>1 DEF ConnRecs
<1>3. cv \in Conversations
  <2>1. \A x \in HubOps : x.do = "join" => x.conv \in Conversations BY DEF HubOps
  <2> QED BY <1>1, <1>2, <2>1
<1>4. PICK j : j = [l EXCEPT !.joined = l.joined \cup {cv}] OBVIOUS
<1>5. j \in ConnRecs /\ j.at = l.at /\ j.joined = l.joined \cup {cv} /\ j.queue = l.queue /\ j.got = l.got
  BY <1>3, <1>4 DEF ConnRecs
<1>6. k = Hub!Reply(j) BY <1>1, <1>4
<1>7. k \in ConnRecs /\ k.at = l.at /\ k.joined = l.joined \cup {cv} /\ (k.op # None => k.op.do = "close")
  BY <1>5, <1>6, ReplyForm
<1>8. QueueGood(UserOf[c], k.queue, k.got) /\ Seen(k.queue, k.got) \subseteq Seen(conn[c].queue, conn[c].got)
  BY <1>1, <1>5, <1>6, ReplyQueue
<1>9. ConnGood(UserOf[c], l, posting[c]) BY <1>1, ConnFacts
<1>10. UserOf[c] \in participants[cv] /\ posting[c] = None BY <1>1, <1>9 DEF ConnGood
<1>11. Registers(k.at) BY <1>1, <1>7 DEF Registers
<1>12. ConnGood(UserOf[c], k, posting[c]) BY <1>1, <1>7, <1>9, <1>10, <1>11 DEF ConnGood
<1> QED BY <1>1, <1>3, <1>7, <1>8, <1>12

(* Connection c, now k, joins cv on replica R, whose entry is now e. *)
Joins(c, cv, k, R, e) ==
  /\ conn' = [conn EXCEPT ![c] = k] /\ conn[c].at = "open" /\ k.at = "open" /\ k.joined = conn[c].joined \cup {cv}
  /\ R = ReplicaOf[c] /\ userConns' = userConns
  /\ convs' = [convs EXCEPT ![R][cv] = e] /\ e.subscribers = JoinedTo(R, cv) \cup {c}
  /\ OpenSubs(R, cv)' = {e.sub}
  /\ \A r \in Hub!Replicas, v \in Conversations : ~(r = R /\ v = cv) => OpenSubs(r, v)' = OpenSubs(r, v)

(* A join adds c to the entry of its conversation and to no other. *)
LEMMA JoinMaps ==
  ASSUME HubConstants, HubTypes, MapsHold, NEW c \in Conns, NEW cv \in Conversations, NEW k \in ConnRecs,
         NEW R, NEW e \in Entries, Joins(c, cv, k, R, e)
  PROVE  MapsHold' /\ convs' \in [Hub!Replicas -> [Conversations -> Entries \cup {None}]]
<1>0. /\ conn' = [conn EXCEPT ![c] = k] /\ conn[c].at = "open" /\ k.at = "open" /\ k.joined = conn[c].joined \cup {cv}
      /\ R = ReplicaOf[c] /\ userConns' = userConns
      /\ convs' = [convs EXCEPT ![R][cv] = e] /\ e.subscribers = JoinedTo(R, cv) \cup {c}
      /\ OpenSubs(R, cv)' = {e.sub}
      /\ \A r \in Hub!Replicas, v \in Conversations : ~(r = R /\ v = cv) => OpenSubs(r, v)' = OpenSubs(r, v)
  BY DEF Joins
<1> USE <1>0
<1>1. R = ReplicaOf[c] /\ R \in Hub!Replicas BY DEF Hub!Replicas
<1>2. conn'[c] = k /\ \A o \in Conns \ {c} : conn'[o] = conn[o] BY DEF HubTypes
<1>3. Registers(k.at) /\ Registers(conn[c].at) BY DEF Registers
<1>4. \A r, v : JoinedTo(r, v)' = IF r = R /\ v = cv THEN JoinedTo(r, v) \cup {c} ELSE JoinedTo(r, v)
  <2>1. \A r, v : JoinedTo(r, v)' = {o \in Conns : ReplicaOf[o] = r /\ Registers(conn'[o].at) /\ v \in conn'[o].joined}
    BY DEF JoinedTo, Registers
  <2> QED BY <1>1, <1>2, <1>3, <2>1 DEF JoinedTo
<1>5. \A r, u : RegisteredAs(r, u)' = RegisteredAs(r, u)
  <2>1. \A r, u : RegisteredAs(r, u)' = {o \in Conns : ReplicaOf[o] = r /\ UserOf[o] = u /\ Registers(conn'[o].at)}
    BY DEF RegisteredAs, Registers
  <2> QED BY <1>2, <1>3, <2>1 DEF RegisteredAs
<1>6. convs \in [Hub!Replicas -> [Conversations -> Entries \cup {None}]] BY DEF HubTypes
<1>7. /\ convs' \in [Hub!Replicas -> [Conversations -> Entries \cup {None}]]
      /\ \A r \in Hub!Replicas, v \in Conversations : convs'[r][v] = IF r = R /\ v = cv THEN e ELSE convs[r][v]
  BY <1>1, <1>6
<1>8. ASSUME NEW r \in Hub!Replicas, NEW v \in Conversations
      PROVE  EntryGood(convs'[r][v], JoinedTo(r, v)', OpenSubs(r, v)')
  <2>1. CASE r = R /\ v = cv
    <3>1. convs'[r][v] = e /\ JoinedTo(r, v)' = e.subscribers /\ OpenSubs(r, v)' = {e.sub}
      BY <1>1, <1>4, <1>7, <2>1
    <3>2. e # None /\ e.subscribers # {} BY DEF HubConstants
    <3> QED BY <3>1, <3>2 DEF EntryGood
  <2>2. CASE ~(r = R /\ v = cv)
    <3>1. convs'[r][v] = convs[r][v] /\ JoinedTo(r, v)' = JoinedTo(r, v) /\ OpenSubs(r, v)' = OpenSubs(r, v)
      BY <1>1, <1>4, <1>7, <2>2
    <3> QED BY <3>1 DEF MapsHold
  <2> QED BY <2>1, <2>2
<1>9. \A r \in Hub!Replicas, u \in Accounts : userConns'[r][u] = Cardinality(RegisteredAs(r, u)') BY <1>5 DEF MapsHold
<1>10. Hub!Replicas' = Hub!Replicas BY DEF Hub!Replicas
<1>11. MapsHold' BY <1>8, <1>9, <1>10 DEF MapsHold, EntryGood
<1> QED BY <1>7, <1>11

(* The three ways a join ends. *)
LEMMA JoinStep ==
  ASSUME HubConstants, HubIInv, NEW c \in Conns, Hub!join(c) PROVE HubIInv'
<1>0. HubTypes /\ MapsHold BY DEF HubIInv
<1>1. PICK R, cv : R = ReplicaOf[c] /\ cv = conn[c].op.conv OBVIOUS
<1>2. conn[c].at = "open" /\ conn[c].op # None /\ conn[c].op.do = "join" BY DEF Hub!join
<1>3. userConns' = userConns /\ frames' = frames /\ UNCHANGED Hub!msgVars BY DEF Hub!join
<1>4. PICK k : k = Hub!Reply([conn[c] EXCEPT !.joined = @ \cup {cv}]) OBVIOUS
<1>5. /\ cv \in Conversations /\ k \in ConnRecs /\ k.at = "open" /\ k.joined = conn[c].joined \cup {cv}
      /\ ConnGood(UserOf[c], k, posting[c]) /\ QueueGood(UserOf[c], k.queue, k.got)
      /\ Seen(k.queue, k.got) \subseteq Seen(conn[c].queue, conn[c].got)
  BY <1>1, <1>2, <1>4, JoinedForm
<1>6. R \in Hub!Replicas BY <1>1 DEF Hub!Replicas
<1>7. convs \in [Hub!Replicas -> [Conversations -> Entries \cup {None}]] /\ convs[R][cv] \in Entries \cup {None}
  BY <1>0, <1>5, <1>6 DEF HubTypes
<1>8. EntryGood(convs[R][cv], JoinedTo(R, cv), OpenSubs(R, cv)) BY <1>0, <1>5, <1>6 DEF MapsHold
<1>9. CASE /\ convs[R][cv] # None
           /\ convs' = [convs EXCEPT ![R][cv].subscribers = @ \cup {c}]
           /\ conn' = [conn EXCEPT ![c] = k] /\ sub' = sub
  <2>1. PICK d, e : d = convs[R][cv] /\ e = [d EXCEPT !.subscribers = d.subscribers \cup {c}] OBVIOUS
  <2>2. d \in Entries /\ e \in Entries /\ e.subscribers = d.subscribers \cup {c} /\ e.sub = d.sub
    BY <1>7, <1>9, <2>1 DEF Entries
  <2>3. convs' = [convs EXCEPT ![R][cv] = e] BY <1>5, <1>6, <1>7, <1>9, <2>1
  <2>4. d.subscribers = JoinedTo(R, cv) /\ OpenSubs(R, cv) = {e.sub} BY <1>8, <1>9, <2>1, <2>2 DEF EntryGood
  <2>5. \A r, v : OpenSubs(r, v)' = OpenSubs(r, v) BY <1>9 DEF OpenSubs, OpenFor, Hub!Subs
  <2>6. OpenSubs(R, cv)' = {e.sub} /\ e.subscribers = JoinedTo(R, cv) \cup {c} BY <2>2, <2>4, <2>5
  <2>7. MapsHold' /\ convs' \in [Hub!Replicas -> [Conversations -> Entries \cup {None}]]
    <3>1. Joins(c, cv, k, R, e) BY <1>1, <1>2, <1>3, <1>5, <1>9, <2>3, <2>5, <2>6 DEF Joins
    <3> QED BY <1>0, <1>5, <2>2, <3>1, JoinMaps
  <2>8. conn' \in [Conns -> ConnRecs] BY <1>0, <1>5, <1>9 DEF HubTypes
  <2>9. HubTypes' /\ HubGrows /\ posting' = posting BY <1>0, <1>3, <1>9, <2>7, <2>8, HubTypesNext DEF HubTypes
  <2>10. \A i \in Hub!Subs : sub'[i] \in SubRecs => Shrunk(sub[i], sub'[i]) BY <1>9 DEF Shrunk
  <2> QED BY <1>5, <1>9, <2>7, <2>9, <2>10, ConnMaps
<1>10. CASE /\ convs[R][cv] = None
            /\ \E i \in Hub!Subs :
                 /\ sub[i] = None /\ sub' = [sub EXCEPT ![i] = Hub!NewSub(c, cv)]
                 /\ convs' = [convs EXCEPT ![R][cv] = [subscribers |-> {c}, sub |-> i]]
            /\ conn' = [conn EXCEPT ![c] = k]
  <2>1. PICK i \in Hub!Subs : /\ sub[i] = None /\ sub' = [sub EXCEPT ![i] = Hub!NewSub(c, cv)]
                              /\ convs' = [convs EXCEPT ![R][cv] = [subscribers |-> {c}, sub |-> i]]
    BY <1>10
  <2>2. PICK s, e : s = Hub!NewSub(c, cv) /\ e = [subscribers |-> {c}, sub |-> i] OBVIOUS
  <2>3. e \in Entries /\ e.subscribers = {c} /\ e.sub = i BY <2>2 DEF Entries
  <2>4. <<>> \in Seq(HubFrames) OBVIOUS
  <2>5. s \in SubRecs /\ s.open = TRUE /\ s.replica = R /\ s.conv = cv /\ s.inbox = <<>> /\ s.todo = {}
    BY <1>1, <1>5, <1>6, <2>2, <2>4 DEF Hub!NewSub, SubRecs
  <2>6. sub' \in [Hub!Subs -> SubRecs \cup {None, Hub!Ended}] /\ sub'[i] = s /\ \A j \in Hub!Subs \ {i} : sub'[j] = sub[j]
    BY <1>0, <2>1, <2>2, <2>5 DEF HubTypes
  <2>7. JoinedTo(R, cv) = {} /\ OpenSubs(R, cv) = {} BY <1>8, <1>10 DEF EntryGood
  <2>8. \A r, v : OpenSubs(r, v)' = {j \in Hub!Subs : OpenFor(sub'[j], r, v)} BY DEF OpenSubs, OpenFor, Hub!Subs
  <2>9. \A r, v : OpenFor(s, r, v) <=> r = R /\ v = cv BY <2>5 DEF OpenFor, HubConstants
  <2>10. \A r, v : ~OpenFor(sub[i], r, v) BY <2>1 DEF OpenFor
  <2>11. OpenSubs(R, cv)' = {e.sub}
    <3>1. \A j \in Hub!Subs : ~OpenFor(sub[j], R, cv) BY <2>7 DEF OpenSubs
    <3> QED BY <2>3, <2>6, <2>8, <2>9, <3>1
  <2>12. \A r \in Hub!Replicas, v \in Conversations : ~(r = R /\ v = cv) => OpenSubs(r, v)' = OpenSubs(r, v)
    BY <2>6, <2>8, <2>9, <2>10 DEF OpenSubs
  <2>13. e.subscribers = JoinedTo(R, cv) \cup {c} BY <2>3, <2>7
  <2>e. convs' = [convs EXCEPT ![R][cv] = e] BY <2>1, <2>2
  <2>14. MapsHold' /\ convs' \in [Hub!Replicas -> [Conversations -> Entries \cup {None}]]
    <3>1. Joins(c, cv, k, R, e) BY <1>1, <1>2, <1>3, <1>5, <1>10, <2>e, <2>11, <2>12, <2>13 DEF Joins
    <3> QED BY <1>0, <1>5, <2>3, <3>1, JoinMaps
  <2>15. conn' \in [Conns -> ConnRecs] BY <1>0, <1>5, <1>10 DEF HubTypes
  <2>16. HubTypes' /\ HubGrows /\ posting' = posting BY <1>0, <1>3, <2>6, <2>14, <2>15, HubTypesNext DEF HubTypes
  <2>17. \A j \in Hub!Subs : sub'[j] \in SubRecs => Shrunk(sub[j], sub'[j]) BY <2>5, <2>6 DEF Shrunk
  <2> QED BY <1>5, <1>10, <2>14, <2>16, <2>17, ConnMaps
<1>11. CASE conn' = [conn EXCEPT ![c] = Hub!Reply(conn[c])] /\ convs' = convs /\ sub' = sub
  <2>1. PICK l \in ConnRecs : l = conn[c] BY ConnFacts
  <2>2. PICK h : h = Hub!Reply(l) OBVIOUS
  <2>3. h \in ConnRecs /\ h.at = l.at /\ h.joined = l.joined /\ (h.op # None => h.op.do = "close") BY <2>2, ReplyForm
  <2>4. QueueGood(UserOf[c], h.queue, h.got) /\ Seen(h.queue, h.got) \subseteq Seen(conn[c].queue, conn[c].got)
    BY <2>1, <2>2, ReplyQueue
  <2>5. ConnGood(UserOf[c], l, posting[c]) BY <2>1, ConnFacts
  <2>6. posting[c] = None BY <1>2, <2>1, <2>5 DEF ConnGood
  <2>7. ConnGood(UserOf[c], h, posting[c]) BY <1>2, <2>1, <2>3, <2>5, <2>6 DEF ConnGood
  <2>8. conn' = [conn EXCEPT ![c] = h] BY <1>11, <2>1, <2>2
  <2> QED BY <1>3, <1>11, <2>1, <2>3, <2>4, <2>7, <2>8, ConnAlone
<1>12. \/ /\ convs[R][cv] # None
          /\ convs' = [convs EXCEPT ![R][cv].subscribers = @ \cup {c}]
          /\ conn' = [conn EXCEPT ![c] = k] /\ sub' = sub
       \/ /\ convs[R][cv] = None
          /\ \E i \in Hub!Subs :
               /\ sub[i] = None /\ sub' = [sub EXCEPT ![i] = Hub!NewSub(c, cv)]
               /\ convs' = [convs EXCEPT ![R][cv] = [subscribers |-> {c}, sub |-> i]]
          /\ conn' = [conn EXCEPT ![c] = k]
       \/ conn' = [conn EXCEPT ![c] = Hub!Reply(conn[c])] /\ convs' = convs /\ sub' = sub
  BY <1>1, <1>4 DEF Hub!join
<1> QED BY <1>9, <1>10, <1>11, <1>12

(* The types after a step of the messaging service. *)
LEMMA MsgTypesNext ==
  ASSUME HubTypes, frames' = frames, conn' \in [Conns -> ConnRecs], UNCHANGED <<convs, userConns, sub>>,
         participants' \in [Conversations -> SUBSET Accounts], messages' \in Seq(HubPosts),
         posting' \in [Posters -> HubPosts \cup {None}], clock' \in Nat,
         \A cv \in Conversations : participants[cv] \subseteq participants'[cv],
         \A i \in DOMAIN messages : i \in DOMAIN messages' /\ messages'[i] = messages[i]
  PROVE  HubTypes' /\ HubGrows
<1>1. HubTypes' BY DEF HubTypes, ConnRecs, SubRecs, Entries, Hub!Replicas, Hub!Subs, Hub!Ended, HubFrames, HubOps, HubPosts
<1>2. frames <= frames' BY DEF HubTypes
<1> QED BY <1>1, <1>2 DEF HubGrows

(* A conversation is created. *)
LEMMA HubCreateStep ==
  ASSUME HubConstants, HubIInv, NEW cv \in Conversations, NEW creator, NEW others,
         Hub!CreateConversation(cv, creator, others), UNCHANGED Hub!hubVars
  PROVE  HubIInv'
<1>0. HubTypes BY DEF HubIInv
<1>1. /\ participants[cv] = {} /\ Hub!AddParticipants(creator, others) \subseteq Accounts
      /\ participants' = [participants EXCEPT ![cv] = Hub!AddParticipants(creator, others)]
      /\ messages' = messages /\ posting' = posting /\ clock' = clock
  BY DEF Hub!CreateConversation
<1>2. conn' = conn /\ convs' = convs /\ userConns' = userConns /\ sub' = sub /\ frames' = frames BY DEF Hub!hubVars
<1>3. /\ participants' \in [Conversations -> SUBSET Accounts]
      /\ \A v \in Conversations : participants[v] \subseteq participants'[v]
  BY <1>0, <1>1 DEF HubTypes
<1>4. HubTypes' /\ HubGrows BY <1>0, <1>1, <1>2, <1>3, MsgTypesNext DEF HubTypes
<1> QED BY <1>1, <1>2, <1>4, HubStill

(* What a commit or a rollback of c's post does. *)
LEMMA PostForm ==
  ASSUME HubConstants, HubTypes, NEW c \in Conns, Hub!CommitPost(c) \/ Hub!RollbackPost(c)
  PROVE  /\ posting[c] \in HubPosts /\ posting'[c] = None /\ \A o \in Conns \ {c} : posting'[o] = posting[o]
         /\ posting' \in [Posters -> HubPosts \cup {None}] /\ participants' = participants /\ clock' = clock
         /\ messages' \in Seq(HubPosts)
         /\ \A i \in DOMAIN messages : i \in DOMAIN messages' /\ messages'[i] = messages[i]
         /\ Hub!CommitPost(c) => /\ Len(messages') \in DOMAIN messages' /\ Len(messages') \in Nat
                                 /\ messages'[Len(messages')] = posting[c]
<1>1. c \in Posters BY DEF HubConstants
<1>2. posting[c] # None /\ posting' = [posting EXCEPT ![c] = None] /\ participants' = participants /\ clock' = clock
  BY DEF Hub!CommitPost, Hub!RollbackPost
<1>3. posting[c] \in HubPosts BY <1>1, <1>2 DEF HubTypes
<1>4. /\ posting'[c] = None /\ posting' \in [Posters -> HubPosts \cup {None}]
      /\ \A o \in Conns \ {c} : posting'[o] = posting[o]
  BY <1>1, <1>2 DEF HubTypes, HubConstants
<1>5. Hub!CommitPost(c) => messages' = Append(messages, posting[c]) BY DEF Hub!CommitPost, Hub!InsertMessage
<1>6. Hub!RollbackPost(c) => messages' = messages BY DEF Hub!RollbackPost
<1>7. messages \in Seq(HubPosts) BY DEF HubTypes
<1>8. CASE Hub!CommitPost(c)
  <2>1. messages' = Append(messages, posting[c]) BY <1>5, <1>8
  <2>2. /\ messages' \in Seq(HubPosts) /\ Len(messages') = Len(messages) + 1
        /\ \A i \in DOMAIN messages : i \in DOMAIN messages' /\ messages'[i] = messages[i]
        /\ messages'[Len(messages) + 1] = posting[c] /\ Len(messages) + 1 \in DOMAIN messages'
    BY <1>3, <1>7, <2>1
  <2>3. Len(messages') \in Nat BY <2>2
  <2> QED BY <1>2, <1>3, <1>4, <2>2, <2>3
<1>9. CASE ~Hub!CommitPost(c) BY <1>2, <1>3, <1>4, <1>6, <1>7, <1>9
<1> QED BY <1>8, <1>9

(* A frame is persisted before it is sent. *)
LEMMA HandleSendStep ==
  ASSUME HubConstants, HubIInv, NEW c \in Conns, NEW cv \in Conversations, Hub!handleSend(c, cv) PROVE HubIInv'
<1>0. HubTypes BY DEF HubIInv
<1>1. PICK l \in ConnRecs : l = conn[c] BY ConnFacts
<1>2. l.at = "open" /\ l.op = None BY <1>1 DEF Hub!handleSend, Hub!Reading
<1>3. ConnGood(UserOf[c], l, posting[c]) BY <1>1, ConnFacts
<1>4. posting[c] = None BY <1>2, <1>3 DEF ConnGood
<1>5. PICK o : o = [do |-> "persist", conv |-> cv, id |-> None] OBVIOUS
<1>6. o \in HubOps /\ o.do = "persist" /\ o.conv = cv /\ o.id = None BY <1>5 DEF HubOps
<1>7. PICK k : k = [l EXCEPT !.op = o] OBVIOUS
<1>8. k \in ConnRecs /\ k.at = l.at /\ k.joined = l.joined /\ k.queue = l.queue /\ k.got = l.got /\ k.op = o
  BY <1>1, <1>6, <1>7 DEF ConnRecs
<1>9. conn' = [conn EXCEPT ![c] = k] /\ UNCHANGED <<convs, userConns, sub>> /\ frames' = frames
  BY <1>1, <1>5, <1>7 DEF Hub!handleSend
<1>10. o # None BY <1>6 DEF HubConstants
<1>11. CASE UNCHANGED Hub!msgVars
  <2>1. ConnGood(UserOf[c], k, posting[c]) BY <1>2, <1>3, <1>4, <1>6, <1>8, <1>10 DEF ConnGood
  <2> QED BY <1>1, <1>8, <1>9, <1>11, <2>1, ConnFacts, ConnAlone
<1>12. CASE Hub!BeginPost(c, cv, UserOf[c])
  <2>1. PICK p : p = [conv |-> cv, sender |-> UserOf[c], at |-> clock + 1] OBVIOUS
  <2>2. /\ UserOf[c] \in participants[cv] /\ clock' = clock + 1 /\ posting' = [posting EXCEPT ![c] = p]
        /\ participants' = participants /\ messages' = messages
    BY <1>12, <2>1 DEF Hub!BeginPost, Hub!IsParticipant
  <2>3. p \in HubPosts /\ p.conv = cv /\ p.sender = UserOf[c]
    <3>1. UserOf[c] \in Accounts BY ConnFacts
    <3>2. clock + 1 \in Nat BY <1>0 DEF HubTypes
    <3> QED BY <2>1, <3>1, <3>2 DEF HubPosts
  <2>4. c \in Posters BY DEF HubConstants
  <2>5. /\ posting' \in [Posters -> HubPosts \cup {None}] /\ posting'[c] = p /\ clock' \in Nat
        /\ \A x \in Conns \ {c} : posting'[x] = posting[x]
    BY <1>0, <2>2, <2>3, <2>4 DEF HubTypes, HubConstants
  <2>6. conn' \in [Conns -> ConnRecs] BY <1>0, <1>8, <1>9 DEF HubTypes
  <2>7. HubTypes' /\ HubGrows BY <1>0, <1>9, <2>2, <2>5, <2>6, MsgTypesNext DEF HubTypes
  <2>8. ConnGood(UserOf[c], k, p) BY <1>2, <1>3, <1>6, <1>8, <1>10, <2>2, <2>3 DEF ConnGood
  <2>9. ConnGood(UserOf[c], k, p)' BY <1>0, <1>8, <2>3, <2>7, <2>8, ConnKept
  <2>10. \A x : x = posting'[c] => ConnGood(UserOf[c], k, x)' BY <2>5, <2>9
  <2>11. Registers(k.at) = Registers(conn[c].at) /\ k.joined = conn[c].joined BY <1>1, <1>8
  <2>12. QueueGood(UserOf[c], k.queue, k.got) /\ Seen(k.queue, k.got) \subseteq Seen(conn[c].queue, conn[c].got)
    BY <1>1, <1>8, ConnFacts
  <2> QED BY <1>8, <1>9, <2>5, <2>7, <2>10, <2>11, <2>12, ConnStep
<1> QED BY <1>11, <1>12 DEF Hub!handleSend

(* The post commits and its answer arrives. *)
LEMMA PostAnsweredStep ==
  ASSUME HubConstants, HubIInv, NEW c \in Conns, Hub!PostAnswered(c) PROVE HubIInv'
<1>0. HubTypes BY DEF HubIInv
<1>1. PICK l \in ConnRecs : l = conn[c] BY ConnFacts
<1>2. Hub!CommitPost(c) /\ l.op # None /\ l.op.do = "persist" BY <1>1 DEF Hub!PostAnswered, Hub!Sending
<1>3. PICK p \in HubPosts : p = posting[c] BY <1>0, <1>2, PostForm
<1>4. PICK n \in Nat : n = Len(messages') /\ n \in DOMAIN messages' /\ messages'[n] = p BY <1>0, <1>2, <1>3, PostForm
<1>5. PICK o \in HubOps : o = l.op BY <1>1, <1>2 DEF ConnRecs
<1>6. o.do = "persist" BY <1>2, <1>5
<1>7. o \in [do : {"persist"}, conv : Conversations, id : Nat \cup {None}]
  <2>1. \A x \in [do : {"close"}] : x.do = "close" OBVIOUS
  <2>2. \A x \in [do : {"join"}, conv : Conversations] : x.do = "join" OBVIOUS
  <2> QED BY <1>6, <2>1, <2>2 DEF HubOps
<1>8. PICK q : q = [o EXCEPT !.id = n] OBVIOUS
<1>9. q \in [do : {"persist"}, conv : Conversations, id : Nat \cup {None}] /\ q.do = "persist" /\ q.conv = o.conv /\ q.id = n
  BY <1>7, <1>8
<1>10. q \in HubOps /\ q # None BY <1>9 DEF HubOps, HubConstants
<1>11. PICK k : k = [l EXCEPT !.op = q] OBVIOUS
<1>12. k \in ConnRecs /\ k.at = l.at /\ k.joined = l.joined /\ k.queue = l.queue /\ k.got = l.got /\ k.op = q
  BY <1>10, <1>11 DEF ConnRecs
<1>13. conn' = [conn EXCEPT ![c] = k] /\ UNCHANGED <<convs, userConns, sub>> /\ frames' = frames
  BY <1>1, <1>4, <1>5, <1>8, <1>11 DEF Hub!PostAnswered
<1>14. conn' \in [Conns -> ConnRecs] BY <1>0, <1>12, <1>13 DEF HubTypes
<1>15. /\ posting'[c] = None /\ \A x \in Conns \ {c} : posting'[x] = posting[x]
       /\ posting' \in [Posters -> HubPosts \cup {None}] /\ participants' = participants /\ clock' = clock
       /\ messages' \in Seq(HubPosts)
       /\ \A i \in DOMAIN messages : i \in DOMAIN messages' /\ messages'[i] = messages[i]
  BY <1>0, <1>2, PostForm
<1>16. HubTypes' /\ HubGrows BY <1>0, <1>13, <1>14, <1>15, MsgTypesNext DEF HubTypes
<1>17. ConnGood(UserOf[c], l, p) BY <1>1, <1>3, ConnFacts
<1>18. l.at = "open" BY <1>2, <1>17 DEF ConnGood
<1>19. p # None BY DEF HubConstants
<1>20. p.conv = o.conv /\ p.sender = UserOf[c] /\ UserOf[c] \in participants[p.conv]
  BY <1>5, <1>17, <1>18, <1>19 DEF ConnGood
<1>21. InHistory(n, o.conv, UserOf[c])' BY <1>4, <1>15, <1>20 DEF InHistory
<1>22. ConnGood(UserOf[c], k, None)'
  <2>1. \A v \in k.joined : UserOf[c] \in participants'[v] BY <1>12, <1>15, <1>17 DEF ConnGood
  <2>2. ~Registers(k.at) => k.joined = {} BY <1>12, <1>17 DEF ConnGood
  <2> QED BY <1>9, <1>12, <1>18, <1>21, <2>1, <2>2 DEF ConnGood, Registers
<1>23. \A x : x = posting'[c] => ConnGood(UserOf[c], k, x)' BY <1>15, <1>22
<1>24. Registers(k.at) = Registers(conn[c].at) /\ k.joined = conn[c].joined BY <1>1, <1>12
<1>25. QueueGood(UserOf[c], k.queue, k.got) /\ Seen(k.queue, k.got) \subseteq Seen(conn[c].queue, conn[c].got)
  BY <1>1, <1>12, ConnFacts
<1> QED BY <1>12, <1>13, <1>15, <1>16, <1>23, <1>24, <1>25, ConnStep

(* The post ends and its answer is lost. *)
LEMMA PostLostStep ==
  ASSUME HubConstants, HubIInv, NEW c \in Conns, Hub!PostLost(c) PROVE HubIInv'
<1>0. HubTypes BY DEF HubIInv
<1>1. PICK l \in ConnRecs : l = conn[c] BY ConnFacts
<1>2. Hub!CommitPost(c) \/ Hub!RollbackPost(c) BY DEF Hub!PostLost
<1>3. conn' = conn /\ convs' = convs /\ userConns' = userConns /\ sub' = sub /\ frames' = frames
  BY DEF Hub!PostLost, Hub!hubVars
<1>4. /\ posting'[c] = None /\ \A x \in Conns \ {c} : posting'[x] = posting[x]
      /\ posting' \in [Posters -> HubPosts \cup {None}] /\ participants' = participants /\ clock' = clock
      /\ messages' \in Seq(HubPosts)
      /\ \A i \in DOMAIN messages : i \in DOMAIN messages' /\ messages'[i] = messages[i]
  BY <1>0, <1>2, PostForm
<1>5. HubTypes' /\ HubGrows BY <1>0, <1>3, <1>4, MsgTypesNext DEF HubTypes
<1>6. ConnGood(UserOf[c], l, posting[c]) /\ posting[c] \in HubPosts \cup {None} BY <1>1, ConnFacts
<1>7. ConnGood(UserOf[c], l, None)' BY <1>0, <1>5, <1>6, ConnKept
<1>8. \A x : x = posting'[c] => ConnGood(UserOf[c], l, x)' BY <1>4, <1>7
<1>9. conn' = [conn EXCEPT ![c] = l] BY <1>0, <1>1, <1>3 DEF HubTypes
<1>10. QueueGood(UserOf[c], l.queue, l.got) /\ Seen(l.queue, l.got) \subseteq Seen(conn[c].queue, conn[c].got)
  BY <1>1, ConnFacts
<1> QED BY <1>1, <1>3, <1>4, <1>5, <1>8, <1>9, <1>10, ConnStep

(* The numbers of the frames a reader holds, and a connection has seen, were given out. *)
LEMMA GivenOut ==
  ASSUME HubTypes
  PROVE  /\ \A s, n : ReaderGood(s) /\ Held(s, n) => n \in 1 .. frames
         /\ \A u, q, g : QueueGood(u, q, g) => Seen(q, g) \subseteq 1 .. frames
<1>1. \A f : FrameGood(f) => f.n \in 1 .. frames BY DEF FrameGood
<1>2. \A s, n : ReaderGood(s) /\ Held(s, n) => n \in 1 .. frames BY <1>1 DEF ReaderGood, Held
<1>3. \A u, q, g : QueueGood(u, q, g) => Seen(q, g) \subseteq 1 .. frames BY <1>1 DEF QueueGood, Seen
<1> QED BY <1>2, <1>3

(* Reader s got the published frame f and is t now. *)
Receives(s, t, f) ==
  /\ s \in SubRecs /\ s.open /\ s.conv = f.conv
  /\ t = [s EXCEPT !.inbox = Append(s.inbox, f)]

(* What the reader holds then. *)
LEMMA ReceivesForm ==
  ASSUME HubConstants, HubTypes, HubTypes', HubGrows, NEW s, NEW t, NEW f, f \in HubFrames, f.n = frames + 1,
         \A x : x = f => FrameGood(x)', Receives(s, t, f), ReaderGood(s)
  PROVE  /\ t \in SubRecs /\ ReaderGood(t)' /\ t.replica = s.replica
         /\ \A n : Held(t, n) => Held(s, n) \/ n = frames + 1
         /\ \A c, seen : NotYet(s, c, seen) /\ frames + 1 \notin seen => NotYet(t, c, seen)
         /\ \A r, cv : OpenFor(t, r, cv) <=> OpenFor(s, r, cv)
<1>1. PICK m, l : m = s.inbox /\ l = Append(m, f) OBVIOUS
<1>2. m \in Seq(HubFrames) /\ s \in SubRecs /\ s.open /\ s.conv = f.conv /\ t = [s EXCEPT !.inbox = l]
  BY <1>1 DEF Receives, SubRecs
<1>3. PICK z : z = Len(m) + 1 OBVIOUS
<1>4. l \in Seq(HubFrames) /\ DOMAIN l = DOMAIN m \cup {z} /\ z \notin DOMAIN m /\ l[z] = f /\ \A k \in DOMAIN m : l[k] = m[k]
  BY <1>1, <1>2, <1>3
<1>5. /\ t \in SubRecs /\ t.inbox = l /\ t.replica = s.replica /\ t.conv = s.conv /\ t.todo = s.todo /\ t.frame = s.frame
      /\ t.open = s.open
  BY <1>2, <1>4 DEF SubRecs
<1>6. ReaderGood(s)' BY ReaderKept
<1>7. \A n : Held(s, n) => n # frames + 1
  <2>1. \A n : Held(s, n) => n \in 1 .. frames BY GivenOut
  <2> QED BY <2>1 DEF HubTypes
<1>8. \A k \in DOMAIN m : m[k].n # f.n BY <1>1, <1>7 DEF Held
<1>9. s.todo # {} => s.frame.n # f.n BY <1>7 DEF Held
<1>10. ReaderGood(t)'
  <2>1. \A k \in DOMAIN l : FrameGood(l[k])' /\ l[k].conv = t.conv
    <3> SUFFICES ASSUME NEW k \in DOMAIN l PROVE FrameGood(l[k])' /\ l[k].conv = t.conv OBVIOUS
    <3>1. CASE k \in DOMAIN m
      <4>1. PICK x : x = m[k] OBVIOUS
      <4>2. FrameGood(x)' /\ x.conv = s.conv BY <1>1, <1>6, <3>1, <4>1 DEF ReaderGood
      <4> QED BY <1>4, <1>5, <3>1, <4>1, <4>2
    <3>2. CASE k = z BY <1>2, <1>4, <1>5, <3>2
    <3> QED BY <1>4, <3>1, <3>2
  <2>2. \A k, j \in DOMAIN l : l[k].n = l[j].n => k = j
    <3>1. \A k, j \in DOMAIN m : m[k].n = m[j].n => k = j BY <1>1 DEF ReaderGood
    <3> QED BY <1>4, <1>8, <3>1
  <2>3. t.todo # {} => FrameGood(t.frame)' /\ t.frame.conv = t.conv /\ \A k \in DOMAIN l : l[k].n # t.frame.n
    <3> SUFFICES ASSUME t.todo # {} PROVE FrameGood(t.frame)' /\ t.frame.conv = t.conv /\ \A k \in DOMAIN l : l[k].n # t.frame.n
      OBVIOUS
    <3>1. PICK x : x = s.frame OBVIOUS
    <3>2. FrameGood(x)' /\ x.conv = s.conv BY <1>5, <1>6, <3>1 DEF ReaderGood
    <3>3. \A k \in DOMAIN m : m[k].n # x.n BY <1>1, <1>5, <3>1 DEF ReaderGood
    <3> QED BY <1>4, <1>5, <1>9, <3>1, <3>2, <3>3
  <2>4. \A c \in t.todo : ReplicaOf[c] = t.replica /\ MayReach(t.frame, UserOf[c])' BY <1>5, <1>6 DEF ReaderGood
  <2> QED BY <1>5, <2>1, <2>2, <2>3, <2>4 DEF ReaderGood
<1>11. \A n : Held(t, n) => Held(s, n) \/ n = frames + 1 BY <1>1, <1>4, <1>5 DEF Held
<1>12. \A c, seen : NotYet(s, c, seen) /\ frames + 1 \notin seen => NotYet(t, c, seen) BY <1>1, <1>4, <1>5 DEF NotYet
<1>13. \A r, cv : OpenFor(t, r, cv) <=> OpenFor(s, r, cv)
  BY <1>2, <1>5 DEF OpenFor, HubConstants
<1> QED BY <1>5, <1>10, <1>11, <1>12, <1>13

(* A frame is published: what every reader has then. *)
LEMMA PublishDelivers ==
  ASSUME HubConstants, HubIInv, HubTypes', HubGrows, NEW f, f \in HubFrames, f.n = frames + 1,
         \A x : x = f => FrameGood(x)', Hub!Publish(f),
         \A c \in Conns : conn'[c].queue = conn[c].queue /\ conn'[c].got = conn[c].got
  PROVE  Delivering' /\ \A i \in Hub!Subs : \A r, cv : OpenFor(sub'[i], r, cv) <=> OpenFor(sub[i], r, cv)
<1>0. HubTypes /\ MapsHold /\ Delivering BY DEF HubIInv
<1>s. Hub!Subs' = Hub!Subs /\ SubRecs' = SubRecs BY DEF Hub!Subs, SubRecs, Hub!Replicas, HubFrames
<1>1. ASSUME NEW i \in Hub!Subs PROVE sub'[i] = sub[i] \/ Receives(sub[i], sub'[i], f)
  <2>1. CASE UNCHANGED sub BY <2>1
  <2>2. CASE sub' = [j \in Hub!Subs |-> IF sub[j] # None /\ sub[j].open /\ sub[j].running /\ sub[j].conv = f.conv
                                        THEN [sub[j] EXCEPT !.inbox = Append(@, f)] ELSE sub[j]]
    <3>1. sub[i] \in SubRecs \cup {None, Hub!Ended} BY <1>0 DEF HubTypes
    <3>2. Hub!Ended.open = FALSE BY DEF Hub!Ended
    <3>3. CASE sub[i] # None /\ sub[i].open /\ sub[i].running /\ sub[i].conv = f.conv
      <4>1. sub[i] \in SubRecs BY <3>1, <3>2, <3>3
      <4>2. sub'[i] = [sub[i] EXCEPT !.inbox = Append(sub[i].inbox, f)] BY <2>2, <3>3
      <4> QED BY <3>3, <4>1, <4>2 DEF Receives
    <3>4. CASE ~(sub[i] # None /\ sub[i].open /\ sub[i].running /\ sub[i].conv = f.conv) BY <2>2, <3>4
    <3> QED BY <3>3, <3>4
  <2> QED BY <2>1, <2>2 DEF Hub!Publish
<1>2. ASSUME NEW c \in Conns
      PROVE  /\ QueueGood(UserOf[c], conn[c].queue, conn[c].got)'
             /\ frames + 1 \notin Seen(conn[c].queue, conn[c].got)
             /\ Seen(conn[c].queue, conn[c].got)' = Seen(conn[c].queue, conn[c].got)
  <2>1. PICK q, g : q = conn[c].queue /\ g = conn[c].got OBVIOUS
  <2>2. QueueGood(UserOf[c], q, g) BY <1>0, <2>1 DEF Delivering
  <2>3. QueueGood(UserOf[c], q, g)' BY <1>0, <2>2, QueueKept
  <2>4. Seen(q, g) \subseteq 1 .. frames BY <1>0, <2>2, GivenOut
  <2>5. frames + 1 \notin Seen(q, g) BY <1>0, <2>4 DEF HubTypes
  <2>6. Seen(q, g)' = Seen(q, g) BY DEF Seen, Hub!Notice
  <2>7. conn'[c].queue = q /\ conn'[c].got = g BY <2>1
  <2>8. Seen(conn[c].queue, conn[c].got)' = Seen(q, g) BY <2>6, <2>7 DEF Seen
  <2> QED BY <2>1, <2>3, <2>5, <2>7, <2>8
<1>3. ASSUME NEW i \in Hub!Subs, sub'[i] \in SubRecs
      PROVE  /\ sub[i] \in SubRecs /\ sub[i].replica = sub'[i].replica /\ ReaderGood(sub[i])'
             /\ \A c \in Conns : NotYet(sub'[i], c, Seen(conn[c].queue, conn[c].got))
             /\ \A n : Held(sub'[i], n) => Held(sub[i], n) \/ (n = frames + 1 /\ OpenFor(sub[i], sub[i].replica, f.conv))
             /\ \A n : Held(sub[i], n) => n \in 1 .. frames
  <2>1. PICK s, t : s = sub[i] /\ t = sub'[i] OBVIOUS
  <2>2. CASE t = s
    <3>1. ReaderGood(s) /\ \A c \in Conns : NotYet(s, c, Seen(conn[c].queue, conn[c].got)) BY <1>0, <1>3, <2>1, <2>2 DEF Delivering
    <3>2. ReaderGood(t)' BY <1>0, <2>2, <3>1, ReaderKept
    <3>3. \A n : Held(s, n) => n \in 1 .. frames BY <1>0, <3>1, GivenOut
    <3> QED BY <1>3, <2>1, <2>2, <3>1, <3>2, <3>3
  <2>3. CASE Receives(s, t, f)
    <3>1. s \in SubRecs /\ s.open /\ s.conv = f.conv BY <2>3 DEF Receives
    <3>2. ReaderGood(s) /\ \A c \in Conns : NotYet(s, c, Seen(conn[c].queue, conn[c].got)) BY <1>0, <2>1, <3>1 DEF Delivering
    <3>3. /\ ReaderGood(t)' /\ t.replica = s.replica
          /\ \A n : Held(t, n) => Held(s, n) \/ n = frames + 1
          /\ \A c, seen : NotYet(s, c, seen) /\ frames + 1 \notin seen => NotYet(t, c, seen)
      BY <1>0, <2>3, <3>2, ReceivesForm
    <3>4. \A c \in Conns : NotYet(t, c, Seen(conn[c].queue, conn[c].got)) BY <1>2, <3>2, <3>3
    <3>5. OpenFor(s, s.replica, f.conv) BY <3>1 DEF OpenFor, HubConstants
    <3>6. \A n : Held(s, n) => n \in 1 .. frames BY <1>0, <3>2, GivenOut
    <3> QED BY <2>1, <3>1, <3>3, <3>4, <3>5, <3>6
  <2> QED BY <1>1, <2>1, <2>2, <2>3
<1>4. ASSUME NEW i \in Hub!Subs, sub'[i] \in SubRecs, NEW j \in Hub!Subs, sub'[j] \in SubRecs, i # j,
             sub'[i].replica = sub'[j].replica, NEW n \in Nat, Held(sub'[i], n), Held(sub'[j], n)
      PROVE  FALSE
  <2>1. sub[i] \in SubRecs /\ sub[j] \in SubRecs /\ sub[i].replica = sub[j].replica BY <1>3, <1>4
  <2>2. ~(Held(sub[i], n) /\ Held(sub[j], n)) BY <1>0, <1>4, <2>1 DEF Delivering
  <2>3. n = frames + 1 BY <1>3, <1>4, <2>2
  <2>4. n \notin 1 .. frames BY <1>0, <2>3 DEF HubTypes
  <2>5. OpenFor(sub[i], sub[i].replica, f.conv) /\ OpenFor(sub[j], sub[i].replica, f.conv) BY <1>3, <1>4, <2>1, <2>4
  <2>6. PICK r : r = sub[i].replica OBVIOUS
  <2>7. i \in OpenSubs(r, f.conv) /\ j \in OpenSubs(r, f.conv) BY <2>5, <2>6 DEF OpenSubs
  <2>8. r \in Hub!Replicas BY <2>1, <2>6 DEF SubRecs
  <2>9. f.conv \in Conversations BY DEF FrameGood
  <2>10. EntryGood(convs[r][f.conv], JoinedTo(r, f.conv), OpenSubs(r, f.conv)) BY <1>0, <2>8, <2>9 DEF MapsHold
  <2> QED BY <1>4, <2>7, <2>10 DEF EntryGood
<1>5. \A i \in Hub!Subs : \A n : Held(sub[i], n)' = Held(sub'[i], n) BY DEF Held
<1>6. \A i \in Hub!Subs, c \in Conns : sub'[i] \in SubRecs => NotYet(sub[i], c, Seen(conn[c].queue, conn[c].got))'
  BY <1>2, <1>3 DEF NotYet
<1>7. Delivering' BY <1>s, <1>2, <1>3, <1>4, <1>5, <1>6 DEF Delivering
<1>8. \A i \in Hub!Subs : \A r, cv : OpenFor(sub'[i], r, cv) <=> OpenFor(sub[i], r, cv)
  <2> SUFFICES ASSUME NEW i \in Hub!Subs, NEW r, NEW cv PROVE OpenFor(sub'[i], r, cv) <=> OpenFor(sub[i], r, cv) OBVIOUS
  <2>1. CASE sub'[i] = sub[i] BY <2>1
  <2>2. CASE Receives(sub[i], sub'[i], f)
    <3>1. ReaderGood(sub[i]) BY <1>0, <2>2 DEF Delivering, Receives
    <3>2. PICK s, t : s = sub[i] /\ t = sub'[i] OBVIOUS
    <3>3. OpenFor(t, r, cv) <=> OpenFor(s, r, cv) BY <1>0, <2>2, <3>1, <3>2, ReceivesForm
    <3> QED BY <3>2, <3>3
  <2> QED BY <1>1, <2>1, <2>2
<1> QED BY <1>7, <1>8

(* The types after a frame is published. *)
LEMMA PublishTypes ==
  ASSUME HubTypes, NEW f \in HubFrames, Hub!Publish(f)
  PROVE  sub' \in [Hub!Subs -> SubRecs \cup {None, Hub!Ended}] /\ frames' = frames + 1
<1>1. frames' = frames + 1 BY DEF Hub!Publish
<1>2. CASE UNCHANGED sub BY <1>1, <1>2 DEF HubTypes
<1>3. CASE sub' = [j \in Hub!Subs |-> IF sub[j] # None /\ sub[j].open /\ sub[j].running /\ sub[j].conv = f.conv
                                      THEN [sub[j] EXCEPT !.inbox = Append(@, f)] ELSE sub[j]]
  <2>1. ASSUME NEW i \in Hub!Subs, sub[i] # None, sub[i].open
        PROVE  [sub[i] EXCEPT !.inbox = Append(@, f)] \in SubRecs
    <3>1. PICK s : s = sub[i] OBVIOUS
    <3>2. Hub!Ended.open = FALSE BY DEF Hub!Ended
    <3>3. s \in SubRecs BY <2>1, <3>1, <3>2 DEF HubTypes
    <3>4. PICK m : m = Append(s.inbox, f) OBVIOUS
    <3>5. m \in Seq(HubFrames) BY <3>3, <3>4 DEF SubRecs
    <3>6. [s EXCEPT !.inbox = m] \in SubRecs BY <3>3, <3>5 DEF SubRecs
    <3> QED BY <3>1, <3>4, <3>6
  <2>2. \A i \in Hub!Subs : sub[i] \in SubRecs \cup {None, Hub!Ended} BY DEF HubTypes
  <2> QED BY <1>1, <1>3, <2>1, <2>2
<1> QED BY <1>2, <1>3 DEF Hub!Publish

(* A step of c, or of nobody, that publishes a frame. *)
LEMMA PublishStep ==
  ASSUME HubConstants, HubIInv, NEW c \in Conns, NEW k \in ConnRecs, NEW f \in HubFrames,
         f.n = frames + 1, f.conv \in Conversations, f.id # None => InHistory(f.id, f.conv, f.sender),
         Hub!Publish(f), conn' = [conn EXCEPT ![c] = k],
         UNCHANGED <<convs, userConns>>, UNCHANGED Hub!msgVars,
         k.at = conn[c].at, k.joined = conn[c].joined, k.queue = conn[c].queue, k.got = conn[c].got,
         ConnGood(UserOf[c], k, posting[c])
  PROVE  HubIInv'
<1>0. HubTypes /\ MapsHold BY DEF HubIInv
<1>m. participants' = participants /\ messages' = messages /\ posting' = posting BY DEF Hub!msgVars
<1>1. sub' \in [Hub!Subs -> SubRecs \cup {None, Hub!Ended}] /\ frames' = frames + 1 BY <1>0, PublishTypes
<1>2. conn' \in [Conns -> ConnRecs] /\ conn'[c] = k /\ \A o \in Conns \ {c} : conn'[o] = conn[o] BY <1>0 DEF HubTypes
<1>3. frames' \in Nat /\ frames <= frames' BY <1>0, <1>1 DEF HubTypes
<1>4. HubTypes' /\ HubGrows BY <1>0, <1>1, <1>2, <1>3, HubTypesNext DEF HubTypes
<1>5. \A x : x = f => FrameGood(x)'
  <2>1. f.n \in 1 .. frames' BY <1>0, <1>1 DEF HubTypes
  <2>2. f.id # None => InHistory(f.id, f.conv, f.sender)' BY <1>m DEF InHistory
  <2>3. HubFrames' = HubFrames BY DEF HubFrames
  <2> QED BY <2>1, <2>2, <2>3 DEF FrameGood
<1>6. \A o \in Conns : conn'[o].queue = conn[o].queue /\ conn'[o].got = conn[o].got BY <1>2
<1>7. Delivering' /\ \A i \in Hub!Subs : \A r, cv : OpenFor(sub'[i], r, cv) <=> OpenFor(sub[i], r, cv)
  BY <1>4, <1>5, <1>6, PublishDelivers
<1>8. MapsHold' BY <1>0, <1>2, <1>7, MapsKept
<1>9. ASSUME NEW o \in Conns PROVE ConnGood(UserOf[o], conn[o], posting[o])'
  <2>1. PICK l, p : l = conn'[o] /\ p = posting[o] OBVIOUS
  <2>2. l \in ConnRecs /\ p \in HubPosts \cup {None} BY <1>2, <2>1, ConnFacts
  <2>3. ConnGood(UserOf[o], l, p) BY <1>2, <2>1, ConnFacts
  <2>4. ConnGood(UserOf[o], l, p)' BY <1>0, <1>4, <2>2, <2>3, ConnKept
  <2> QED BY <1>m, <2>1, <2>4
<1> QED BY <1>4, <1>7, <1>8, <1>9 DEF HubIInv

(* A typing frame goes out. *)
LEMMA EphemeralStep ==
  ASSUME HubConstants, HubIInv, NEW c \in Conns, NEW cv \in Conversations, Hub!handleEphemeral(c, cv) PROVE HubIInv'
<1>0. HubTypes BY DEF HubIInv
<1>1. PICK f : f = Hub!Frame("typing", cv, UserOf[c], None) OBVIOUS
<1>2. f = [n |-> frames + 1, type |-> "typing", conv |-> cv, sender |-> UserOf[c], id |-> None] BY <1>1 DEF Hub!Frame
<1>3. UserOf[c] \in Accounts /\ frames + 1 \in Nat BY <1>0, ConnFacts DEF HubTypes
<1>4. f \in HubFrames /\ f.n = frames + 1 /\ f.conv = cv /\ f.id = None BY <1>2, <1>3 DEF HubFrames
<1>5. Hub!Publish(f) /\ conn' = conn /\ UNCHANGED <<convs, userConns>> /\ UNCHANGED Hub!msgVars
  BY <1>1 DEF Hub!handleEphemeral
<1>6. PICK k \in ConnRecs : k = conn[c] BY ConnFacts
<1>7. conn' = [conn EXCEPT ![c] = k] BY <1>0, <1>5, <1>6 DEF HubTypes
<1>8. ConnGood(UserOf[c], k, posting[c]) BY <1>6, ConnFacts
<1> QED BY <1>4, <1>5, <1>6, <1>7, <1>8, PublishStep

(* A message goes out, with the id under which it is in the history if that is known. *)
LEMMA FanOutStep ==
  ASSUME HubConstants, HubIInv, NEW c \in Conns, Hub!FanOut(c) PROVE HubIInv'
<1>0. HubTypes BY DEF HubIInv
<1>1. PICK l \in ConnRecs : l = conn[c] BY ConnFacts
<1>2. l.op # None /\ l.op.do = "persist" /\ posting[c] = None BY <1>1 DEF Hub!FanOut, Hub!Sending
<1>3. PICK o \in HubOps : o = l.op BY <1>1, <1>2 DEF ConnRecs
<1>4. o \in [do : {"persist"}, conv : Conversations, id : Nat \cup {None}]
  <2>1. \A x \in [do : {"close"}] : x.do = "close" OBVIOUS
  <2>2. \A x \in [do : {"join"}, conv : Conversations] : x.do = "join" OBVIOUS
  <2> QED BY <1>2, <1>3, <2>1, <2>2 DEF HubOps
<1>5. o.conv \in Conversations /\ o.id \in Nat \cup {None} BY <1>4
<1>6. ConnGood(UserOf[c], l, posting[c]) BY <1>1, ConnFacts
<1>7. o.id # None => InHistory(o.id, o.conv, UserOf[c]) BY <1>2, <1>3, <1>6 DEF ConnGood
<1>8. PICK f : f = Hub!Frame("message.sent", o.conv, UserOf[c], o.id) OBVIOUS
<1>9. f = [n |-> frames + 1, type |-> "message.sent", conv |-> o.conv, sender |-> UserOf[c], id |-> o.id] BY <1>8 DEF Hub!Frame
<1>10. UserOf[c] \in Accounts /\ frames + 1 \in Nat BY <1>0, ConnFacts DEF HubTypes
<1>11. f \in HubFrames /\ f.n = frames + 1 /\ f.conv = o.conv /\ f.id = o.id /\ f.sender = UserOf[c]
  BY <1>5, <1>9, <1>10 DEF HubFrames
<1>12. PICK k : k = [l EXCEPT !.op = None] OBVIOUS
<1>13. k \in ConnRecs /\ k.at = l.at /\ k.joined = l.joined /\ k.queue = l.queue /\ k.got = l.got /\ k.op = None
  BY <1>1, <1>12 DEF ConnRecs
<1>14. Hub!Publish(f) /\ conn' = [conn EXCEPT ![c] = k] /\ UNCHANGED <<convs, userConns>> /\ UNCHANGED Hub!msgVars
  BY <1>1, <1>3, <1>8, <1>12 DEF Hub!FanOut
<1>15. ConnGood(UserOf[c], k, posting[c]) BY <1>2, <1>6, <1>13 DEF ConnGood
<1> QED BY <1>1, <1>5, <1>7, <1>11, <1>13, <1>14, <1>15, PublishStep

(* Reader t is in good order and holds only what s held. *)
HoldsLess(s, t) ==
  /\ s \in SubRecs /\ t.replica = s.replica /\ ReaderGood(t)
  /\ \A n : Held(t, n) => Held(s, n)

(* A step of reader i that may put a frame into the queue of c. *)
LEMMA ReaderChange ==
  ASSUME HubConstants, HubIInv, NEW i \in Hub!Subs, NEW t \in SubRecs \cup {Hub!Ended}, NEW c \in Conns, NEW k \in ConnRecs,
         sub' = [sub EXCEPT ![i] = t], conn' = [conn EXCEPT ![c] = k],
         UNCHANGED <<convs, userConns, frames>>, UNCHANGED Hub!msgVars,
         k.at = conn[c].at, k.joined = conn[c].joined, k.op = conn[c].op,
         \A r, cv : OpenFor(t, r, cv) <=> OpenFor(sub[i], r, cv),
         QueueGood(UserOf[c], k.queue, k.got),
         \A j \in Hub!Subs \ {i} : sub[j] \in SubRecs => NotYet(sub[j], c, Seen(k.queue, k.got)),
         t \in SubRecs => HoldsLess(sub[i], t),
         t \in SubRecs => NotYet(t, c, Seen(k.queue, k.got)),
         t \in SubRecs => \A o \in Conns \ {c} : NotYet(t, o, Seen(conn[o].queue, conn[o].got))
  PROVE  HubIInv'
<1>0. HubTypes /\ MapsHold /\ Delivering BY DEF HubIInv
<1>1. conn' \in [Conns -> ConnRecs] /\ conn'[c] = k /\ \A o \in Conns \ {c} : conn'[o] = conn[o] BY <1>0 DEF HubTypes
<1>2. /\ sub' \in [Hub!Subs -> SubRecs \cup {None, Hub!Ended}] /\ sub'[i] = t
      /\ \A j \in Hub!Subs \ {i} : sub'[j] = sub[j]
  BY <1>0 DEF HubTypes
<1>3. HubTypes' /\ HubGrows /\ posting' = posting BY <1>0, <1>1, <1>2, HubTypesNext DEF HubTypes
<1>4. MapsHold'
  <2>1. \A o \in Conns : Registers(conn'[o].at) = Registers(conn[o].at) /\ conn'[o].joined = conn[o].joined BY <1>1
  <2>2. \A j \in Hub!Subs : \A r, cv : OpenFor(sub'[j], r, cv) <=> OpenFor(sub[j], r, cv) BY <1>2
  <2> QED BY <1>0, <2>1, <2>2, MapsKept
<1>5. ASSUME NEW o \in Conns PROVE ConnGood(UserOf[o], conn[o], posting[o])'
  <2>1. PICK l, m, p : l = conn[o] /\ m = conn'[o] /\ p = posting[o] OBVIOUS
  <2>2. m \in ConnRecs /\ p \in HubPosts \cup {None} /\ ConnGood(UserOf[o], l, p) BY <1>1, <2>1, ConnFacts
  <2>3. m.at = l.at /\ m.joined = l.joined /\ m.op = l.op BY <1>1, <2>1
  <2>4. ConnGood(UserOf[o], m, p) BY <2>2, <2>3 DEF ConnGood
  <2>5. ConnGood(UserOf[o], m, p)' BY <1>0, <1>3, <2>2, <2>4, ConnKept
  <2> QED BY <1>3, <2>1, <2>5
<1>6. ASSUME NEW o \in Conns
      PROVE  /\ QueueGood(UserOf[o], conn[o].queue, conn[o].got)'
             /\ Seen(conn[o].queue, conn[o].got)' = IF o = c THEN Seen(k.queue, k.got) ELSE Seen(conn[o].queue, conn[o].got)
  <2>1. PICK q, g : q = conn'[o].queue /\ g = conn'[o].got OBVIOUS
  <2>2. QueueGood(UserOf[o], q, g)
    <3>1. CASE o = c BY <1>1, <2>1, <3>1
    <3>2. CASE o # c
      <4>1. q = conn[o].queue /\ g = conn[o].got BY <1>1, <2>1, <3>2
      <4> QED BY <1>0, <4>1 DEF Delivering
    <3> QED BY <3>1, <3>2
  <2>3. QueueGood(UserOf[o], q, g)' BY <1>0, <1>3, <2>2, QueueKept
  <2>4. Seen(conn[o].queue, conn[o].got)' = Seen(conn'[o].queue, conn'[o].got) BY DEF Seen, Hub!Notice
  <2> QED BY <1>1, <2>1, <2>3, <2>4
<1>7. ASSUME NEW j \in Hub!Subs, sub'[j] \in SubRecs
      PROVE  /\ ReaderGood(sub[j])'
             /\ \A o \in Conns : NotYet(sub'[j], o, IF o = c THEN Seen(k.queue, k.got) ELSE Seen(conn[o].queue, conn[o].got))
             /\ sub[j] \in SubRecs /\ sub'[j].replica = sub[j].replica
             /\ \A n : Held(sub'[j], n) => Held(sub[j], n)
  <2>1. PICK s, z : s = sub[j] /\ z = sub'[j] OBVIOUS
  <2>2. CASE j = i
    <3>1. z = t /\ t \in SubRecs BY <1>2, <1>7, <2>1, <2>2
    <3>2. ReaderGood(z) /\ s \in SubRecs /\ z.replica = s.replica /\ \A n : Held(z, n) => Held(s, n)
      BY <2>1, <2>2, <3>1 DEF HoldsLess
    <3>3. ReaderGood(z)' BY <1>0, <1>3, <3>2, ReaderKept
    <3> QED BY <2>1, <3>1, <3>2, <3>3
  <2>3. CASE j # i
    <3>1. z = s /\ s \in SubRecs BY <1>2, <1>7, <2>1, <2>3
    <3>2. ReaderGood(s) /\ \A o \in Conns : NotYet(s, o, Seen(conn[o].queue, conn[o].got)) BY <1>0, <2>1, <3>1 DEF Delivering
    <3>3. NotYet(s, c, Seen(k.queue, k.got)) BY <2>1, <2>3, <3>1
    <3>4. ReaderGood(s)' BY <1>0, <1>3, <3>2, ReaderKept
    <3>5. ReaderGood(z)' BY <3>1, <3>4
    <3> QED BY <2>1, <3>1, <3>2, <3>3, <3>5
  <2> QED BY <2>2, <2>3
<1>8. ASSUME NEW a \in Hub!Subs, sub'[a] \in SubRecs, NEW b \in Hub!Subs, sub'[b] \in SubRecs, a # b,
             sub'[a].replica = sub'[b].replica, NEW n \in Nat, Held(sub'[a], n), Held(sub'[b], n)
      PROVE  FALSE
  BY <1>0, <1>7, <1>8 DEF Delivering
<1>9. \A j \in Hub!Subs : \A n : Held(sub[j], n)' = Held(sub'[j], n) BY DEF Held
<1>10. ASSUME NEW j \in Hub!Subs, NEW o \in Conns, sub'[j] \in SubRecs
       PROVE  NotYet(sub[j], o, Seen(conn[o].queue, conn[o].got))'
  <2>1. PICK seen : seen = Seen(conn[o].queue, conn[o].got)' OBVIOUS
  <2>2. NotYet(sub'[j], o, seen) BY <1>6, <1>7, <1>10, <2>1
  <2> QED BY <2>1, <2>2 DEF NotYet
<1>s. Hub!Subs' = Hub!Subs /\ SubRecs' = SubRecs BY DEF Hub!Subs, SubRecs, Hub!Replicas, HubFrames
<1>11. Delivering' BY <1>s, <1>6, <1>7, <1>8, <1>9, <1>10 DEF Delivering
<1> QED BY <1>3, <1>4, <1>5, <1>11 DEF HubIInv

(* A running reader. *)
LEMMA RunningForm ==
  ASSUME HubConstants, HubIInv, NEW i \in Hub!Subs, sub[i] # None, sub[i].running \/ sub[i].closing # None \/ sub[i].todo # {}
  PROVE  /\ sub[i] \in SubRecs /\ ReaderGood(sub[i]) /\ sub[i].opener \in Conns
         /\ \A c \in Conns : NotYet(sub[i], c, Seen(conn[c].queue, conn[c].got))
<1>1. Hub!Ended.running = FALSE /\ Hub!Ended.closing = None /\ Hub!Ended.todo = {} BY DEF Hub!Ended
<1>2. sub[i] \in SubRecs BY <1>1 DEF HubIInv, HubTypes
<1> QED BY <1>2 DEF SubRecs, HubIInv, Delivering

(* A reader returns. *)
LEMMA ReaderStopsStep ==
  ASSUME HubConstants, HubIInv, NEW i \in Hub!Subs, Hub!ReaderStops(i) PROVE HubIInv'
<1>0. HubTypes BY DEF HubIInv
<1>1. PICK s : s = sub[i] OBVIOUS
<1>2. s # None /\ s.running /\ s.todo = {} BY <1>1 DEF Hub!ReaderStops, Hub!Busy
<1>3. s \in SubRecs /\ ReaderGood(s) /\ s.opener \in Conns BY <1>1, <1>2, RunningForm
<1>4. PICK c \in Conns : c = s.opener BY <1>3
<1>5. PICK k \in ConnRecs : k = conn[c] BY ConnFacts
<1>6. conn' = [conn EXCEPT ![c] = k] /\ UNCHANGED <<convs, userConns, frames>> /\ UNCHANGED Hub!msgVars
  BY <1>0, <1>5 DEF Hub!ReaderStops, HubTypes
<1>7. PICK h : h = [[s EXCEPT !.running = FALSE] EXCEPT !.inbox = <<>>] OBVIOUS
<1>8. PICK t : t = IF s.open THEN h ELSE Hub!Ended OBVIOUS
<1>9. sub' = [sub EXCEPT ![i] = t] BY <1>1, <1>7, <1>8 DEF Hub!ReaderStops
<1>d. <<>> \in Seq(HubFrames) /\ DOMAIN <<>> = {} OBVIOUS
<1>10. /\ h \in SubRecs /\ h.inbox = <<>> /\ h.todo = {} /\ h.replica = s.replica /\ h.open = s.open /\ h.conv = s.conv
  BY <1>2, <1>3, <1>7, <1>d DEF SubRecs
<1>11. \A r, cv : OpenFor(t, r, cv) <=> OpenFor(sub[i], r, cv)
  <2>1. Hub!Ended.open = FALSE BY DEF Hub!Ended
  <2>2. h # None BY <1>10 DEF HubConstants
  <2> QED BY <1>1, <1>2, <1>8, <1>10, <2>1, <2>2 DEF OpenFor
<1>12. ReaderGood(h) /\ (\A n : ~Held(h, n)) /\ \A o, seen : NotYet(h, o, seen)
  BY <1>10, <1>d DEF ReaderGood, Held, NotYet
<1>13. t \in SubRecs => t = h
  <2>1. Hub!Ended \notin SubRecs
    <3>1. \A x \in SubRecs : "inbox" \in DOMAIN x BY DEF SubRecs
    <3>2. "inbox" \notin DOMAIN Hub!Ended BY DEF Hub!Ended
    <3> QED BY <3>1, <3>2
  <2> QED BY <1>8, <2>1
<1>14. t \in SubRecs => HoldsLess(sub[i], t) BY <1>1, <1>3, <1>10, <1>12, <1>13 DEF HoldsLess
<1>15. t \in SubRecs \cup {Hub!Ended} BY <1>8, <1>10
<1>16. \A j \in Hub!Subs \ {i} : sub[j] \in SubRecs => NotYet(sub[j], c, Seen(k.queue, k.got))
  BY <1>5 DEF HubIInv, Delivering
<1>17. QueueGood(UserOf[c], k.queue, k.got) BY <1>5, ConnFacts
<1>18. t \in SubRecs => NotYet(t, c, Seen(k.queue, k.got)) BY <1>12, <1>13
<1>19. t \in SubRecs => \A o \in Conns \ {c} : NotYet(t, o, Seen(conn[o].queue, conn[o].got)) BY <1>12, <1>13
<1>20. k.at = conn[c].at /\ k.joined = conn[c].joined /\ k.op = conn[c].op BY <1>5
<1> QED BY <1>6, <1>9, <1>11, <1>14, <1>15, <1>16, <1>17, <1>18, <1>19, <1>20, ReaderChange

(* The connections a frame is for have joined its conversation here. *)
LEMMA TargetsForm ==
  ASSUME HubConstants, HubIInv, NEW s \in SubRecs, NEW f, FrameGood(f), f.conv = s.conv
  PROVE  \A c \in Hub!Targets(s, f) : c \in Conns /\ ReplicaOf[c] = s.replica /\ MayReach(f, UserOf[c])
<1>1. PICK r, cv : r = s.replica /\ cv = s.conv /\ r \in Hub!Replicas /\ cv \in Conversations BY DEF SubRecs
<1>2. PICK e : e = convs[r][cv] OBVIOUS
<1>3. EntryGood(e, JoinedTo(r, cv), OpenSubs(r, cv)) BY <1>1, <1>2 DEF HubIInv, MapsHold
<1> SUFFICES ASSUME NEW c \in Hub!Targets(s, f)
             PROVE c \in Conns /\ ReplicaOf[c] = s.replica /\ MayReach(f, UserOf[c])
  OBVIOUS
<1>4. e # None /\ c \in e.subscribers /\ ~(f.sender = UserOf[c] /\ f.type = "typing") BY <1>1, <1>2 DEF Hub!Targets
<1>5. c \in JoinedTo(r, cv) BY <1>3, <1>4 DEF EntryGood
<1>6. c \in Conns /\ ReplicaOf[c] = r /\ cv \in conn[c].joined BY <1>5 DEF JoinedTo
<1>7. UserOf[c] \in participants[cv] BY <1>6 DEF HubIInv, ConnGood
<1> QED BY <1>1, <1>4, <1>6, <1>7 DEF MayReach

(* A reader takes the next frame. *)
LEMMA DeliverLocalStep ==
  ASSUME HubConstants, HubIInv, NEW i \in Hub!Subs, Hub!deliverLocal(i) PROVE HubIInv'
<1>0. HubTypes BY DEF HubIInv
<1>1. PICK s : s = sub[i] OBVIOUS
<1>2. s # None /\ s.running /\ s.todo = {} /\ s.inbox # <<>> BY <1>1 DEF Hub!deliverLocal, Hub!Busy
<1>3. s \in SubRecs /\ ReaderGood(s) /\ s.opener \in Conns /\ \A o \in Conns : NotYet(s, o, Seen(conn[o].queue, conn[o].got))
  BY <1>1, <1>2, RunningForm
<1>4. PICK f, m : f = Head(s.inbox) /\ m = Tail(s.inbox) OBVIOUS
<1>5. PICK todo : todo = Hub!Targets(s, f) OBVIOUS
<1>6. PICK fr : fr = IF todo = {} THEN None ELSE f OBVIOUS
<1>7. PICK t : t = [[[s EXCEPT !.inbox = m] EXCEPT !.todo = todo] EXCEPT !.frame = fr] OBVIOUS
<1>8. sub' = [sub EXCEPT ![i] = t]
  BY <1>0, <1>1, <1>3, <1>4, <1>5, <1>6, <1>7 DEF Hub!deliverLocal, HubTypes, SubRecs
<1>9. s.inbox \in Seq(HubFrames) BY <1>3 DEF SubRecs
<1>10. f = s.inbox[1] /\ 1 \in DOMAIN s.inbox /\ f \in HubFrames /\ m \in Seq(HubFrames) BY <1>2, <1>4, <1>9
<1>11. \A k \in DOMAIN m : k + 1 \in DOMAIN s.inbox /\ m[k] = s.inbox[k + 1] /\ k + 1 # 1 /\ k \in Nat BY <1>2, <1>4, <1>9
<1>12. FrameGood(f) /\ f.conv = s.conv BY <1>3, <1>10 DEF ReaderGood
<1>13. \A c \in todo : c \in Conns /\ ReplicaOf[c] = s.replica /\ MayReach(f, UserOf[c]) BY <1>3, <1>5, <1>12, TargetsForm
<1>14. /\ t \in SubRecs /\ t.inbox = m /\ t.todo = todo /\ t.frame = fr /\ t.replica = s.replica /\ t.conv = s.conv
       /\ t.open = s.open
  BY <1>3, <1>6, <1>7, <1>10, <1>13 DEF SubRecs
<1>15. \A k \in DOMAIN m : m[k].n # f.n
  BY <1>3, <1>10, <1>11 DEF ReaderGood
<1>16. ReaderGood(t)
  <2>1. \A k \in DOMAIN m : FrameGood(m[k]) /\ m[k].conv = s.conv BY <1>3, <1>11 DEF ReaderGood
  <2>2. ASSUME NEW k \in DOMAIN m, NEW l \in DOMAIN m, m[k].n = m[l].n PROVE k = l
    <3>1. k + 1 = l + 1 BY <1>3, <1>11, <2>2 DEF ReaderGood
    <3> QED BY <1>11, <3>1
  <2>3. todo # {} => fr = f BY <1>6
  <2> QED BY <1>12, <1>13, <1>14, <1>15, <2>1, <2>2, <2>3 DEF ReaderGood
<1>17. \A n : Held(t, n) => Held(s, n) BY <1>6, <1>10, <1>11, <1>14 DEF Held
<1>18. \A o, seen : NotYet(s, o, seen) => NotYet(t, o, seen) BY <1>6, <1>10, <1>11, <1>14 DEF NotYet
<1>19. PICK c \in Conns : c = s.opener BY <1>3
<1>20. PICK k \in ConnRecs : k = conn[c] BY ConnFacts
<1>21. conn' = [conn EXCEPT ![c] = k] /\ UNCHANGED <<convs, userConns, frames>> /\ UNCHANGED Hub!msgVars
  BY <1>0, <1>20 DEF Hub!deliverLocal, HubTypes
<1>22. \A r, cv : OpenFor(t, r, cv) <=> OpenFor(sub[i], r, cv)
  BY <1>1, <1>2, <1>14 DEF OpenFor, HubConstants
<1>23. t \in SubRecs => HoldsLess(sub[i], t) BY <1>1, <1>3, <1>14, <1>16, <1>17 DEF HoldsLess
<1>24. \A j \in Hub!Subs \ {i} : sub[j] \in SubRecs => NotYet(sub[j], c, Seen(k.queue, k.got))
  BY <1>20 DEF HubIInv, Delivering
<1>25. QueueGood(UserOf[c], k.queue, k.got) BY <1>20, ConnFacts
<1>26. t \in SubRecs => NotYet(t, c, Seen(k.queue, k.got)) BY <1>3, <1>18, <1>20
<1>27. t \in SubRecs => \A o \in Conns \ {c} : NotYet(t, o, Seen(conn[o].queue, conn[o].got)) BY <1>3, <1>18
<1>28. k.at = conn[c].at /\ k.joined = conn[c].joined /\ k.op = conn[c].op BY <1>20
<1>29. t \in SubRecs \cup {Hub!Ended} BY <1>14
<1> QED BY <1>8, <1>21, <1>22, <1>23, <1>24, <1>25, <1>26, <1>27, <1>28, <1>29, ReaderChange

(* A queue with one frame more. *)
LEMMA QueueFrame ==
  ASSUME NEW u, NEW q \in Seq(HubFrames), NEW g, QueueGood(u, q, g), NEW f, FrameGood(f), MayReach(f, u), f.n \notin Seen(q, g)
  PROVE  /\ QueueGood(u, Append(q, f), g) /\ Append(q, f) \in Seq(HubFrames)
         /\ Seen(Append(q, f), g) = Seen(q, g) \cup {f.n}
<1>1. PICK m, n : m = Append(q, f) /\ n = Len(q) + 1 OBVIOUS
<1>2. f \in HubFrames /\ f.n \in 1 .. frames BY DEF FrameGood
<1>3. DOMAIN m = DOMAIN q \cup {n} /\ m[n] = f /\ n \notin DOMAIN q /\ (\A i \in DOMAIN q : m[i] = q[i]) /\ m \in Seq(HubFrames)
  BY <1>1, <1>2
<1>4. PICK z : z = Hub!Notice OBVIOUS
<1>5. z.n = 0 BY <1>4 DEF Hub!Notice
<1>6. f # z BY <1>2, <1>5
<1>7. f.n \notin g /\ \A i \in DOMAIN q : q[i] # z => q[i].n # f.n BY <1>4 DEF Seen
<1>8. \A i \in DOMAIN m : m[i] # z => FrameGood(m[i]) /\ MayReach(m[i], u) /\ m[i].n \notin g
  <2>1. \A i \in DOMAIN q : q[i] # z => FrameGood(q[i]) /\ MayReach(q[i], u) /\ q[i].n \notin g BY <1>4 DEF QueueGood
  <2> QED BY <1>3, <1>7, <2>1
<1>9. \A i, j \in DOMAIN m : m[i] # z /\ m[j] # z /\ m[i].n = m[j].n => i = j
  <2>1. \A i, j \in DOMAIN q : q[i] # z /\ q[j] # z /\ q[i].n = q[j].n => i = j BY <1>4 DEF QueueGood
  <2> QED BY <1>3, <1>7, <2>1
<1>10. QueueGood(u, m, g) BY <1>4, <1>8, <1>9 DEF QueueGood
<1>11. Seen(m, g) = Seen(q, g) \cup {f.n}
  <2>1. \A x : x \in Seen(m, g) <=> x \in g \/ \E i \in DOMAIN m : m[i] # z /\ x = m[i].n BY <1>4 DEF Seen
  <2>2. \A x : x \in Seen(q, g) <=> x \in g \/ \E i \in DOMAIN q : q[i] # z /\ x = q[i].n BY <1>4 DEF Seen
  <2> QED BY <1>3, <1>6, <2>1, <2>2
<1> QED BY <1>1, <1>3, <1>10, <1>11

(* A reader puts its frame into a queue, or finds it full. *)
LEMMA TrySendStep ==
  ASSUME HubConstants, HubIInv, NEW i \in Hub!Subs, NEW c \in Conns, Hub!trySend(i, c) PROVE HubIInv'
<1>0. HubTypes /\ Delivering BY DEF HubIInv
<1>1. PICK s : s = sub[i] OBVIOUS
<1>2. s # None /\ c \in s.todo BY <1>1 DEF Hub!trySend
<1>3. s \in SubRecs /\ ReaderGood(s) /\ \A o \in Conns : NotYet(s, o, Seen(conn[o].queue, conn[o].got))
  <2>1. s.todo # {} BY <1>2
  <2> QED BY <1>1, <1>2, <2>1, RunningForm
<1>4. PICK l \in ConnRecs : l = conn[c] BY ConnFacts
<1>5. PICK q, g, f : q = l.queue /\ g = l.got /\ f = s.frame OBVIOUS
<1>6. QueueGood(UserOf[c], q, g) /\ q \in Seq(HubFrames) BY <1>4, <1>5, ConnFacts
<1>7. FrameGood(f) /\ MayReach(f, UserOf[c]) /\ ReplicaOf[c] = s.replica BY <1>2, <1>3, <1>5 DEF ReaderGood
<1>8. f.n \notin Seen(q, g) BY <1>2, <1>3, <1>4, <1>5, <1>7 DEF NotYet
<1>9. /\ QueueGood(UserOf[c], Append(q, f), g) /\ Append(q, f) \in Seq(HubFrames)
      /\ Seen(Append(q, f), g) = Seen(q, g) \cup {f.n}
  BY <1>6, <1>7, <1>8, QueueFrame
<1>10. PICK k : k = IF Len(q) >= SendBuffer \/ Hub!Inactive(c) THEN l ELSE [l EXCEPT !.queue = Append(q, f)] OBVIOUS
<1>11. /\ k \in ConnRecs /\ k.at = l.at /\ k.joined = l.joined /\ k.op = l.op /\ k.got = g
       /\ k.queue = q \/ k.queue = Append(q, f)
  BY <1>4, <1>5, <1>9, <1>10 DEF ConnRecs
<1>12. conn' = [conn EXCEPT ![c] = k]
  <2>1. CASE Len(q) >= SendBuffer \/ Hub!Inactive(c)
    <3>1. conn' = conn /\ k = conn[c] BY <1>4, <1>5, <1>10, <2>1 DEF Hub!trySend
    <3> QED BY <1>0, <3>1 DEF HubTypes
  <2>2. CASE ~(Len(q) >= SendBuffer \/ Hub!Inactive(c))
    BY <1>1, <1>4, <1>5, <1>10, <2>2 DEF Hub!trySend
  <2> QED BY <2>1, <2>2
<1>13. PICK d, fr, cl : /\ d = s.todo \ {c} /\ fr = (IF s.todo = {c} THEN None ELSE s.frame)
                        /\ cl = IF (Len(conn[c].queue) >= SendBuffer) /\ ~conn[c].closed /\ ~Hub!Inactive(c) THEN c ELSE None
  OBVIOUS
<1>14. PICK t : t = [[[s EXCEPT !.todo = d] EXCEPT !.frame = fr] EXCEPT !.closing = cl] OBVIOUS
<1>15. sub' = [sub EXCEPT ![i] = t]
  BY <1>0, <1>1, <1>3, <1>13, <1>14 DEF Hub!trySend, HubTypes, SubRecs
<1>16. /\ t \in SubRecs /\ t.inbox = s.inbox /\ t.todo = d /\ t.frame = fr /\ t.replica = s.replica /\ t.conv = s.conv
       /\ t.open = s.open
  BY <1>3, <1>13, <1>14 DEF SubRecs
<1>17. d \subseteq s.todo /\ c \notin d /\ (d # {} => fr = f) BY <1>2, <1>5, <1>13
<1>18. s.todo # {} BY <1>2
<1>19. ReaderGood(t) BY <1>3, <1>5, <1>16, <1>17, <1>18 DEF ReaderGood
<1>20. \A n : Held(t, n) => Held(s, n) BY <1>5, <1>16, <1>17, <1>18 DEF Held
<1>21. \A o, seen : NotYet(s, o, seen) => NotYet(t, o, seen) BY <1>5, <1>16, <1>17 DEF NotYet
<1>22. Seen(k.queue, k.got) \subseteq Seen(q, g) \cup {f.n} BY <1>9, <1>11
<1>23. NotYet(t, c, Seen(k.queue, k.got))
  <2>1. NotYet(s, c, Seen(q, g)) BY <1>3, <1>4, <1>5
  <2>2. \A x \in DOMAIN s.inbox : s.inbox[x].n # f.n BY <1>3, <1>5, <1>18 DEF ReaderGood
  <2> QED BY <1>16, <1>17, <1>22, <2>1, <2>2 DEF NotYet
<1>24. ASSUME NEW j \in Hub!Subs \ {i}, sub[j] \in SubRecs PROVE NotYet(sub[j], c, Seen(k.queue, k.got))
  <2>1. PICK z : z = sub[j] OBVIOUS
  <2>2. NotYet(z, c, Seen(q, g)) BY <1>0, <1>4, <1>5, <1>24, <2>1 DEF Delivering
  <2>3. Held(s, f.n) BY <1>5, <1>18 DEF Held
  <2>4. f.n \in Nat BY <1>7 DEF FrameGood, HubFrames
  <2>5. z.replica = s.replica => ~Held(z, f.n) BY <1>0, <1>1, <1>3, <1>24, <2>1, <2>3, <2>4 DEF Delivering
  <2>6. ReplicaOf[c] = z.replica => /\ \A x \in DOMAIN z.inbox : z.inbox[x].n # f.n
                                    /\ c \in z.todo => z.frame.n # f.n
    BY <1>7, <2>5 DEF Held
  <2>7. NotYet(z, c, Seen(k.queue, k.got)) BY <1>22, <2>2, <2>6 DEF NotYet
  <2> QED BY <2>1, <2>7
<1>25. UNCHANGED <<convs, userConns, frames>> /\ UNCHANGED Hub!msgVars BY DEF Hub!trySend
<1>26. \A r, cv : OpenFor(t, r, cv) <=> OpenFor(sub[i], r, cv)
  BY <1>1, <1>2, <1>16 DEF OpenFor, HubConstants
<1>27. t \in SubRecs => HoldsLess(sub[i], t) BY <1>1, <1>3, <1>16, <1>19, <1>20 DEF HoldsLess
<1>28. QueueGood(UserOf[c], k.queue, k.got) BY <1>6, <1>9, <1>11
<1>29. t \in SubRecs => \A o \in Conns \ {c} : NotYet(t, o, Seen(conn[o].queue, conn[o].got)) BY <1>3, <1>21
<1>30. k.at = conn[c].at /\ k.joined = conn[c].joined /\ k.op = conn[c].op BY <1>4, <1>11
<1>31. t \in SubRecs \cup {Hub!Ended} BY <1>16
<1> QED BY <1>11, <1>12, <1>15, <1>23, <1>24, <1>25, <1>26, <1>27, <1>28, <1>29, <1>30, <1>31, ReaderChange

(* A replica crashes: its connections, maps and readers are gone. *)
LEMMA CrashStep ==
  ASSUME HubConstants, HubIInv, NEW R \in Hub!Replicas, Hub!Crashed(R), UNCHANGED frames, UNCHANGED Hub!msgVars
  PROVE  HubIInv'
<1>0. HubTypes /\ MapsHold /\ Delivering BY DEF HubIInv
<1>1. PICK G : G = Hub!Gone /\ G \in ConnRecs /\ G.at = "gone" /\ G.joined = {} /\ G.queue = <<>> /\ G.got = {} /\ G.op = None
  BY GoneForm
<1>2. conn' = [c \in Conns |-> IF ReplicaOf[c] = R /\ conn[c].at # "new" THEN G ELSE conn[c]] BY <1>1 DEF Hub!Crashed
<1>3. conn' \in [Conns -> ConnRecs] BY <1>0, <1>1, <1>2 DEF HubTypes
<1>4. convs' = [convs EXCEPT ![R] = [cv \in Conversations |-> None]]
      /\ userConns' = [userConns EXCEPT ![R] = [u \in Accounts |-> 0]]
  BY DEF Hub!Crashed
<1>5. /\ convs' \in [Hub!Replicas -> [Conversations -> Entries \cup {None}]]
      /\ \A r \in Hub!Replicas, cv \in Conversations : convs'[r][cv] = IF r = R THEN None ELSE convs[r][cv]
  BY <1>0, <1>4 DEF HubTypes
<1>6. /\ userConns' \in [Hub!Replicas -> [Accounts -> Int]]
      /\ \A r \in Hub!Replicas, u \in Accounts : userConns'[r][u] = IF r = R THEN 0 ELSE userConns[r][u]
  BY <1>0, <1>4 DEF HubTypes
<1>7. sub' = [i \in Hub!Subs |-> IF sub[i] # None /\ sub[i] # Hub!Ended /\ sub[i].replica = R THEN Hub!Ended ELSE sub[i]]
  BY DEF Hub!Crashed
<1>8. sub' \in [Hub!Subs -> SubRecs \cup {None, Hub!Ended}] BY <1>0, <1>7 DEF HubTypes
<1>9. HubTypes' /\ HubGrows /\ posting' = posting BY <1>0, <1>3, <1>5, <1>6, <1>8, HubTypesNext DEF HubTypes
<1>10. Hub!Ended.open = FALSE /\ Hub!Ended.todo = {} BY DEF Hub!Ended
<1>11. Hub!Ended \notin SubRecs
  <2>1. \A x \in SubRecs : "inbox" \in DOMAIN x BY DEF SubRecs
  <2>2. "inbox" \notin DOMAIN Hub!Ended BY DEF Hub!Ended
  <2> QED BY <2>1, <2>2
<1>12. ASSUME NEW i \in Hub!Subs, NEW r, NEW cv PROVE OpenFor(sub'[i], r, cv) <=> (r # R /\ OpenFor(sub[i], r, cv))
  <2>1. CASE sub[i] # None /\ sub[i] # Hub!Ended /\ sub[i].replica = R
    <3>1. sub'[i] = Hub!Ended BY <1>7, <2>1
    <3> QED BY <1>10, <2>1, <3>1 DEF OpenFor
  <2>2. CASE ~(sub[i] # None /\ sub[i] # Hub!Ended /\ sub[i].replica = R)
    <3>1. sub'[i] = sub[i] BY <1>7, <2>2
    <3> QED BY <1>10, <2>2, <3>1 DEF OpenFor
  <2> QED BY <2>1, <2>2
<1>13. ASSUME NEW c \in Conns PROVE Registers(conn'[c].at) <=> (ReplicaOf[c] # R /\ Registers(conn[c].at))
  BY <1>1, <1>2 DEF Registers
<1>14. ASSUME NEW c \in Conns, ReplicaOf[c] # R PROVE conn'[c] = conn[c] BY <1>2, <1>14
<1>15. \A r, u : RegisteredAs(r, u)' = IF r = R THEN {} ELSE RegisteredAs(r, u)
  <2>1. \A r, u : RegisteredAs(r, u)' = {o \in Conns : ReplicaOf[o] = r /\ UserOf[o] = u /\ Registers(conn'[o].at)}
    BY DEF RegisteredAs, Registers
  <2> QED BY <1>13, <2>1 DEF RegisteredAs
<1>16. \A r, cv : JoinedTo(r, cv)' = IF r = R THEN {} ELSE JoinedTo(r, cv)
  <2>1. \A r, cv : JoinedTo(r, cv)' = {o \in Conns : ReplicaOf[o] = r /\ Registers(conn'[o].at) /\ cv \in conn'[o].joined}
    BY DEF JoinedTo, Registers
  <2> QED BY <1>13, <1>14, <2>1 DEF JoinedTo
<1>17. \A r, cv : OpenSubs(r, cv)' = IF r = R THEN {} ELSE OpenSubs(r, cv)
  <2>1. \A r, cv : OpenSubs(r, cv)' = {i \in Hub!Subs : OpenFor(sub'[i], r, cv)} BY DEF OpenSubs, OpenFor, Hub!Subs
  <2> QED BY <1>12, <2>1 DEF OpenSubs
<1>18. MapsHold'
  <2>1. Hub!Replicas' = Hub!Replicas BY DEF Hub!Replicas
  <2>2. ASSUME NEW r \in Hub!Replicas, NEW u \in Accounts PROVE userConns'[r][u] = Cardinality(RegisteredAs(r, u)')
    <3>1. CASE r = R
      <4>1. RegisteredAs(r, u)' = {} /\ userConns'[r][u] = 0 BY <1>6, <1>15, <3>1
      <4> QED BY <4>1, FS_EmptySet
    <3>2. CASE r # R BY <1>0, <1>6, <1>15, <3>2 DEF MapsHold
    <3> QED BY <3>1, <3>2
  <2>3. ASSUME NEW r \in Hub!Replicas, NEW cv \in Conversations
        PROVE  EntryGood(convs'[r][cv], JoinedTo(r, cv)', OpenSubs(r, cv)')
    <3>1. CASE r = R
      <4>1. convs'[r][cv] = None /\ JoinedTo(r, cv)' = {} /\ OpenSubs(r, cv)' = {} BY <1>5, <1>16, <1>17, <3>1
      <4> QED BY <4>1 DEF EntryGood
    <3>2. CASE r # R
      <4>1. convs'[r][cv] = convs[r][cv] /\ JoinedTo(r, cv)' = JoinedTo(r, cv) /\ OpenSubs(r, cv)' = OpenSubs(r, cv)
        BY <1>5, <1>16, <1>17, <3>2
      <4> QED BY <1>0, <4>1 DEF MapsHold
    <3> QED BY <3>1, <3>2
  <2> QED BY <2>1, <2>2, <2>3 DEF MapsHold, EntryGood
<1>19. ASSUME NEW c \in Conns PROVE conn'[c] = G \/ conn'[c] = conn[c] BY <1>2
<1>20. ASSUME NEW o \in Conns PROVE ConnGood(UserOf[o], conn[o], posting[o])'
  <2>1. PICK l, m, p : l = conn[o] /\ m = conn'[o] /\ p = posting[o] OBVIOUS
  <2>2. m \in ConnRecs /\ p \in HubPosts \cup {None} /\ ConnGood(UserOf[o], l, p) BY <1>3, <2>1, ConnFacts
  <2>3. ConnGood(UserOf[o], m, p) BY <1>1, <1>19, <2>1, <2>2 DEF ConnGood
  <2>4. ConnGood(UserOf[o], m, p)' BY <1>0, <1>9, <2>2, <2>3, ConnKept
  <2> QED BY <1>9, <2>1, <2>4
<1>21. ASSUME NEW o \in Conns, NEW q, NEW g, q = conn'[o].queue, g = conn'[o].got
       PROVE  QueueGood(UserOf[o], q, g)' /\ Seen(q, g) \subseteq Seen(conn[o].queue, conn[o].got)
  <2>1. QueueGood(UserOf[o], conn[o].queue, conn[o].got) BY ConnFacts
  <2>2. QueueGood(UserOf[o], q, g) /\ Seen(q, g) \subseteq Seen(conn[o].queue, conn[o].got)
    BY <1>1, <1>19, <1>21, <2>1, QueueEmpty
  <2> QED BY <1>0, <1>9, <2>2, QueueKept
<1>22. \A i \in Hub!Subs : sub'[i] \in SubRecs => Shrunk(sub[i], sub'[i]) BY <1>7, <1>11 DEF Shrunk
<1>23. Delivering'
  <2>1. \A c \in Conns : Seen(conn'[c].queue, conn'[c].got) \subseteq Seen(conn[c].queue, conn[c].got) BY <1>21
  <2>2. \A c \in Conns : \A q, g : q = conn'[c].queue /\ g = conn'[c].got => QueueGood(UserOf[c], q, g)' BY <1>21
  <2> QED BY <1>0, <1>9, <1>22, <2>1, <2>2, DeliveringKept
<1> QED BY <1>9, <1>18, <1>20, <1>23 DEF HubIInv

(* A reader closes a connection, or panics. *)
LEMMA CloseByReaderStep ==
  ASSUME HubConstants, HubIInv, NEW i \in Hub!Subs, Hub!CloseByReader(i) PROVE HubIInv'
<1>0. HubTypes BY DEF HubIInv
<1>1. PICK s : s = sub[i] OBVIOUS
<1>2. s # None /\ s.closing # None BY <1>1 DEF Hub!CloseByReader
<1>3. s \in SubRecs /\ ReaderGood(s) /\ \A o \in Conns : NotYet(s, o, Seen(conn[o].queue, conn[o].got))
  BY <1>1, <1>2, RunningForm
<1>4. PICK c \in Conns : c = s.closing BY <1>2, <1>3 DEF SubRecs
<1>5. UNCHANGED frames /\ UNCHANGED Hub!msgVars BY DEF Hub!CloseByReader
<1>6. CASE conn[c].closed
  <2>1. Hub!Crashed(s.replica) BY <1>1, <1>4, <1>6 DEF Hub!CloseByReader
  <2>2. s.replica \in Hub!Replicas BY <1>3 DEF SubRecs
  <2> QED BY <1>5, <2>1, <2>2, CrashStep
<1>7. CASE ~conn[c].closed
  <2>1. PICK l \in ConnRecs : l = conn[c] BY ConnFacts
  <2>2. PICK k, t : k = [l EXCEPT !.closed = TRUE] /\ t = [s EXCEPT !.closing = None] OBVIOUS
  <2>3. conn' = [conn EXCEPT ![c] = k] /\ sub' = [sub EXCEPT ![i] = t] /\ UNCHANGED <<convs, userConns>>
    BY <1>1, <1>4, <1>7, <2>1, <2>2 DEF Hub!CloseByReader
  <2>4. k \in ConnRecs /\ k.at = l.at /\ k.joined = l.joined /\ k.op = l.op /\ k.queue = l.queue /\ k.got = l.got
    BY <2>1, <2>2 DEF ConnRecs
  <2>5. /\ t \in SubRecs /\ t.inbox = s.inbox /\ t.todo = s.todo /\ t.frame = s.frame /\ t.replica = s.replica
        /\ t.conv = s.conv /\ t.open = s.open
    BY <1>3, <2>2 DEF SubRecs
  <2>6. ReaderGood(t) BY <1>3, <2>5 DEF ReaderGood
  <2>7. \A n : Held(t, n) => Held(s, n) BY <2>5 DEF Held
  <2>8. \A o, seen : NotYet(s, o, seen) => NotYet(t, o, seen) BY <2>5 DEF NotYet
  <2>9. \A r, cv : OpenFor(t, r, cv) <=> OpenFor(sub[i], r, cv) BY <1>1, <1>2, <2>5 DEF OpenFor, HubConstants
  <2>10. t \in SubRecs => HoldsLess(sub[i], t) BY <1>1, <1>3, <2>5, <2>6, <2>7 DEF HoldsLess
  <2>11. \A j \in Hub!Subs \ {i} : sub[j] \in SubRecs => NotYet(sub[j], c, Seen(k.queue, k.got))
    BY <2>1, <2>4 DEF HubIInv, Delivering
  <2>12. QueueGood(UserOf[c], k.queue, k.got) BY <2>1, <2>4, ConnFacts
  <2>13. t \in SubRecs => NotYet(t, c, Seen(k.queue, k.got)) BY <1>3, <2>1, <2>4, <2>8
  <2>14. t \in SubRecs => \A o \in Conns \ {c} : NotYet(t, o, Seen(conn[o].queue, conn[o].got)) BY <1>3, <2>8
  <2>15. k.at = conn[c].at /\ k.joined = conn[c].joined /\ k.op = conn[c].op BY <2>1, <2>4
  <2>16. t \in SubRecs \cup {Hub!Ended} BY <2>5
  <2> QED BY <1>5, <2>3, <2>4, <2>9, <2>10, <2>11, <2>12, <2>13, <2>14, <2>15, <2>16, ReaderChange
<1> QED BY <1>6, <1>7

(* The first state. *)
LEMMA HubInit == HubConstants /\ Hub!Init => HubIInv
<1> SUFFICES ASSUME HubConstants, Hub!Init PROVE HubIInv OBVIOUS
<1>0. /\ participants = [cv \in Conversations |-> {}] /\ messages = <<>> /\ posting = [x \in Posters |-> None] /\ clock = 0
      /\ convs = [r \in Hub!Replicas |-> [cv \in Conversations |-> None]]
      /\ userConns = [r \in Hub!Replicas |-> [u \in Accounts |-> 0]]
      /\ sub = [i \in Hub!Subs |-> None] /\ frames = 0
  BY DEF Hub!Init, Hub!InitMessaging
<1>1. PICK n : n = Hub!NewConn OBVIOUS
<1>2. conn = [c \in Conns |-> n] BY <1>1 DEF Hub!Init
<1>3. <<>> \in Seq(HubFrames) /\ <<>> \in Seq(HubPosts) /\ DOMAIN <<>> = {} OBVIOUS
<1>4. n \in ConnRecs /\ n.at = "new" /\ n.joined = {} /\ n.queue = <<>> /\ n.got = {} /\ n.op = None
  BY <1>1, <1>3 DEF Hub!NewConn, ConnRecs
<1>5. HubTypes
  <2>1. participants \in [Conversations -> SUBSET Accounts] /\ posting \in [Posters -> HubPosts \cup {None}] BY <1>0
  <2>2. conn \in [Conns -> ConnRecs] BY <1>2, <1>4
  <2>3. convs \in [Hub!Replicas -> [Conversations -> Entries \cup {None}]] BY <1>0
  <2>4. userConns \in [Hub!Replicas -> [Accounts -> Int]] BY <1>0
  <2>5. sub \in [Hub!Subs -> SubRecs \cup {None, Hub!Ended}] BY <1>0
  <2> QED BY <1>0, <1>3, <2>1, <2>2, <2>3, <2>4, <2>5 DEF HubTypes
<1>6. MapsHold
  <2>1. \A c \in Conns : ~Registers(conn[c].at) BY <1>2, <1>4 DEF Registers
  <2>2. \A r, u : RegisteredAs(r, u) = {} BY <2>1 DEF RegisteredAs
  <2>3. \A r, cv : JoinedTo(r, cv) = {} BY <2>1 DEF JoinedTo
  <2>4. \A r, cv : OpenSubs(r, cv) = {} BY <1>0 DEF OpenSubs, OpenFor
  <2>5. \A r \in Hub!Replicas, u \in Accounts : userConns[r][u] = Cardinality(RegisteredAs(r, u))
    BY <1>0, <2>2, FS_EmptySet
  <2>6. \A r \in Hub!Replicas, cv \in Conversations : EntryGood(convs[r][cv], JoinedTo(r, cv), OpenSubs(r, cv))
    BY <1>0, <2>3, <2>4 DEF EntryGood
  <2> QED BY <2>5, <2>6 DEF MapsHold
<1>7. \A c \in Conns : ConnGood(UserOf[c], conn[c], posting[c])
  BY <1>0, <1>2, <1>4 DEF ConnGood, HubConstants
<1>8. Delivering
  <2>1. \A c \in Conns : QueueGood(UserOf[c], conn[c].queue, conn[c].got) BY <1>2, <1>3, <1>4 DEF QueueGood
  <2>2. \A i \in Hub!Subs : sub[i] \notin SubRecs BY <1>0 DEF HubConstants
  <2> QED BY <2>1, <2>2 DEF Delivering
<1> QED BY <1>5, <1>6, <1>7, <1>8 DEF HubIInv

(* Every step of the hub and of the messaging service keeps the invariant. *)
LEMMA HubNext == HubConstants /\ HubIInv /\ [Hub!Next]_(Hub!vars) => HubIInv'
<1> SUFFICES ASSUME HubConstants, HubIInv, [Hub!Next]_(Hub!vars) PROVE HubIInv' OBVIOUS
<1>1. CASE UNCHANGED Hub!vars BY <1>1, HubStutter DEF Hub!vars, Hub!hubVars
<1>2. CASE /\ \E cv \in Conversations, creator \in Accounts, others \in SUBSET Accounts : Hub!CreateConversation(cv, creator, others)
           /\ UNCHANGED Hub!hubVars
  BY <1>2, HubCreateStep
<1>3. ASSUME NEW c \in Conns, Hub!ConnNext(c) PROVE HubIInv'
  <2>1. ASSUME NEW cv \in Conversations,
               Hub!AuthorizeJoin(c, cv) \/ Hub!leave(c, cv) \/ Hub!handleSend(c, cv) \/ Hub!handleEphemeral(c, cv)
        PROVE  HubIInv'
    BY <2>1, AuthorizeJoinStep, LeaveStep, HandleSendStep, EphemeralStep
  <2>2. CASE Hub!FrameEnds(c) BY <2>2, JoinStep, PostAnsweredStep, PostLostStep, FanOutStep DEF Hub!FrameEnds
  <2>3. CASE Hub!ConnEnds(c) BY <2>3, CloseOwnStep, UnregisterStep, ClearPresenceStep DEF Hub!ConnEnds
  <2>4. CASE Hub!Heartbeat(c) BY <2>4, HubStutter DEF Hub!Heartbeat
  <2> QED BY <1>3, <2>1, <2>2, <2>3, <2>4, RegisterStep, StartStep, WritePumpStep, ReadEndsStep DEF Hub!ConnNext
<1>4. ASSUME NEW u \in Accounts, Hub!Expire(u) PROVE HubIInv' BY <1>4, HubStutter DEF Hub!Expire
<1>5. ASSUME NEW i \in Hub!Subs, Hub!ReaderNext(i) PROVE HubIInv'
  BY <1>5, DeliverLocalStep, TrySendStep, CloseByReaderStep, ReaderStopsStep DEF Hub!ReaderNext
<1> QED BY <1>1, <1>2, <1>3, <1>4, <1>5 DEF Hub!Next

(* The invariant's form of what is delivered. *)
LEMMA DeliveredForm == HubConstants /\ HubIInv => Hub!DeliveredTrue
<1> SUFFICES ASSUME HubConstants, HubIInv, NEW c \in Conns
             PROVE  LET queued == {conn[c].queue[i] : i \in DOMAIN conn[c].queue} \ {Hub!Notice}
                        due == {f.n : f \in queued}
                        coming == {sub[i].frame.n : i \in {j \in Hub!Subs : sub[j] # None /\ c \in sub[j].todo}} IN
                    /\ \A f \in queued :
                         /\ f.conv \in Hub!ListConversations(UserOf[c])
                         /\ f.type = "typing" => f.sender # UserOf[c]
                         /\ f.id # None => /\ f.id \in Hub!ListMessages(f.conv, UserOf[c])
                                           /\ messages[f.id].sender = f.sender
                                           /\ Hub!IsParticipant(f.conv, f.sender)
                    /\ conn[c].got \cap due = {}
                    /\ (conn[c].got \cup due) \cap coming = {}
  BY DEF Hub!DeliveredTrue
<1>1. PICK q, g, z, u : q = conn[c].queue /\ g = conn[c].got /\ z = Hub!Notice /\ u = UserOf[c] OBVIOUS
<1>2. QueueGood(u, q, g) BY <1>1, ConnFacts
<1>3. PICK queued : queued = {q[i] : i \in DOMAIN q} \ {z} OBVIOUS
<1>4. \A f \in queued : FrameGood(f) /\ MayReach(f, u) /\ f.n \notin g BY <1>1, <1>2, <1>3 DEF QueueGood
<1>5. ASSUME NEW f \in queued
      PROVE  /\ f.conv \in Hub!ListConversations(u)
             /\ f.type = "typing" => f.sender # u
             /\ f.id # None => /\ f.id \in Hub!ListMessages(f.conv, u)
                               /\ messages[f.id].sender = f.sender
                               /\ Hub!IsParticipant(f.conv, f.sender)
  BY <1>4, <1>5 DEF FrameGood, MayReach, InHistory, Hub!ListConversations, Hub!ListMessages, Hub!IsParticipant
<1>6. PICK due : due = {f.n : f \in queued} OBVIOUS
<1>7. g \cap due = {} BY <1>4, <1>6
<1>8. g \cup due \subseteq Seen(q, g) BY <1>1, <1>3, <1>6 DEF Seen
<1>9. PICK coming : coming = {sub[i].frame.n : i \in {j \in Hub!Subs : sub[j] # None /\ c \in sub[j].todo}} OBVIOUS
<1>10. ASSUME NEW i \in Hub!Subs, sub[i] # None, c \in sub[i].todo PROVE sub[i].frame.n \notin Seen(q, g)
  <2>1. PICK s : s = sub[i] OBVIOUS
  <2>2. s.todo # {} BY <1>10, <2>1
  <2>3. ReaderGood(s) /\ NotYet(s, c, Seen(q, g)) BY <1>1, <1>10, <2>1, <2>2, RunningForm
  <2>4. ReplicaOf[c] = s.replica BY <1>10, <2>1, <2>3 DEF ReaderGood
  <2> QED BY <1>10, <2>1, <2>3, <2>4 DEF NotYet
<1>11. (g \cup due) \cap coming = {} BY <1>8, <1>9, <1>10
<1> QED BY <1>1, <1>3, <1>5, <1>6, <1>7, <1>9, <1>11

(* The behaviours of the websocket gateway, with the messages behind it. *)
LEMMA HubPart == ServicesSpec => []~(part = "hub") \/ ([](part = "hub") /\ Hub!Spec)
<1>1. ServicesInit /\ part = "hub" => Hub!Init BY DEF ServicesInit
<1>2. part = "hub" /\ [ServicesNext]_allVars => (part = "hub")' /\ [Hub!Next]_(Hub!vars)
  <2>1. part = "hub" /\ ServicesNext => part' = "hub" /\ Hub!Next BY DEF ServicesNext
  <2>2. UNCHANGED allVars => UNCHANGED part /\ UNCHANGED Hub!vars
    BY DEF allVars, chatVars, hubVars, sharedVars, Hub!vars, Hub!hubVars, Hub!msgVars
  <2> QED BY <2>1, <2>2
<1>3. ~(part = "hub") /\ [ServicesNext]_allVars => (~(part = "hub"))' BY DEF ServicesNext, allVars
<1> QED BY <1>1, <1>2, <1>3, PTL DEF ServicesSpec, Hub!Spec

(* The maps of the hub agree through every order of joins, leaves, dropped
   connections and crashes, whatever the number of replicas and connections. *)
THEOREM HubMapsAgree ==
  ASSUME HubConstants PROVE ServicesSpec => []MapsAgree
<1>1. Hub!Init => HubIInv BY HubInit
<1>2. HubIInv /\ [Hub!Next]_(Hub!vars) => HubIInv' BY HubNext
<1>3. HubIInv => Hub!MapsAgree BY MapsForm DEF HubIInv
<1> QED BY <1>1, <1>2, <1>3, HubPart, PTL DEF MapsAgree, Hub!Spec

(* What reaches a client is of its conversations, in the history when it has
   an id, not its own typing, and no frame comes twice. *)
THEOREM HubDeliversTrue ==
  ASSUME HubConstants PROVE ServicesSpec => []DeliveredTrue
<1>1. Hub!Init => HubIInv BY HubInit
<1>2. HubIInv /\ [Hub!Next]_(Hub!vars) => HubIInv' BY HubNext
<1>3. HubIInv => Hub!DeliveredTrue BY DeliveredForm
<1> QED BY <1>1, <1>2, <1>3, HubPart, PTL DEF DeliveredTrue, Hub!Spec
=============================================================================
