-------------------------- MODULE CaseConfirmations --------------------------
(* Changes of the demo case that its owner confirms: a live turn or the    *)
(* fixture route offers a candidate, MaterialConfirmationService keeps the *)
(* confirmation, the owner clicks, and the case is changed by compare and  *)
(* swap.  One process; what runs between two awaits is one action.         *)
EXTENDS Maps, ServiceClock, FiniteSets, Functions, TLC

CONSTANTS
  Offers,           \* requests that end in a confirmation
  Clicks,           \* requests to confirm
  Candidates,       \* material candidates: [type, changes]
  ConfirmationTtl, MaxConfirmations

ConfirmationsAssumption ==
  /\ \A c \in Candidates : c.type \in {"profile", "timeline"}
  /\ ConfirmationTtl \in Nat /\ MaxConfirmations \in Nat

VARIABLES
  offer,         \* offer[o]: the turn, or the fixture request, o
  confirmations, \* #confirmations by the offer that made it
  csrf,          \* csrfHashes: confirmation -> expiry
  aggregate,     \* the single case: revision, profile, timeline
  click          \* click[c]: a confirmation being applied

confirmationsVars == <<offer, confirmations, csrf, aggregate, click>>

NoChanges == << >>
EmptyAggregate == [revision |-> 0, profile |-> NoChanges, timeline |-> NoChanges]

ConfirmationsInit ==
  /\ offer = [o \in Offers |-> [pc |-> "unsent"]]
  /\ confirmations = << >>
  /\ csrf = << >>
  /\ aggregate = EmptyAggregate
  /\ click = [c \in Clicks |-> [pc |-> "unsent"]]

Open(map, expiry(_)) == Restrict(map, {i \in DOMAIN map : expiry(map[i]) > now})
ConfirmationsOpen == LET Expiry(entry) == entry.expires IN Open(confirmations, Expiry)
CsrfOpen == LET Expiry(entry) == entry IN Open(csrf, Expiry)

-----------------------------------------------------------------------------
(* A live turn (ConversationTurns) or the fixture route has a candidate:   *)
(* the expired CSRF tokens go, and issue loads the case.  The revision     *)
(* that the model was shown is not kept: it is not compared.               *)
Propose(o, candidate) ==
  /\ offer[o].pc = "unsent"
  /\ offer' = [offer EXCEPT ![o] =
       [pc |-> "issue", candidate |-> candidate, revision |-> aggregate.revision]]
  /\ csrf' = CsrfOpen
  /\ UNCHANGED <<now, confirmations, aggregate, click>>

CanIssue == Cardinality(DOMAIN ConfirmationsOpen) < MaxConfirmations

(* The confirmation holds for the revision that issue loaded.              *)
IssueConfirmation(o) ==
  LET expires == now + ConfirmationTtl IN
  /\ offer[o].pc = "issue"
  /\ offer' = [offer EXCEPT ![o] = [pc |-> "done"]]
  /\ IF CanIssue
     THEN /\ confirmations' = Put(ConfirmationsOpen, o,
               [candidate |-> offer[o].candidate, expires |-> expires,
                revision |-> offer[o].revision, status |-> "pending"])
          /\ csrf' = Put(csrf, o, expires)
     ELSE confirmations' = ConfirmationsOpen /\ UNCHANGED csrf
  /\ UNCHANGED <<now, aggregate, click>>

-----------------------------------------------------------------------------
(* The CSRF token is spent first, then the confirmation is used, then the  *)
(* case is loaded.                                                         *)
Usable(id) ==
  /\ id \in DOMAIN confirmations
  /\ confirmations[id].status = "pending"
  /\ now < confirmations[id].expires

ClickConfirm(c, id) ==
  /\ click[c].pc = "unsent"
  /\ csrf' = Restrict(CsrfOpen, DOMAIN CsrfOpen \ {id})
  /\ IF id \in DOMAIN CsrfOpen /\ Usable(id)
     THEN /\ confirmations' = [confirmations EXCEPT ![id].status = "used"]
          /\ click' = [click EXCEPT ![c] =
               [pc |-> "save", id |-> id, entry |-> confirmations[id],
                seen |-> aggregate.revision]]
     ELSE click' = [click EXCEPT ![c] = [pc |-> "done"]] /\ UNCHANGED confirmations
  /\ UNCHANGED <<now, offer, aggregate>>

(* ApplyMaterialCandidateUseCase: each change overwrites its field.        *)
Apply(case, candidate) ==
  [case EXCEPT !.revision = @ + 1,
               !.profile = IF candidate.type = "profile" THEN candidate.changes @@ @ ELSE @,
               !.timeline = IF candidate.type = "timeline" THEN candidate.changes @@ @ ELSE @]

\* FAULT: the candidate is applied to whatever the case has become.
CanApplyLatest(c) == click[c].seen = aggregate.revision

(* The revision of the confirmation against the one that was loaded, and   *)
(* that one again in saveAtomic.                                           *)
CanApply(c) ==
  click[c].entry.revision = click[c].seen /\ click[c].seen = aggregate.revision

(* A confirmation that cannot be applied stays used.                       *)
SaveCandidate(c) ==
  /\ click[c].pc = "save"
  /\ aggregate' = IF CanApply(c) THEN Apply(aggregate, click[c].entry.candidate) ELSE aggregate
  /\ click' = [click EXCEPT ![c] = [pc |-> "done", id |-> click[c].id]]
  /\ UNCHANGED <<now, offer, confirmations, csrf>>

-----------------------------------------------------------------------------
ConfirmationsTime == Advance /\ UNCHANGED confirmationsVars

ConfirmationsNext ==
  \/ \E o \in Offers : IssueConfirmation(o)
  \/ \E o \in Offers, candidate \in Candidates : Propose(o, candidate)
  \/ \E c \in Clicks, id \in Offers : ClickConfirm(c, id)
  \/ \E c \in Clicks : SaveCandidate(c)
  \/ ConfirmationsTime

ConfirmationsSpec ==
  ClockInit /\ ConfirmationsInit /\ [][ConfirmationsNext]_<<now, confirmationsVars>>

-----------------------------------------------------------------------------
ConfirmationsTypeOK ==
  /\ \A o \in Offers : offer[o].pc \in {"unsent", "issue", "done"}
  /\ DOMAIN confirmations \subseteq Offers
  /\ DOMAIN csrf \subseteq Offers
  /\ aggregate.revision \in Nat
  /\ \A c \in Clicks : click[c].pc \in {"unsent", "save", "done"}

(* The case changes only by a confirmation that its owner clicked once and *)
(* in time, and that was issued for the very revision it is applied to; no *)
(* change of another confirmation is overwritten unseen.                   *)
CaseChangesAsConfirmed ==
  [][aggregate' # aggregate =>
       \E c \in Clicks :
         /\ click[c].pc = "save" /\ click'[c].pc = "done"
         /\ click[c].entry.revision = aggregate.revision
         /\ aggregate' = Apply(aggregate, click[c].entry.candidate)
         /\ \A d \in Clicks \ {c} :
              "id" \in DOMAIN click[d] => click[d].id # click[c].id]_confirmationsVars
=============================================================================
