-------------------------- MODULE RealConversation --------------------------
(* The conversation about an uploaded case: the route with its completed   *)
(* turns and active cases, and the listing page that a turn offers and a   *)
(* later turn adds to the case.  One actor and one of his cases, whose row *)
(* others change meanwhile.                                                *)
EXTENDS ServiceClock, Maps, FiniteSets, Functions

CONSTANTS
  None,
  Says,               \* requests to the route, numbered as they arrive
  SayKeys,            \* idempotency keys
  Remarks,            \* normalized turns: [kind, warned]
  Pages,              \* what the fetcher may extract
  TurnRetention,      \* of completedTurns, 24 h
  OfferTtl,           \* of pendingListingUrls, 10 min
  MaxTurns, MaxChanges

RealConversationAssumption ==
  /\ Says \subseteq Nat /\ None \notin Says
  /\ \A remark \in Remarks : remark.kind \in {"link", "confirm", "other"} /\ remark.warned \in BOOLEAN
  /\ {TurnRetention, OfferTtl, MaxTurns} \subseteq Nat \ {0} /\ MaxChanges \in Nat

VARIABLES
  say,        \* say[r]: the request r and where it is
  turns,      \* completedTurns: key -> [remark, answer, expires]
  active,     \* activeCases: the case is in it
  pending,    \* the entry of pendingListingUrls, or None
  warnings,   \* piiAcknowledgements: the request warned -> [remark, revision, used]
  realCase    \* the row: revision, listing, and how often others changed it

talkVars == <<say, turns, active, pending, warnings, realCase>>

Silent == [pc |-> "unsent", key |-> None, remark |-> None, ack |-> None, revision |-> 0,
           answer |-> None]

TalkInit ==
  /\ say = [r \in Says |-> Silent]
  /\ turns = << >>
  /\ active = FALSE
  /\ pending = None
  /\ warnings = << >>
  /\ realCase = [revision |-> 0, listing |-> None, others |-> 0]

Refused(r) == say' = [say EXCEPT ![r] = [Silent EXCEPT !.pc = "done"]]

-----------------------------------------------------------------------------
TurnsKept == Restrict(turns, {k \in DOMAIN turns : turns[k].expires > now})

Arrives(r) == say[r].pc = "unsent" /\ \A q \in Says : q < r => say[q].pc # "unsent"

(* Up to the first await after the actor is known.  A key that is known is *)
(* answered, or refused as in progress or as another turn's; the rate      *)
(* limit (RateLimits) refuses like a busy case.                            *)
Say(r, key, remark, ack) ==
  /\ Arrives(r)
  /\ IF key \in DOMAIN TurnsKept
     THEN /\ turns' = TurnsKept
          /\ IF turns[key].remark = remark /\ turns[key].answer # None
             THEN say' = [say EXCEPT ![r] = [Silent EXCEPT !.pc = "done", !.key = key,
                            !.remark = remark, !.answer = turns[key].answer]]
             ELSE Refused(r)
          /\ UNCHANGED active
     ELSE IF ~active /\ Cardinality(DOMAIN TurnsKept) < MaxTurns
     THEN /\ turns' = Put(TurnsKept, key,
                         [remark |-> remark, answer |-> None, expires |-> now + TurnRetention])
          /\ active' = TRUE
          /\ say' = [say EXCEPT ![r] = [Silent EXCEPT !.pc = "context", !.key = key,
                                          !.remark = remark, !.ack = ack]]
     ELSE turns' = TurnsKept /\ Refused(r) /\ UNCHANGED active
  /\ UNCHANGED <<now, pending, warnings, realCase>>

\* FAULT: the record of a failed turn stays.
LeaveTurn(r) == active' = FALSE /\ turns' = turns

(* The finally of the route: the case is free, and the key of a turn       *)
(* without an answer too.                                                  *)
Leave(r) ==
  /\ active' = FALSE
  /\ turns' = Restrict(turns, DOMAIN turns \ {say[r].key})

Fail(r) == Leave(r) /\ Refused(r)

(* respond, then the finally.                                              *)
Respond(r) ==
  /\ active' = FALSE
  /\ turns' = IF say[r].key \in DOMAIN turns
              THEN [turns EXCEPT ![say[r].key].answer = r] ELSE turns
  /\ say' = [say EXCEPT ![r].pc = "done", ![r].answer = r]

-----------------------------------------------------------------------------
Offer(p) == IF p # None /\ p.expires <= now THEN None ELSE p

(* getConversationContext answers with the revision, or fails.  A warned   *)
(* turn is refused with a new acknowledgement, or uses up the one it       *)
(* brings (one that expired is like one unknown); then its intent decides. *)
MustAcknowledge(r) == say[r].remark.warned
AckFits(r, revision) ==
  /\ say[r].ack \in DOMAIN warnings
  /\ warnings[say[r].ack] = [remark |-> say[r].remark, revision |-> revision, used |-> FALSE]

Context(r) ==
  LET revision == realCase.revision
      goesOn == ~MustAcknowledge(r) \/ AckFits(r, revision)
  IN
  /\ say[r].pc = "context"
  /\ warnings' =
       IF ~MustAcknowledge(r) THEN warnings
       ELSE IF say[r].ack = None
       THEN Put(warnings, r, [remark |-> say[r].remark, revision |-> revision, used |-> FALSE])
       ELSE IF AckFits(r, revision) THEN [warnings EXCEPT ![say[r].ack].used = TRUE]
       ELSE warnings
  /\ pending' =
       IF ~goesOn THEN pending
       ELSE IF say[r].remark.kind = "confirm" /\ Offer(pending) # None
               /\ pending.revision # revision
       THEN None
       ELSE Offer(pending)
  /\ IF ~goesOn THEN Fail(r)
     ELSE CASE say[r].remark.kind = "link" ->
                 /\ say' = [say EXCEPT ![r].pc = "fetch", ![r].revision = revision]
                 /\ UNCHANGED <<turns, active>>
            [] say[r].remark.kind = "confirm" /\ pending' # None ->
                 /\ say' = [say EXCEPT ![r].pc = "save", ![r].revision = revision]
                 /\ UNCHANGED <<turns, active>>
            [] say[r].remark.kind = "confirm" /\ pending' = None -> Fail(r)
            [] OTHER -> Respond(r)
  /\ UNCHANGED <<now, realCase>>

ContextFails(r) ==
  /\ say[r].pc = "context"
  /\ Fail(r)
  /\ UNCHANGED <<now, pending, warnings, realCase>>

(* The page is fetched, or not; it is offered for the revision that was    *)
(* read before.                                                            *)
Fetched(r, page) ==
  /\ say[r].pc = "fetch"
  /\ pending' = [page |-> page, offer |-> r, revision |-> say[r].revision, expires |-> now + OfferTtl]
  /\ Respond(r)
  /\ UNCHANGED <<now, warnings, realCase>>

FetchFails(r) ==
  /\ say[r].pc = "fetch"
  /\ Fail(r)
  /\ UNCHANGED <<now, pending, warnings, realCase>>

\* FAULT: the page is saved to the case as it is.
SavesAnyRevision == TRUE

SavesAtRevision == realCase.revision = pending.revision

(* saveListingUrlSource is one transaction; its commit may be reported as  *)
(* an error.  Then, or when the row has changed, the offer stays.          *)
SaveListing(r, answered) ==
  /\ say[r].pc = "save"
  /\ realCase' = IF SavesAtRevision
                 THEN [realCase EXCEPT !.revision = @ + 1, !.listing = pending] ELSE realCase
  /\ IF SavesAtRevision /\ answered
     THEN pending' = None /\ Respond(r)
     ELSE Fail(r) /\ UNCHANGED pending
  /\ UNCHANGED <<now, warnings>>

SaveFails(r) ==
  /\ say[r].pc = "save"
  /\ Fail(r)
  /\ UNCHANGED <<now, pending, warnings, realCase>>

(* An upload, an analysis or a deletion request moves the row on.          *)
OthersChange ==
  /\ realCase.others < MaxChanges
  /\ realCase' = [realCase EXCEPT !.revision = @ + 1, !.others = @ + 1]
  /\ UNCHANGED <<now, say, turns, active, pending, warnings>>

-----------------------------------------------------------------------------
TalkTime == Advance /\ UNCHANGED talkVars

TalkNext ==
  \/ \E r \in Says, key \in SayKeys, remark \in Remarks, ack \in DOMAIN warnings \cup {None} :
       Say(r, key, remark, ack)
  \/ \E r \in Says : Context(r) \/ ContextFails(r) \/ FetchFails(r) \/ SaveFails(r)
  \/ \E r \in Says, page \in Pages : Fetched(r, page)
  \/ \E r \in Says, answered \in BOOLEAN : SaveListing(r, answered)
  \/ OthersChange
  \/ TalkTime

TalkSpec == ClockInit /\ TalkInit /\ [][TalkNext]_<<now, talkVars>>

-----------------------------------------------------------------------------
TalkTypeOK ==
  /\ \A r \in Says : say[r].pc \in {"unsent", "context", "fetch", "save", "done"}
  /\ DOMAIN turns \subseteq SayKeys
  /\ active \in BOOLEAN
  /\ pending = None \/ pending.page \in Pages
  /\ realCase.revision \in Nat

(* One turn of the case is under way at most, the case is marked as long,  *)
(* and only its key, until it expires, is without an answer.               *)
TurnHoldsItsCase ==
  LET busy == {r \in Says : say[r].pc \in {"context", "fetch", "save"}} IN
  /\ Cardinality(busy) <= 1
  /\ active <=> busy # {}
  /\ \A k \in DOMAIN turns : turns[k].answer = None => \E r \in busy : say[r].key = k

(* Two turns with one key that were answered said the same and have one    *)
(* answer, as long as no record can have expired.                          *)
OneReplyPerKey ==
  \A r, q \in Says :
    /\ now < TurnRetention
    /\ say[r].answer # None /\ say[q].answer # None /\ say[r].key = say[q].key
    => say[r].answer = say[q].answer /\ say[r].remark = say[q].remark

(* The case gets the page that the owner was last shown and confirmed, in  *)
(* the state in which it was offered: one offer is never added twice, not  *)
(* even when an addition was reported as failed.                           *)
ListingIsAsOffered ==
  [][realCase'.listing # realCase.listing =>
       LET added == realCase'.listing IN
       /\ say[added.offer].pc = "done" /\ say[added.offer].answer = added.offer
       /\ added.revision = realCase.revision
       /\ realCase.listing # None => realCase.listing.offer # added.offer]_talkVars
=============================================================================
