-------------------------- MODULE ConversationShell --------------------------
(* The page of the guided demo: the composer with its warning about        *)
(* personal data, the turns it shows, and the cards that ask to confirm a  *)
(* change of the case.  ConversationTurns and CaseConfirmations model the  *)
(* server; here it is what a page can tell of it.                          *)
EXTENDS Naturals, Sequences, FiniteSets

CONSTANTS
  Texts, Warned,   \* normalized drafts, and those with personal data
  Issues,          \* requests for the card of the fixture
  MaxSends,        \* bound: requests to the turn route
  MaxEdits,        \* bound: changes of the draft
  Null

ShellAssumption == Warned \subseteq Texts /\ Null \notin Texts /\ MaxSends \in Nat

VARIABLES
  draft,     \* the text of the composer, or Null
  turns,     \* submittedTurns: [key, text]
  warning,   \* piiWarning: [key, text, ack] or Null
  flight,    \* the request of the composer under way, or Null
  cards,     \* card -> [value, status, click]: "fixture" or the key of a turn
  issue,     \* requests for the fixture's card
  server,    \* [answers: key -> text, acks, applied: confirmations]
  history    \* [sends, edits, lost: keys and clicks whose answer got lost]

shellVars == <<draft, turns, warning, flight, cards, issue, server, history>>

NoFlight == [key |-> 0]
FixtureCard == 0
NewCard(id) == [value |-> id, status |-> "pending", click |-> Null, reply |-> "none"]

ShellInit ==
  /\ draft = Null
  /\ turns = << >>
  /\ warning = NoFlight
  /\ flight = NoFlight
  /\ cards = [c \in {} |-> Null]
  /\ issue = [i \in Issues |-> "unsent"]
  /\ server = [answers |-> [k \in {} |-> Null], acks |-> {}, applied |-> {}, used |-> {}]
  /\ history = [sends |-> 0, edits |-> 0, lost |-> {}]

-----------------------------------------------------------------------------
(* The composer stays open while a turn is under way and while it warns.   *)
Type(text) ==
  /\ history.edits < MaxEdits /\ text # draft
  /\ draft' = text
  /\ history' = [history EXCEPT !.edits = @ + 1]
  /\ UNCHANGED <<turns, warning, flight, cards, issue, server>>

\* FAULT: the key of the page's first request is used for all of them.
OnlyKey == 1

(* randomUUID, for every submission.                                       *)
NewKey == history.sends + 1

SendTurn(key, text, ack) ==
  /\ flight = NoFlight /\ history.sends < MaxSends
  /\ flight' = [key |-> key, text |-> text, ack |-> ack, reply |-> "none"]
  /\ history' = [history EXCEPT !.sends = @ + 1]
  /\ UNCHANGED <<draft, turns, warning, cards, issue, server>>

SubmitTurn == draft # Null /\ SendTurn(NewKey, draft, 0)

(* The text that was warned of, whatever the draft says by now.            *)
ConfirmPiiWarning == warning # NoFlight /\ SendTurn(warning.key, warning.text, warning.ack)

BackToEdit ==
  /\ warning # NoFlight /\ warning' = NoFlight
  /\ UNCHANGED <<draft, turns, flight, cards, issue, server, history>>

(* The route: a warned text needs an acknowledgement that was given for it *)
(* and not used; a key is answered for one text.                           *)
AckPasses == [id |-> flight.ack, text |-> flight.text] \in server.acks

FitsKey == flight.key \in DOMAIN server.answers => server.answers[flight.key] = flight.text

Answered(acks) ==
  [server EXCEPT !.acks = acks,
     !.answers = [k \in DOMAIN @ \cup {flight.key} |-> IF k = flight.key THEN flight.text ELSE @[k]]]

Replies(reply, next) ==
  /\ flight' = [flight EXCEPT !.reply = reply] /\ server' = next
  /\ UNCHANGED <<draft, turns, warning, cards, issue, history>>

ServeTurn ==
  LET acks == {a \in server.acks : a.id # flight.ack} IN
  /\ flight # NoFlight /\ flight.reply = "none"
  /\ IF flight.text \in Warned /\ flight.ack = 0
     THEN Replies("warning", [server EXCEPT !.acks = @ \cup {[id |-> history.sends, text |-> flight.text]}])
     ELSE IF flight.text \in Warned /\ ~AckPasses
     THEN Replies("error", server)
     ELSE \/ Replies("error", [server EXCEPT !.acks = acks])
          \/ FitsKey /\ Replies("answer", Answered(acks))

AckExpires(a) ==
  /\ server' = [server EXCEPT !.acks = @ \ {a}]
  /\ UNCHANGED <<draft, turns, warning, flight, cards, issue, history>>

(* An answer empties the composer and may bring a card; an error leaves    *)
(* the draft and the warning as they are.                                  *)
ReceiveTurn(offers) ==
  /\ flight # NoFlight /\ flight.reply # "none"
  /\ flight' = NoFlight
  /\ IF flight.reply = "answer"
     THEN /\ turns' = Append(turns, [key |-> flight.key, text |-> flight.text])
          /\ draft' = Null /\ warning' = NoFlight
          /\ cards' = IF offers
                      THEN [c \in DOMAIN cards \cup {flight.key} |->
                              IF c = flight.key THEN NewCard(flight.key) ELSE cards[c]]
                      ELSE cards
     ELSE /\ warning' = IF flight.reply = "warning"
                        THEN [key |-> flight.key, text |-> flight.text, ack |-> history.sends]
                        ELSE warning
          /\ UNCHANGED <<draft, turns, cards>>
  /\ UNCHANGED <<issue, server, history>>

(* The connection breaks before or after the turn was served.              *)
TurnLost ==
  /\ flight # NoFlight /\ flight' = NoFlight
  /\ history' = [history EXCEPT !.lost = @ \cup {flight.key}]
  /\ UNCHANGED <<draft, turns, warning, cards, issue, server>>

-----------------------------------------------------------------------------
(* issueFixtureConfirmation: the button stays until a card has come.       *)
IssueFixture(i) ==
  /\ issue[i] = "unsent" /\ FixtureCard \notin DOMAIN cards
  /\ issue' = [issue EXCEPT ![i] = "sent"]
  /\ UNCHANGED <<draft, turns, warning, flight, cards, server, history>>

(* A later card takes the place of an earlier one, which keeps its status. *)
FixtureIssued(i, ok) ==
  /\ issue[i] = "sent" /\ issue' = [issue EXCEPT ![i] = "done"]
  /\ cards' = IF ~ok THEN cards
              ELSE [c \in DOMAIN cards \cup {FixtureCard} |->
                      IF c # FixtureCard THEN cards[c]
                      ELSE IF c \in DOMAIN cards THEN [cards[c] EXCEPT !.value = i]
                      ELSE NewCard(i)]
  /\ UNCHANGED <<draft, turns, warning, flight, server, history>>

Confirm(c) ==
  /\ cards[c].status \in {"pending", "failed"}
  /\ cards' = [cards EXCEPT ![c] = [@ EXCEPT !.status = "saving", !.click = cards[c].value]]
  /\ UNCHANGED <<draft, turns, warning, flight, issue, server, history>>

(* A confirmation is used once; it changes the case unless it expired or   *)
(* the case has changed.                                                   *)
ServeConfirm(c, fits) ==
  LET id == cards[c].click IN
  /\ cards[c].status = "saving" /\ cards[c].reply = "none"
  /\ server' = [server EXCEPT !.used = @ \cup {id},
       !.applied = IF fits /\ id \notin server.used THEN @ \cup {id} ELSE @]
  /\ cards' = [cards EXCEPT ![c].reply = IF fits /\ id \notin server.used THEN "ok" ELSE "refused"]
  /\ UNCHANGED <<draft, turns, warning, flight, issue, history>>

\* FAULT: every answer of the server counts as a success.
StatusOfAny(reply) == "applied"

StatusAfter(reply) == IF reply = "ok" THEN "applied" ELSE "failed"

ReceiveConfirm(c) ==
  /\ cards[c].status = "saving" /\ cards[c].reply # "none"
  /\ cards' = [cards EXCEPT ![c] = [@ EXCEPT !.status = StatusAfter(cards[c].reply), !.reply = "none"]]
  /\ UNCHANGED <<draft, turns, warning, flight, issue, server, history>>

ConfirmLost(c) ==
  /\ cards[c].status = "saving"
  /\ cards' = [cards EXCEPT ![c] = [@ EXCEPT !.status = "failed", !.reply = "none"]]
  /\ history' = [history EXCEPT !.lost = @ \cup {cards[c].click}]
  /\ UNCHANGED <<draft, turns, warning, flight, issue, server>>

ShellNext ==
  \/ \E text \in Texts : Type(text)
  \/ SubmitTurn \/ ConfirmPiiWarning \/ BackToEdit
  \/ ServeTurn \/ TurnLost
  \/ \E offers \in BOOLEAN : ReceiveTurn(offers)
  \/ \E a \in server.acks : AckExpires(a)
  \/ \E i \in Issues : IssueFixture(i) \/ \E ok \in BOOLEAN : FixtureIssued(i, ok)
  \/ \E c \in DOMAIN cards :
       \/ Confirm(c) \/ ReceiveConfirm(c) \/ ConfirmLost(c)
       \/ \E fits \in BOOLEAN : ServeConfirm(c, fits)

-----------------------------------------------------------------------------
ShellTypeOK ==
  /\ draft \in Texts \cup {Null}
  /\ flight.key \in 0 .. MaxSends /\ warning.key \in 0 .. MaxSends
  /\ \A c \in DOMAIN cards :
       /\ cards[c].status \in {"pending", "saving", "applied", "failed"}
       /\ cards[c].reply # "none" => cards[c].status = "saving"

(* Each turn on the page is one answer of the server to just that text;    *)
(* and an answer that the page does not show is on its way or was lost, so *)
(* that the page never drops one by itself.                                *)
ShownTurnsAreAnswers ==
  /\ \A i \in DOMAIN turns :
       /\ turns[i].key \in DOMAIN server.answers
       /\ server.answers[turns[i].key] = turns[i].text
       /\ \A j \in DOMAIN turns : turns[i].key = turns[j].key => i = j
  /\ \A k \in DOMAIN server.answers :
       \/ \E i \in DOMAIN turns : turns[i].key = k
       \/ flight.key = k \/ k \in history.lost

(* A card says that the case was changed only if the confirmation that was *)
(* clicked there has changed it; and where a card says that nothing was    *)
(* changed ("案件內容沒有變更"), that is so unless an answer got lost.         *)
CardsTellTheTruth ==
  \A c \in DOMAIN cards :
    /\ cards[c].status = "applied" => cards[c].click \in server.applied
    /\ cards[c].status = "failed" /\ cards[c].click \in server.applied
       => cards[c].click \in history.lost
=============================================================================
