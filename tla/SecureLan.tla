------------------------------ MODULE SecureLan ------------------------------
(* The demo on a local network.  The operator switches the managed         *)
(* firewall rule through a broker and an elevated process (lan-firewall);  *)
(* the front (run-secure-lan) checks that rule, starts Next as its child,  *)
(* and relays requests to whatever answers on the internal port.  The      *)
(* scripts of scripts/windows are modelled from the calls made to them.    *)
EXTENDS Naturals, FiniteSets

CONSTANTS
  Operators, Actions,   \* runs of lan-firewall, and what they are asked
  Fronts,               \* runs of run-secure-lan
  Networks,             \* categories that the network may have
  MaxOpen,              \* bound: requests open at a time
  Null

SecureLanAssumption ==
  /\ Actions \subseteq {"Verify", "InstallDisabled", "Enable", "Disable"}
  /\ MaxOpen \in Nat /\ Null \notin Fronts

VARIABLES
  rule,       \* "missing", "off", "on", or "foreign": made for something else
  network,
  operator,   \* o -> [action, stage, elevated, dir, result, exit, report, met]
  front,      \* f -> [stage, child, exit, open, cut, ended, facts]
  port        \* the front whose child answers on the internal port

lanVars == <<rule, network, operator, front, port>>

NewOperator ==
  [action |-> "Verify", stage |-> "new", elevated |-> "none", dir |-> "none",
   result |-> "none", exit |-> 1, report |-> "none", met |-> FALSE]

NewFront ==
  [stage |-> "new", child |-> "none", exit |-> "none", open |-> 0, cut |-> FALSE,
   ended |-> "no", facts |-> Null]

LanInit ==
  /\ rule \in IF Operators = {} THEN {"missing", "off", "on", "foreign"} ELSE {"missing", "off", "on"}
  /\ network \in Networks
  /\ operator = [o \in Operators |-> NewOperator]
  /\ front = [f \in Fronts |-> NewFront]
  /\ port = Null

-----------------------------------------------------------------------------
(* The operator.                                                           *)
Target(action) == IF action = "Enable" THEN "on" ELSE "off"
Meets(action, r) == IF action = "Verify" THEN r \in {"on", "off"} ELSE r = Target(action)

OperatorRests == UNCHANGED <<front, port, network>>

(* What became of the rule while operations were under way is noted.       *)
Noting(next, changed) ==
  /\ rule' = next
  /\ operator' = [o \in Operators |->
       [changed[o] EXCEPT !.met = @ \/ /\ changed[o].stage \notin {"new", "ended"}
                                       /\ Meets(changed[o].action, next)]]
  /\ OperatorRests

Goes(o, record) == Noting(rule, [operator EXCEPT ![o] = record])

(* A directory for the result; if its path fails the check after mkdtemp,  *)
(* it stays, because no one has its name.                                  *)
Begin(o, action) ==
  LET asked == [operator[o] EXCEPT !.action = action] IN
  /\ operator[o].stage = "new"
  /\ \/ Goes(o, [asked EXCEPT !.stage = "asking", !.dir = "made"])
     \/ \E dir \in {"none", "left"} :
          Goes(o, [asked EXCEPT !.stage = "ended", !.dir = dir, !.report = "BLOCKED"])

Consent(o) ==
  /\ operator[o].stage = "asking"
  /\ \/ Goes(o, [operator[o] EXCEPT !.stage = "waiting", !.elevated = "started"])
     \/ Goes(o, [operator[o] EXCEPT !.stage = "returned"])

(* The elevated process: it switches the rule when the rule is in scope,   *)
(* reads it again, and writes down what it found unless the place is gone. *)
Switchable(action) ==
  /\ network = "Private"
  /\ IF action = "InstallDisabled" THEN rule \in {"missing", "off"} ELSE rule \in {"off", "on"}

Switch(o) ==
  LET op == operator[o] IN
  /\ op.elevated = "started"
  /\ IF op.dir = "made" /\ op.result = "none" /\ Switchable(op.action)
     THEN Noting(IF op.action = "Verify" THEN rule ELSE Target(op.action),
                 [operator EXCEPT ![o].elevated = "switched"])
     ELSE Goes(o, [op EXCEPT !.elevated = "failing"])

ReadBack(o) ==
  /\ operator[o].elevated = "switched"
  /\ Goes(o, [operator[o] EXCEPT !.elevated =
               IF Meets(operator[o].action, rule) THEN "passing" ELSE "failing"])

WriteResult(o) ==
  LET op == operator[o] IN
  /\ op.elevated \in {"passing", "failing"}
  /\ Goes(o, [op EXCEPT
       !.result = IF op.dir = "made" THEN IF op.elevated = "passing" THEN "PASS" ELSE "BLOCKED" ELSE @,
       !.elevated = IF op.elevated = "passing" /\ op.dir = "made" THEN "exited0" ELSE "exited1"])

BrokerReturns(o) ==
  /\ operator[o].stage = "waiting" /\ operator[o].elevated \in {"exited0", "exited1"}
  /\ Goes(o, [operator[o] EXCEPT !.stage = "returned",
                                 !.exit = IF operator[o].elevated = "exited0" THEN 0 ELSE 1])

(* The broker waits 60 s and kills the elevated process, if it may; the    *)
(* operator waits 70 s, the question to the user included, and kills the   *)
(* broker only.                                                            *)
BrokerTimesOut(o) ==
  /\ operator[o].stage = "waiting"
  /\ \E killed \in BOOLEAN :
       Goes(o, [operator[o] EXCEPT !.stage = "returned",
                                   !.elevated = IF killed THEN "killed" ELSE @])

OperatorTimesOut(o) ==
  /\ operator[o].stage \in {"asking", "waiting"}
  /\ Goes(o, [operator[o] EXCEPT !.stage = "cleaning", !.report = "BLOCKED"])

\* FAULT: the exit status of the broker is taken for the result.
PassesByExit(op) == op.exit = 0 \/ op.result # "none"

Passes(op) == op.result = "PASS" /\ op.exit = 0

ReadResult(o) ==
  /\ operator[o].stage = "returned"
  /\ Goes(o, [operator[o] EXCEPT !.stage = "cleaning",
               !.report = IF Passes(operator[o]) THEN "PASS" ELSE "BLOCKED"])

(* cleanupResult: unlink, then rmdir, whose failure nobody hears of.       *)
Unlink(o) ==
  /\ operator[o].stage = "cleaning"
  /\ Goes(o, [operator[o] EXCEPT !.stage = "unlinked", !.result = "none"])

Rmdir(o) ==
  /\ operator[o].stage = "unlinked"
  /\ Goes(o, [operator[o] EXCEPT !.stage = "ended",
               !.dir = IF operator[o].result = "none" THEN "removed" ELSE "left"])

OperatorNext ==
  \E o \in Operators :
    \/ \E action \in Actions : Begin(o, action)
    \/ Consent(o) \/ Switch(o) \/ ReadBack(o) \/ WriteResult(o)
    \/ BrokerReturns(o) \/ BrokerTimesOut(o) \/ OperatorTimesOut(o)
    \/ ReadResult(o) \/ Unlink(o) \/ Rmdir(o)

-----------------------------------------------------------------------------
(* The front.                                                              *)
FrontRests == UNCHANGED <<rule, network, operator>>
Moves(f, record) == front' = [front EXCEPT ![f] = record] /\ FrontRests
Same(f, record) == Moves(f, record) /\ UNCHANGED port

Listening(f) == front[f].stage = "serving"
Busy(f) == front[f].stage \in {"serving", "closing"}
Freed(f) == port' = IF port = f THEN Null ELSE port

(* verifyFirewall: what Get-RentProofLanFirewallState reports of a rule    *)
(* that is there and in scope, and what the front asks of it.              *)
Facts == [category |-> network, rule |-> rule]
StateReported == network = "Private" /\ rule \in {"off", "on"}
ValidFirewallState(facts) == facts.category = "Private" /\ facts.rule = "on"

(* verifyWindowsLanPreflight of the policy, for the phase ready_to_serve.  *)
PreflightAllows(facts) ==
  facts.category = "Private" /\ facts.rule \notin {"missing", "foreign"} /\ facts.rule = "on"

(* The profile, the certificate and the data root may fail, too.           *)
Start(f) ==
  /\ front[f].stage = "new"
  /\ \E prepared \in BOOLEAN :
     IF prepared /\ StateReported /\ ValidFirewallState(Facts)
     THEN Same(f, [NewFront EXCEPT !.stage = "starting", !.child = "up", !.facts = Facts])
     ELSE Same(f, [NewFront EXCEPT !.stage = "ended", !.ended = "error"])

(* The child takes the internal port or ends; later it may end by itself.  *)
(* Its end is heard once the front has begun to serve.                     *)
ChildExits(f) ==
  [front[f] EXCEPT !.child = "dead", !.exit = IF Busy(f) THEN "told" ELSE "unheard"]

ChildBinds(f) ==
  /\ front[f].child = "up"
  /\ IF port = Null
     THEN Moves(f, [front[f] EXCEPT !.child = "bound"]) /\ port' = f
     ELSE Same(f, ChildExits(f))

ChildEnds(f) == front[f].child = "bound" /\ Moves(f, ChildExits(f)) /\ Freed(f)

(* waitForNext: the child has not ended, and something answers.            *)
Probe(f) ==
  /\ front[f].stage = "starting"
  /\ Same(f, IF front[f].child = "dead"
             THEN [front[f] EXCEPT !.stage = "ended", !.ended = "error"]
             ELSE [front[f] EXCEPT !.stage = "probing"])

ProbeEnds(f) ==
  /\ front[f].stage = "probing"
  /\ \/ Same(f, [front[f] EXCEPT !.stage = "starting"])
     \/ port # Null /\ Same(f, [front[f] EXCEPT !.stage = "ready"])

StartTimesOut(f) ==
  /\ front[f].stage = "starting"
  /\ Moves(f, [front[f] EXCEPT !.stage = "ended", !.ended = "timeout", !.child = "dead"])
  /\ Freed(f)

(* Without the external port the front ends, and its child goes on.        *)
Listen(f) ==
  /\ front[f].stage = "ready"
  /\ Same(f, IF \E g \in Fronts : Listening(g)
             THEN [front[f] EXCEPT !.stage = "ended", !.ended = "error"]
             ELSE [front[f] EXCEPT !.stage = "serving"])

Request(f) ==
  /\ Listening(f) /\ front[f].open < MaxOpen
  /\ Same(f, [front[f] EXCEPT !.open = @ + 1])

(* Answered by whatever is on the internal port, or 502.                   *)
Answer(f) ==
  /\ front[f].open > 0
  /\ Same(f, [front[f] EXCEPT !.open = @ - 1])

HearsExit(f) ==
  /\ front[f].exit = "told" /\ Busy(f)
  /\ Same(f, [front[f] EXCEPT !.stage = "closing", !.exit = "heard",
               !.ended = IF front[f].stage = "serving" THEN "error" ELSE @])

(* stop: no new connections, the open requests are answered, and then the  *)
(* child is told to end.                                                   *)
Signal(f) == Listening(f) /\ Same(f, [front[f] EXCEPT !.stage = "closing", !.ended = "stop"])

\* FAULT: the child is stopped while requests are open.
DrainedAtOnce(f) == TRUE

Drained(f) == front[f].open = 0

Closed(f) ==
  LET stops == front[f].ended = "stop" IN
  /\ front[f].stage = "closing" /\ Drained(f)
  /\ Moves(f, [front[f] EXCEPT !.stage = "ended",
               !.child = IF stops THEN "dead" ELSE @,
               !.cut = stops /\ port = f /\ front[f].open > 0])
  /\ IF stops THEN Freed(f) ELSE UNCHANGED port

(* A signal before the front serves, or a second one, ends it at once; the *)
(* child hears of it only when the signal goes to the whole console.       *)
Killed(f) ==
  /\ \/ front[f].stage \in {"starting", "probing", "ready"}
     \/ front[f].stage = "closing" /\ front[f].ended = "stop"
  /\ \E console \in BOOLEAN :
       /\ Moves(f, [front[f] EXCEPT !.stage = "ended", !.ended = "killed", !.open = 0,
                     !.child = IF console THEN "dead" ELSE @])
       /\ IF console THEN Freed(f) ELSE UNCHANGED port

FrontNext ==
  \E f \in Fronts :
    \/ Start(f) \/ ChildBinds(f) \/ ChildEnds(f) \/ Probe(f) \/ ProbeEnds(f)
    \/ StartTimesOut(f) \/ Listen(f) \/ Request(f) \/ Answer(f)
    \/ HearsExit(f) \/ Signal(f) \/ Closed(f) \/ Killed(f)

LanNext == OperatorNext \/ FrontNext

-----------------------------------------------------------------------------
LanTypeOK ==
  /\ rule \in {"missing", "off", "on", "foreign"}
  /\ port \in Fronts \cup {Null}
  /\ port # Null => front[port].child = "bound"
  /\ \A f \in Fronts : front[f].open \in 0 .. MaxOpen

(* An operation that reports success is true of the rule: at some moment   *)
(* between its begin and its report the rule was what it was asked for.    *)
(* (That it still is cannot be said: an operation that was reported as     *)
(* blocked for want of an answer may yet switch the rule.)                 *)
ReportedRuleWasSo == \A o \in Operators : operator[o].report = "PASS" => operator[o].met

(* The directory of a result is left only where its elevated process       *)
(* outlived its operator or its path failed the check.                     *)
ResultsAreRemoved ==
  \A o \in Operators :
    operator[o].stage = "ended" /\ operator[o].dir = "left"
    => operator[o].elevated \in {"none", "exited0", "exited1"} /\ operator[o].report = "BLOCKED"

(* A front that was stopped leaves no server behind and cuts no request    *)
(* short; one that serves passed the preflight of the policy; and it does  *)
(* so without a child of its own only when that child had ended unheard.   *)
FrontsEndCleanly ==
  \A f \in Fronts :
    /\ ~front[f].cut
    /\ front[f].stage = "ended" /\ front[f].ended = "stop" => front[f].child = "dead" /\ port # f
    /\ front[f].facts # Null => PreflightAllows(front[f].facts)
    /\ Listening(f) /\ front[f].child = "dead" => front[f].exit # "heard"
=============================================================================
