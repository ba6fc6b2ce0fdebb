---------------------------- MODULE ShoppingAgent ----------------------------
(***************************************************************************)
(* The shopping agent (examples/shopping-agent/src): a mock shop behind two*)
(* guards, one to browse and one to buy, and the loop that lets a model use*)
(* the tools and tells it what became of each use; and the script that     *)
(* makes the same calls without a model.  The guard is GatedTool, one call *)
(* of it for every tool_use block.  The model is external: it answers      *)
(* anything.  An amount is in cents; the caveats' expiry, 2099, never comes*)
(***************************************************************************)
EXTENDS GatedTool, Naturals, Sequences, SequencesExt

CONSTANTS MaxIterations, \* of the loop, an option of runLlmDemo; the code's default is 8
          MaxUses,       \* bound on the tool uses of one answer
          Uses,          \* the tool uses the model may ask for
          NoValue        \* a field that is missing or of another type

ASSUME CallsAssumption ==
    /\ MaxIterations \in Nat \ {0} /\ MaxUses \in Nat \ {0}
    /\ Calls = 1..MaxIterations * MaxUses /\ 3 \in Calls
    /\ NoValue \notin Nat \cup {"cable"}

VARIABLES
    plan,     \* the capabilities in use and the holder's signer
    status,   \* of the run
    turn,     \* the iterations begun
    messages, \* the conversation: roles, and the ids of their tool uses or results
    used,     \* the tool and arguments of each id
    dealt,       \* how many of the last answer's uses are dealt with
    results,  \* what the model will be told of them
    shopLog,  \* the ids whose calls reached the shop, in order
    summary   \* what the run reports

shopVars == <<plan, status, turn, messages, used, dealt, results, shopLog, summary>>

-----------------------------------------------------------------------------
\* DEFAULT_CATALOG
Catalog == {[id |-> "usbc-cable-1m", price |-> 2000, merchant |-> "amazon.com"],
            [id |-> "usbc-cable-hostile", price |-> 1000, merchant |-> "amazon.com"]}

\* SearchArgs, PurchaseArgs, WireArgs: the fields of all three.
Input == [query : {"cable", NoValue}, product : {p.id : p \in Catalog} \cup {"unknown"},
          cents : Nat \cup {NoValue}, merchant : {"amazon.com", "elsewhere"}]

ASSUME UsesAssumption == Uses \subseteq [tool : {use.tool : use \in Uses}, input : Input]

\* TOOLS, and the names the shop has for them; any other name is unknown.
ShopTools == {"catalog.search", "checkout.purchase", "bank.wire"}

\* createMockShop's callTool: does it return, or throw an error?  An amount that is
\* missing is NaN, and not less than the price.
ShopServes(tool, input) ==
    CASE tool = "catalog.search" -> input.query # NoValue
      [] tool = "checkout.purchase" ->
            \E p \in Catalog : /\ p.id = input.product /\ p.merchant = input.merchant
                               /\ input.cents = NoValue \/ input.cents >= p.price
      [] OTHER -> tool = "bank.wire"

-----------------------------------------------------------------------------
\* issueBrowseCapability
BrowseAdmits(tool, input) == tool = "catalog.search"

\* Mutant: the merchant is all that is looked at.
BuyAdmits_AnyTool(tool, input) == input.merchant = "amazon.com"

\* The caveat on the amount: 50 dollars.
Limit == 5000

\* issueBuyCapability
BuyAdmits(tool, input) ==
    /\ tool = "checkout.purchase"
    /\ input.merchant = "amazon.com"
    /\ input.cents # NoValue /\ input.cents <= Limit

\* issueHokCapability: one disjunction for both.
HokAdmits(tool, input) == BrowseAdmits(tool, input) \/ BuyAdmits(tool, input)

\* route picks the guard, makeOptions its capability and signer: does it let the
\* call pass?  A call that needs a signature is denied for a wrong one.
Admits(tool, input) ==
    IF plan.hok THEN plan.signer = "own key" /\ HokAdmits(tool, input)
    ELSE IF tool = "catalog.search" THEN BrowseAdmits(tool, input) ELSE BuyAdmits(tool, input)

-----------------------------------------------------------------------------
\* The signer of a plan without holder-of-key is never called.
Plans == {[hok |-> FALSE, signer |-> "none"]}
         \cup [hok : {TRUE}, signer : {"own key", "override", "throwing"}]

\* LlmDemoRun, and DemoRun for the script.
NoSummary == [attemptedWire |-> FALSE, deniedWire |-> FALSE, purchased |-> FALSE, stop |-> "none"]

\* runLlmDemo up to its loop; without an API key it throws.
StartLlm(p, key) ==
    /\ status = "idle"
    /\ plan' = p
    /\ status' = IF key THEN "asking" ELSE "failed"
    /\ UNCHANGED <<gate, turn, messages, used, dealt, results, shopLog, summary>>

\* The loop's condition.
MayAsk == status = "asking" /\ turn < MaxIterations

\* The answer of messages.create.  Whatever stops the model but its use of tools
\* ends the run, and uses that come with it are not made.
Answer(stop, asked) ==
    LET first == turn * MaxUses
        ids == [i \in DOMAIN asked |-> first + i]
    IN /\ MayAsk
       /\ turn' = turn + 1
       /\ summary' = [summary EXCEPT !.stop = stop]
       /\ IF stop = "tool_use"
          THEN /\ status' = "using"
               /\ messages' = Append(messages, [role |-> "assistant", ids |-> ids])
               /\ used' = [c \in Calls |-> IF c \in ToSet(ids) THEN asked[c - first] ELSE used[c]]
          ELSE status' = "done" /\ UNCHANGED <<messages, used>>
       /\ dealt' = 0 /\ results' = <<>>
       /\ UNCHANGED <<gate, plan, shopLog>>

\* The request fails: the run does.
AskFails ==
    /\ MayAsk
    /\ status' = "failed"
    /\ UNCHANGED <<gate, plan, turn, messages, used, dealt, results, shopLog, summary>>

\* The loop's bound is reached.
OutOfTurns ==
    /\ status = "asking" /\ ~MayAsk
    /\ status' = "done"
    /\ UNCHANGED <<gate, plan, turn, messages, used, dealt, results, shopLog, summary>>

-----------------------------------------------------------------------------
\* The use the loop is at.
Pending(c) ==
    /\ status = "using"
    /\ dealt < Len(Last(messages).ids) /\ c = Last(messages).ids[dealt + 1]

Told(c, what) ==
    dealt' = dealt + 1 /\ results' = Append(results, [id |-> c, what |-> what])

\* Mutant: nothing is said about a tool that is not known.
UseUnknown_Silent(c) ==
    /\ Pending(c) /\ used[c].tool \notin ShopTools
    /\ dealt' = dealt + 1
    /\ UNCHANGED <<gate, plan, status, turn, messages, used, results, shopLog, summary>>

\* A tool that is not known is an error for the model, and no call.
UseUnknown(c) ==
    /\ Pending(c) /\ used[c].tool \notin ShopTools
    /\ Told(c, "unknown")
    /\ UNCHANGED <<gate, plan, status, turn, messages, used, shopLog, summary>>

\* guard.callTool up to its receipt; the error of a signer that throws ends the run.
UseDecide(c) ==
    LET use == used[c]
        throws == plan.hok /\ plan.signer = "throwing"
    IN /\ Pending(c) /\ use.tool \in ShopTools
       /\ summary' = [summary EXCEPT !.attemptedWire = @ \/ use.tool = "bank.wire"]
       /\ IF throws THEN Throw(c) /\ status' = "failed"
          ELSE Decide(c, Admits(use.tool, use.input)) /\ UNCHANGED status
       /\ UNCHANGED <<plan, turn, messages, used, dealt, results, shopLog>>

\* A denial is told to the model, which goes on.
UseRefuse(c) ==
    /\ Pending(c) /\ Refuse(c)
    /\ summary' = [summary EXCEPT !.deniedWire = @ \/ used[c].tool = "bank.wire"]
    /\ Told(c, "denied")
    /\ UNCHANGED <<plan, status, turn, messages, used, shopLog>>

\* Mutant: an error of the shop is told as a result.
UseShop_Swallows(c) ==
    /\ Pending(c) /\ Enter(c, "settled")
    /\ shopLog' = Append(shopLog, c)
    /\ Told(c, "ok")
    /\ UNCHANGED <<plan, status, turn, messages, used, summary>>

\* The shop logs the call and serves it; an error it throws ends the run.
UseShop(c) ==
    /\ Pending(c) /\ Enter(c, "settled")
    /\ shopLog' = Append(shopLog, c)
    /\ IF ShopServes(used[c].tool, used[c].input)
       THEN Told(c, "ok") /\ UNCHANGED status
       ELSE status' = "failed" /\ UNCHANGED <<dealt, results>>
    /\ UNCHANGED <<plan, turn, messages, used, summary>>

\* All uses are dealt with: the results are the next message.
TellResults ==
    /\ status = "using" /\ dealt = Len(Last(messages).ids)
    /\ messages' = Append(messages, [role |-> "user", ids |-> [i \in DOMAIN results |-> results[i].id]])
    /\ status' = "asking"
    /\ UNCHANGED <<gate, plan, turn, used, dealt, results, shopLog, summary>>

-----------------------------------------------------------------------------
\* runDemo's calls: search, buy for 20 dollars what it found, and wire.
Script ==
    LET input == [query |-> "cable", product |-> "usbc-cable-1m", cents |-> 2000,
                  merchant |-> "amazon.com"]
    IN <<[tool |-> "catalog.search", input |-> input],
         [tool |-> "checkout.purchase", input |-> input],
         [tool |-> "bank.wire", input |-> [input EXCEPT !.cents = 500000, !.merchant = "elsewhere"]]>>

StartScript ==
    /\ status = "idle"
    /\ plan' = [hok |-> FALSE, signer |-> "none"]
    /\ status' = "script"
    /\ used' = [c \in Calls |-> IF c \in DOMAIN Script THEN Script[c] ELSE used[c]]
    /\ UNCHANGED <<gate, turn, messages, dealt, results, shopLog, summary>>

ScriptDecide(c) ==
    /\ status = "script" /\ c = dealt + 1 /\ c \in DOMAIN Script
    /\ Decide(c, Admits(used[c].tool, used[c].input))
    /\ UNCHANGED shopVars

\* A denied search is thrown out of runDemo, a denied purchase is caught, and a
\* denied wire is what the script waits for.
ScriptRefuse(c) ==
    /\ status = "script" /\ c = dealt + 1
    /\ Refuse(c)
    /\ status' = IF used[c].tool = "catalog.search" THEN "failed" ELSE status
    /\ summary' = [summary EXCEPT !.deniedWire = used[c].tool = "bank.wire"]
    /\ dealt' = dealt + 1
    /\ UNCHANGED <<plan, turn, messages, used, results, shopLog>>

ScriptShop(c) ==
    LET serves == ShopServes(used[c].tool, used[c].input)
        buys == used[c].tool = "checkout.purchase"
    IN /\ status = "script" /\ c = dealt + 1
       /\ Enter(c, "settled")
       /\ shopLog' = Append(shopLog, c)
       /\ status' = IF serves \/ buys THEN status ELSE "failed"
       /\ summary' = [summary EXCEPT !.purchased = @ \/ (buys /\ serves)]
       /\ dealt' = dealt + 1
       /\ UNCHANGED <<plan, turn, messages, used, results>>

ScriptEnds ==
    /\ status = "script" /\ dealt = Len(Script)
    /\ status' = "done"
    /\ UNCHANGED <<gate, plan, turn, messages, used, dealt, results, shopLog, summary>>

-----------------------------------------------------------------------------
ShopIdle ==
    /\ plan = NoValue /\ status = "idle" /\ turn = 0
    /\ messages = <<[role |-> "user", ids |-> <<>>]>>
    /\ used = [c \in Calls |-> NoValue]
    /\ dealt = 0 /\ results = <<>> /\ shopLog = <<>>
    /\ summary = NoSummary

ShopInit == GateInit /\ ShopIdle

Stops == {"tool_use", "end_turn", "max_tokens"}

ModelAnswers ==
    \/ AskFails
    \/ \E stop \in Stops, asked \in BoundedSeq(Uses, MaxUses) :
         asked # <<>> /\ Answer(stop, asked)

RunProceeds ==
    \/ OutOfTurns \/ TellResults \/ ScriptEnds
    \/ \E c \in Calls :
         \/ UseUnknown(c) \/ UseDecide(c) \/ UseRefuse(c) \/ UseShop(c)
         \/ ScriptDecide(c) \/ ScriptRefuse(c) \/ ScriptShop(c)

StartRun == StartScript \/ \E p \in Plans, key \in BOOLEAN : StartLlm(p, key)

ShopProceeds == ModelAnswers \/ RunProceeds

ShopNext == StartRun \/ ShopProceeds

\* The client library answers or fails (it has a timeout), and the event loop goes
\* on; a run never waits for both.
ShopSpec == ShopInit /\ [][ShopNext]_<<gate, shopVars>> /\ WF_<<gate, shopVars>>(ShopProceeds)

-----------------------------------------------------------------------------
\* demo-llm's main: how its process exits after a run.
Reached(tool) == \E i \in DOMAIN shopLog : used[shopLog[i]].tool = tool

ExitCode == IF status = "failed" THEN 1 ELSE IF Reached("bank.wire") THEN 3 ELSE 0

ShopTypeOK ==
    /\ GateTypeOK
    /\ plan \in Plans \cup {NoValue}
    /\ status \in {"idle", "asking", "using", "script", "done", "failed"}
    /\ turn \in 0..MaxIterations /\ dealt \in 0..(MaxUses + Len(Script))
    /\ \A i \in DOMAIN messages : messages[i].role \in {"user", "assistant"}
                                  /\ ToSet(messages[i].ids) \subseteq Calls
    /\ used \in [Calls -> Uses \cup ToSet(Script) \cup {NoValue}]
    /\ \A i \in DOMAIN results : results[i].id \in Calls
                                 /\ results[i].what \in {"unknown", "denied", "ok"}
    /\ ToSet(shopLog) \subseteq Calls
    /\ summary.stop \in Stops \cup {"none"}

\* Whenever the model is asked again, roles alternate and it has been told exactly
\* one result for each of its tool uses, in their order: unknown tools and denied
\* calls among them (the API takes no other conversation).
EveryUseIsAnswered ==
    status = "asking" =>
        \A i \in DOMAIN messages :
            /\ messages[i].role = IF i % 2 = 1 THEN "user" ELSE "assistant"
            /\ i > 1 /\ i % 2 = 1 => messages[i].ids = messages[i - 1].ids

\* What the model is told is what happened: a use is told as done exactly when its
\* call reached the shop and was served, and a denied or unknown one never got there.
ResultsAreTrue ==
    \A i \in DOMAIN results :
        LET c == results[i].id
        IN (results[i].what = "ok") <=>
               (c \in ToSet(shopLog) /\ ShopServes(used[c].tool, used[c].input))

\* Whatever the model asks for, and in whichever order, the shop sees searches and
\* purchases within the merchant and the limit of the capability, and under
\* holder-of-key only those its key signed.
ShopSeesItsScope ==
    \A i \in DOMAIN shopLog :
        LET use == used[shopLog[i]]
        IN /\ use.tool = "catalog.search"
              \/ (use.tool = "checkout.purchase" /\ use.input.merchant = "amazon.com"
                  /\ use.input.cents # NoValue /\ use.input.cents <= Limit)
           /\ plan.hok => plan.signer = "own key"

\* The report of a run that came to its end is true of it: a wire was denied if and
\* only if one was tried, none reached the shop, and the script bought its cable.
SummaryIsTrue ==
    /\ ExitCode # 3
    /\ status = "done" =>
        /\ turn > 0 => summary.deniedWire = summary.attemptedWire
        /\ turn = 0 => summary.deniedWire /\ summary.purchased /\ shopLog = <<1, 2>>

\* What the agent reports is true: to the model of its uses, and at its end of the run.
ReportsAreTrue == ResultsAreTrue /\ SummaryIsTrue

\* A run ends, whatever the model answers: there is always a later time at which none
\* goes on, and none starts twice.
RunEnds == []<>(status \in {"idle", "done", "failed"})
=============================================================================
