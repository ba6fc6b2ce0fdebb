---------------------------- MODULE AgentsProofs ----------------------------
(***************************************************************************)
(* The properties of the example agents, for any number of calls and any   *)
(* urls, words, files and conversations.  Each agent is taken by itself, as*)
(* its module specifies it.  The invariants have one idea in common: a call*)
(* that was allowed is, as it was made, what the capability in force       *)
(* admits, and what the client does is done for such a call.               *)
(***************************************************************************)
EXTENDS Demos, ShoppingAgent, SequenceTheorems, WellFoundedInduction, TLAPS

-----------------------------------------------------------------------------
\* The gate

GateOK == GateTypeOK /\ Gated

LEMMA GateInitOK == GateInit => GateOK
  BY DEF GateInit, GateOK, GateTypeOK, Gated, Phases

LEMMA DecideKeepsGate ==
    ASSUME GateOK, NEW c \in Calls, NEW ok \in BOOLEAN, Decide(c, ok)
    PROVE  GateOK'
  BY DEF GateOK, GateTypeOK, Gated, Decide, Move, Phases

LEMMA OthersKeepGate ==
    ASSUME GateOK, NEW c \in Calls, Throw(c) \/ Refuse(c) \/ Settle(c)
    PROVE  GateOK'
  BY DEF GateOK, GateTypeOK, Gated, Throw, Refuse, Settle, Move, Phases

LEMMA EnterKeepsGate ==
    ASSUME GateOK, NEW c \in Calls, NEW place, Enter(c, place)
    PROVE  GateOK'
  BY DEF GateOK, GateTypeOK, Gated, Enter, Move, Phases

-----------------------------------------------------------------------------
\* The HTTP agent

HttpCalls == [tool : HttpTools, args : HttpArgs]

\* The list in force is one that the issuer let pass.
ListOK ==
    /\ httpCap \in [origins : SUBSET Urls, caller : Callers] \cup {NoUrl}
    /\ httpCap # NoUrl => \A s \in httpCap.origins : IsExactOrigin(s)
    /\ httpGuard \in [caller : Callers, intact : BOOLEAN]

\* A call that was made has its arguments, and the capability was there; it was
\* allowed if that capability admits it, and denied if not.
HttpCallsOK ==
    /\ httpCalled \in [Calls -> HttpCalls \cup {NoUrl}]
    /\ \A c \in Calls : phase[c] # "idle" => httpCap # NoUrl /\ httpCalled[c] \in HttpCalls
    /\ \A c \in Calls :
         /\ receipt[c] = "allowed" => HttpAdmits(httpCalled[c].tool, httpCalled[c].args)
         /\ receipt[c] = "denied" => ~HttpAdmits(httpCalled[c].tool, httpCalled[c].args)

\* The first request of a call goes where its url says, and all have its method.
HitsOK ==
    /\ httpLog \subseteq ran
    /\ hits \subseteq [call : httpLog, hop : 0..MaxHops,
                       method : {"GET", "POST", "PUT", "DELETE"}, origin : Urls]
    /\ \A h \in hits :
         LET call == httpCalled[h.call]
         IN /\ h.method = Method(call.tool)
            /\ h.hop = 0 => /\ Fetchable(call.tool, call.args)
                            /\ h.origin = Form[call.args.url].origin

HttpInv == GateOK /\ ListOK /\ HttpCallsOK /\ HitsOK

LEMMA HttpInitHolds == HttpInit => HttpInv
<1> SUFFICES ASSUME HttpInit PROVE HttpInv
  OBVIOUS
<1>1. GateOK
  BY GateInitOK DEF HttpInit
<1>2. ListOK /\ HttpCallsOK /\ HitsOK
  BY DEF HttpInit, HttpIdle, GateInit, ListOK, HttpCallsOK, HitsOK
<1> QED BY <1>1, <1>2 DEF HttpInv

LEMMA IssueKeepsHttp ==
    ASSUME HttpInv, NEW allowed \in Allowlists, NEW caller \in Callers,
           IssueGetCapability(allowed, caller)
    PROVE  HttpInv'
<1>1. /\ httpCap = NoUrl /\ \A s \in allowed : IsExactOrigin(s)
      /\ httpCap' = [origins |-> allowed, caller |-> caller]
      /\ UNCHANGED <<phase, receipt, ran, httpGuard, httpCalled, httpLog, hits>>
  BY DEF IssueGetCapability, gate
<1>2. allowed \subseteq Urls
  BY UrlsAssumption
<1>3. \A c \in Calls : phase[c] = "idle" /\ receipt[c] = "none"
  BY <1>1 DEF HttpInv, HttpCallsOK, GateOK, Gated
<1>4. GateOK' /\ ListOK' /\ HitsOK'
  BY <1>1, <1>2 DEF HttpInv, GateOK, GateTypeOK, Gated, ListOK, HitsOK
<1>5. HttpCallsOK'
  BY <1>1, <1>3 DEF HttpInv, HttpCallsOK
<1> QED BY <1>4, <1>5 DEF HttpInv

LEMMA HttpCallKeeps ==
    ASSUME HttpInv, NEW c \in Calls, NEW call \in HttpMenu, HttpCall(c, call.tool, call.args)
    PROVE  HttpInv'
<1> DEFINE made == [tool |-> call.tool, args |-> call.args]
<1>1. call.tool \in HttpTools /\ call.args \in HttpArgs
  BY HttpMenuAssumption
<1>2. /\ httpCap # NoUrl /\ phase[c] = "idle"
      /\ httpCalled' = [httpCalled EXCEPT ![c] = made]
      /\ UNCHANGED <<httpCap, httpGuard, httpLog, hits, ran>>
      /\ \A d \in Calls : d # c => phase'[d] = phase[d] /\ receipt'[d] = receipt[d]
      /\ receipt'[c] = "allowed" => HttpAdmits(call.tool, call.args)
      /\ receipt'[c] = "denied" => ~HttpAdmits(call.tool, call.args)
  BY DEF HttpCall, Decide, Throw, Move, HttpInv, GateOK, GateTypeOK, Gated
<1>3. GateOK'
  <2>1. HttpAdmits(call.tool, call.args) \in BOOLEAN
    BY DEF HttpAdmits
  <2> QED BY <2>1, DecideKeepsGate, OthersKeepGate DEF HttpCall, HttpInv
<1>4. ListOK'
  BY <1>2 DEF HttpInv, ListOK
<1>5. made \in HttpCalls
  BY <1>1 DEF HttpCalls
<1>6. HttpCallsOK'
  <2>1. httpCalled' \in [Calls -> HttpCalls \cup {NoUrl}]
    BY <1>2, <1>5 DEF HttpInv, HttpCallsOK
  <2>2. \A d \in Calls : phase'[d] # "idle" => httpCap' # NoUrl /\ httpCalled'[d] \in HttpCalls
    BY <1>2, <1>5 DEF HttpInv, HttpCallsOK
  <2>3. ASSUME NEW d \in Calls
        PROVE  /\ receipt'[d] = "allowed" => HttpAdmits(httpCalled[d].tool, httpCalled[d].args)'
               /\ receipt'[d] = "denied" => ~HttpAdmits(httpCalled[d].tool, httpCalled[d].args)'
    BY <1>2, <2>3 DEF HttpInv, HttpCallsOK, HttpAdmits
  <2> QED BY <2>1, <2>2, <2>3 DEF HttpCallsOK
<1>7. HitsOK'
  <2>1. c \notin ran
    BY <1>2 DEF HttpInv, GateOK, Gated
  <2>2. \A h \in hits : h.call \in httpLog /\ h.call \in Calls
    BY DEF HttpInv, HitsOK, GateOK, GateTypeOK
  <2>3. \A h \in hits : httpCalled'[h.call] = httpCalled[h.call]
    BY <1>2, <2>1, <2>2 DEF HttpInv, HttpCallsOK, HitsOK
  <2> QED BY <1>2, <2>3 DEF HttpInv, HitsOK
<1> QED BY <1>3, <1>4, <1>6, <1>7 DEF HttpInv

\* A request of a call that is allowed, and with it the call's entry in the log.
LEMMA HttpSendKeeps ==
    ASSUME HttpInv, NEW c \in Calls, HttpSend(c)
    PROVE  HttpInv'
<1> DEFINE call == httpCalled[c]
           sent == Fetchable(call.tool, call.args)
           hit == Hit(c, 0, call.tool, Form[call.args.url].origin)
<1>1. /\ \E place : Enter(c, place)
      /\ phase[c] = "decided" /\ receipt[c] = "allowed"
      /\ ran' = ran \cup {c} /\ httpLog' = httpLog \cup {c}
      /\ hits' = IF sent THEN hits \cup {hit} ELSE hits
      /\ UNCHANGED <<receipt, httpCap, httpGuard, httpCalled>>
      /\ \A d \in Calls : d # c => phase'[d] = phase[d]
  BY DEF HttpSend, Enter, Move, HttpInv, GateOK, GateTypeOK
<1>2. call \in HttpCalls /\ httpCap # NoUrl
  BY <1>1 DEF HttpInv, HttpCallsOK
<1>3. GateOK' /\ ListOK'
  BY <1>1, EnterKeepsGate DEF HttpInv, ListOK
<1>4. HttpCallsOK'
  BY <1>1, <1>2 DEF HttpInv, HttpCallsOK, HttpAdmits
<1>5. HitsOK'
  <2>1. Method(call.tool) \in {"GET", "POST", "PUT", "DELETE"}
    BY DEF Method
  <2>2. sent => Form[call.args.url].origin \in Urls
    BY <1>2, UrlsAssumption DEF Fetchable, Parses, HttpCalls, HttpArgs, Fields
  <2>3. /\ hit.call = c /\ hit.hop = 0 /\ hit.method = Method(call.tool)
        /\ hit.origin = Form[call.args.url].origin
        /\ sent => hit \in [call : httpLog', hop : 0..MaxHops,
                            method : {"GET", "POST", "PUT", "DELETE"}, origin : Urls]
    BY <1>1, <2>1, <2>2, UrlsAssumption DEF Hit
  <2> HIDE DEF hit
  <2>4. httpLog' \subseteq ran'
    BY <1>1 DEF HttpInv, HitsOK
  <2>5. hits' \subseteq [call : httpLog', hop : 0..MaxHops,
                         method : {"GET", "POST", "PUT", "DELETE"}, origin : Urls]
    BY <1>1, <2>3 DEF HttpInv, HitsOK
  <2>6. ASSUME NEW h \in hits'
        PROVE  LET made == httpCalled'[h.call]
               IN /\ h.method = Method(made.tool)
                  /\ h.hop = 0 => /\ Fetchable(made.tool, made.args)
                                  /\ h.origin = Form[made.args.url].origin
    <3>1. CASE h \in hits
      BY <1>1, <3>1 DEF HttpInv, HitsOK
    <3>2. CASE h = hit /\ sent
      BY <1>1, <2>3, <3>2
    <3> QED BY <1>1, <3>1, <3>2
  <2> QED BY <2>4, <2>5, <2>6 DEF HitsOK
<1> QED BY <1>3, <1>4, <1>5 DEF HttpInv

\* A redirect keeps the method, and is not a first request.
LEMMA HttpRedirectKeeps ==
    ASSUME HttpInv, NEW c \in Calls, NEW url \in Urls, HttpRedirect(c, url)
    PROVE  HttpInv'
<1>1. /\ Parses(url)
      /\ UNCHANGED <<phase, receipt, ran, httpCap, httpGuard, httpCalled, httpLog>>
  BY DEF HttpRedirect, gate
<1>2. PICK first \in hits :
         /\ first.call = c /\ first.hop < MaxHops
         /\ hits' = hits \cup {Hit(c, first.hop + 1, httpCalled[c].tool, Form[url].origin)}
  BY DEF HttpRedirect
<1> DEFINE hit == Hit(c, first.hop + 1, httpCalled[c].tool, Form[url].origin)
<1>3. c \in httpLog /\ first.hop + 1 \in 1..MaxHops
  BY <1>2, UrlsAssumption DEF HttpInv, HitsOK
<1>4. Form[url].origin \in Urls /\ Method(httpCalled[c].tool) \in {"GET", "POST", "PUT", "DELETE"}
  BY <1>1, UrlsAssumption DEF Parses, Method
<1>5. /\ hit \in [call : httpLog, hop : 0..MaxHops,
                  method : {"GET", "POST", "PUT", "DELETE"}, origin : Urls]
      /\ hit.call = c /\ hit.hop # 0 /\ hit.method = Method(httpCalled[c].tool)
  BY <1>3, <1>4, UrlsAssumption DEF Hit
<1> HIDE DEF hit
<1>6. HitsOK'
  BY <1>1, <1>2, <1>5 DEF HttpInv, HitsOK, hit
<1>7. GateOK' /\ ListOK' /\ HttpCallsOK'
  BY <1>1 DEF HttpInv, GateOK, GateTypeOK, Gated, ListOK, HttpCallsOK, HttpAdmits
<1> QED BY <1>6, <1>7 DEF HttpInv

\* The end of a call touches nothing but its phase.
LEMMA HttpEndKeeps ==
    ASSUME HttpInv, NEW c \in Calls, HttpSettle(c) \/ HttpRefuse(c)
    PROVE  HttpInv'
<1>1. /\ UNCHANGED <<receipt, ran, httpCap, httpGuard, httpCalled, httpLog, hits>>
      /\ phase[c] # "idle" /\ \A d \in Calls : d # c => phase'[d] = phase[d]
  BY DEF HttpSettle, HttpRefuse, Settle, Refuse, Move, httpVars, HttpInv, GateOK, GateTypeOK
<1>2. GateOK'
  BY OthersKeepGate DEF HttpSettle, HttpRefuse, HttpInv
<1>3. ListOK' /\ HttpCallsOK' /\ HitsOK'
  BY <1>1 DEF HttpInv, ListOK, HttpCallsOK, HitsOK, HttpAdmits
<1> QED BY <1>2, <1>3 DEF HttpInv

LEMMA HttpStepKeeps == HttpInv /\ [HttpNext]_<<gate, httpVars>> => HttpInv'
<1> SUFFICES ASSUME HttpInv, [HttpNext]_<<gate, httpVars>> PROVE HttpInv'
  OBVIOUS
<1>1. CASE UNCHANGED <<gate, httpVars>>
  BY <1>1 DEF gate, httpVars, HttpInv, GateOK, GateTypeOK, Gated, ListOK, HttpCallsOK,
              HitsOK, HttpAdmits
<1>2. CASE HttpNext
  BY <1>2, IssueKeepsHttp, HttpCallKeeps, HttpSendKeeps, HttpRedirectKeeps, HttpEndKeeps
     DEF HttpNext
<1> QED BY <1>1, <1>2

LEMMA HttpInvariance == HttpSpec => []HttpInv
  BY HttpInitHolds, HttpStepKeeps, PTL DEF HttpSpec

\* Capabilities, guards, calls and requests of the HTTP agent are what they are
\* declared to be, whatever urls there are.
THEOREM HttpTypeCorrect == HttpSpec => []HttpTypeOK
<1>1. HttpInv => HttpTypeOK
  BY DEF HttpInv, ListOK, HttpCallsOK, HitsOK, HttpTypeOK, HttpCalls
<1> QED BY <1>1, HttpInvariance, PTL

\* What the issuer lets pass, the context provider names and fetch goes to: they are
\* one spelling.
LEMMA ExactOriginsAreMatched ==
    ASSUME NEW s \in Urls, IsExactOrigin(s),
           NEW args, args = [url |-> s, string |-> TRUE, origin |-> NoUrl, body |-> FALSE]
    PROVE  Fetchable("http.get", args) /\ NormalizeUrl(args).origin = s
<1>1. Form[s].parses /\ ~Form[s].userinfo /\ Form[s].origin = s
  BY DEF IsExactOrigin, RejectionReason
<1>2. s # NoUrl
  BY UrlsAssumption
<1> QED BY <1>1, <1>2 DEF Fetchable, Parses, NormalizeUrl, Method

\* The allowlist is exact, for any urls and whatever a parser makes of them: each
\* entry is reached by a GET, and nothing else by anything.
THEOREM AllowlistsAreExact == HttpSpec => []AllowlistIsExact
<1>1. HttpInv => AllowlistIsExact
  <2> SUFFICES ASSUME HttpInv PROVE AllowlistIsExact
    OBVIOUS
  <2>1. EntriesAreMatched
    BY ExactOriginsAreMatched DEF HttpInv, ListOK, EntriesAreMatched
  <2>2. ASSUME NEW h \in hits
        PROVE  /\ h.method = "GET"
               /\ h.hop = 0 /\ httpCalled[h.call].args.string =>
                      h.origin \in httpCap.origins /\ httpGuard.caller = httpCap.caller
    <3> DEFINE call == httpCalled[h.call]
    <3>1. h.call \in ran /\ h.call \in Calls
      BY DEF HttpInv, HitsOK, GateOK, GateTypeOK
    <3>2. receipt[h.call] = "allowed" /\ phase[h.call] # "idle"
      BY <3>1 DEF HttpInv, GateOK, Gated
    <3>3. call \in HttpCalls /\ HttpAdmits(call.tool, call.args)
      BY <3>1, <3>2 DEF HttpInv, HttpCallsOK
    <3>4. /\ h.method = Method(call.tool)
          /\ h.hop = 0 => Fetchable(call.tool, call.args) /\ h.origin = Form[call.args.url].origin
      BY DEF HttpInv, HitsOK
    <3>5. h.method = "GET"
      BY <3>3, <3>4 DEF HttpAdmits, Method
    <3>6. h.hop = 0 /\ call.args.string => NormalizeUrl(call.args).origin = h.origin
      BY <3>3, <3>4 DEF NormalizeUrl, Fetchable, HttpCalls, HttpArgs
    <3> QED BY <3>3, <3>5, <3>6 DEF HttpAdmits
  <2> QED BY <2>1, <2>2 DEF AllowlistIsExact, RequestsStayAtOrigins, OnlyGets
<1> QED BY <1>1, HttpInvariance, PTL

-----------------------------------------------------------------------------
\* The shell agent

\* The list in force is one that the issuer let pass.
CommandOK ==
    /\ shellCap \in [cmd : Words, subs : SUBSET Words] \cup {NoWord}
    /\ shellCap # NoWord => WellFormedList(shellCap.cmd, shellCap.subs)

ShellCallsOK ==
    /\ shellCalled \in [Calls -> ShellMenu \cup {NoWord}]
    /\ \A c \in Calls : phase[c] # "idle" => shellCap # NoWord /\ shellCalled[c] \in ShellMenu
    /\ \A c \in Calls :
         /\ receipt[c] = "allowed" => ShellAdmits(shellCalled[c].tool, shellCalled[c].args)
         /\ receipt[c] = "denied" => ~ShellAdmits(shellCalled[c].tool, shellCalled[c].args)

\* What was executed is the argv of a call that reached the client.
ExecutedOK ==
    \A e \in shellLog :
        /\ e = [call |-> e.call, argv |-> e.argv] /\ e.call \in ran
        /\ e.argv = shellCalled[e.call].args.argv /\ IsArgv(e.argv)

ShellInv == GateOK /\ CommandOK /\ ShellCallsOK /\ ExecutedOK

LEMMA ShellInitHolds == ShellInit => ShellInv
<1> SUFFICES ASSUME ShellInit PROVE ShellInv
  OBVIOUS
<1>1. GateOK
  BY GateInitOK DEF ShellInit
<1>2. CommandOK /\ ShellCallsOK /\ ExecutedOK
  BY DEF ShellInit, ShellIdle, GateInit, CommandOK, ShellCallsOK, ExecutedOK
<1> QED BY <1>1, <1>2 DEF ShellInv

LEMMA IssueKeepsShell ==
    ASSUME ShellInv, NEW list \in Commands, IssueShellCapability(list.cmd, list.subs)
    PROVE  ShellInv'
<1>1. /\ shellCap = NoWord /\ WellFormedList(list.cmd, list.subs)
      /\ shellCap' = [cmd |-> list.cmd, subs |-> list.subs]
      /\ UNCHANGED <<phase, receipt, ran, shellCalled, shellLog>>
  BY DEF IssueShellCapability, gate
<1>2. \A c \in Calls : phase[c] = "idle" /\ receipt[c] = "none"
  BY <1>1 DEF ShellInv, ShellCallsOK, GateOK, Gated
<1>3. CommandOK'
  BY <1>1, WordsAssumption DEF CommandOK
<1>4. GateOK' /\ ShellCallsOK' /\ ExecutedOK'
  BY <1>1, <1>2 DEF ShellInv, GateOK, GateTypeOK, Gated, ShellCallsOK, ExecutedOK
<1> QED BY <1>3, <1>4 DEF ShellInv

LEMMA ShellCallKeeps ==
    ASSUME ShellInv, NEW c \in Calls, NEW call \in ShellMenu,
           ShellCall(c, call.tool, call.args)
    PROVE  ShellInv'
<1> DEFINE made == [tool |-> call.tool, args |-> call.args]
<1>1. made \in ShellMenu
  BY WordsAssumption
<1>2. /\ shellCap # NoWord /\ phase[c] = "idle"
      /\ shellCalled' = [shellCalled EXCEPT ![c] = made]
      /\ UNCHANGED <<shellCap, shellLog, ran>>
      /\ \A d \in Calls : d # c => phase'[d] = phase[d] /\ receipt'[d] = receipt[d]
      /\ receipt'[c] = "allowed" => ShellAdmits(call.tool, call.args)
      /\ receipt'[c] = "denied" => ~ShellAdmits(call.tool, call.args)
  BY DEF ShellCall, Decide, Move, ShellInv, GateOK, GateTypeOK, Gated
<1>3. GateOK'
  <2>1. ShellAdmits(call.tool, call.args) \in BOOLEAN
    BY DEF ShellAdmits
  <2> QED BY <2>1, DecideKeepsGate DEF ShellCall, ShellInv
<1>4. CommandOK'
  BY <1>2 DEF ShellInv, CommandOK
<1>5. ShellCallsOK'
  <2>1. shellCalled' \in [Calls -> ShellMenu \cup {NoWord}]
    BY <1>1, <1>2 DEF ShellInv, ShellCallsOK
  <2>2. \A d \in Calls : phase'[d] # "idle" => shellCap' # NoWord /\ shellCalled'[d] \in ShellMenu
    BY <1>1, <1>2 DEF ShellInv, ShellCallsOK
  <2>3. ASSUME NEW d \in Calls
        PROVE  /\ receipt'[d] = "allowed" => ShellAdmits(shellCalled[d].tool, shellCalled[d].args)'
               /\ receipt'[d] = "denied" => ~ShellAdmits(shellCalled[d].tool, shellCalled[d].args)'
    BY <1>2, <2>3 DEF ShellInv, ShellCallsOK, ShellAdmits
  <2> QED BY <2>1, <2>2, <2>3 DEF ShellCallsOK
<1>6. ExecutedOK'
  <2>1. c \notin ran
    BY <1>2 DEF ShellInv, GateOK, Gated
  <2>2. \A d \in ran : shellCalled'[d] = shellCalled[d]
    BY <1>2, <2>1 DEF ShellInv, ShellCallsOK, GateOK, GateTypeOK
  <2> QED BY <1>2, <2>2 DEF ShellInv, ExecutedOK
<1> QED BY <1>3, <1>4, <1>5, <1>6 DEF ShellInv

LEMMA ShellExecKeeps ==
    ASSUME ShellInv, NEW c \in Calls, ShellExec(c)
    PROVE  ShellInv'
<1> DEFINE argv == shellCalled[c].args.argv
<1>1. /\ Enter(c, "settled") /\ phase[c] = "decided"
      /\ ran' = ran \cup {c}
      /\ UNCHANGED <<receipt, shellCap, shellCalled>>
      /\ \A d \in Calls : d # c => phase'[d] = phase[d]
      /\ \A e \in shellLog' :
            e \in shellLog \/ (e = [call |-> c, argv |-> argv] /\ IsArgv(argv))
  BY DEF ShellExec, Enter, Move, ShellInv, GateOK, GateTypeOK
<1>2. GateOK'
  BY <1>1, EnterKeepsGate DEF ShellInv
<1>3. CommandOK'
  BY <1>1 DEF ShellInv, CommandOK
<1>4. ShellCallsOK'
  BY <1>1 DEF ShellInv, ShellCallsOK, ShellAdmits
<1>5. ExecutedOK'
  <2> SUFFICES ASSUME NEW e \in shellLog'
               PROVE  /\ e = [call |-> e.call, argv |-> e.argv] /\ e.call \in ran'
                      /\ e.argv = shellCalled[e.call].args.argv /\ IsArgv(e.argv)
    BY <1>1 DEF ExecutedOK
  <2>1. CASE e \in shellLog
    BY <1>1, <2>1 DEF ShellInv, ExecutedOK
  <2>2. CASE e = [call |-> c, argv |-> argv] /\ IsArgv(argv)
    BY <1>1, <2>2
  <2> QED BY <1>1, <2>1, <2>2
<1> QED BY <1>2, <1>3, <1>4, <1>5 DEF ShellInv

LEMMA ShellRefuseKeeps ==
    ASSUME ShellInv, NEW c \in Calls, ShellRefuse(c)
    PROVE  ShellInv'
<1>1. /\ Refuse(c) /\ phase[c] = "decided"
      /\ UNCHANGED <<receipt, ran, shellCap, shellCalled, shellLog>>
      /\ \A d \in Calls : d # c => phase'[d] = phase[d]
  BY DEF ShellRefuse, Refuse, Move, shellVars, ShellInv, GateOK, GateTypeOK
<1>2. GateOK'
  BY <1>1, OthersKeepGate DEF ShellInv
<1>3. CommandOK' /\ ShellCallsOK' /\ ExecutedOK'
  BY <1>1 DEF ShellInv, CommandOK, ShellCallsOK, ExecutedOK, ShellAdmits
<1> QED BY <1>2, <1>3 DEF ShellInv

LEMMA ShellStepKeeps == ShellInv /\ [ShellNext]_<<gate, shellVars>> => ShellInv'
<1> SUFFICES ASSUME ShellInv, [ShellNext]_<<gate, shellVars>> PROVE ShellInv'
  OBVIOUS
<1>1. CASE UNCHANGED <<gate, shellVars>>
  BY <1>1 DEF gate, shellVars, ShellInv, GateOK, GateTypeOK, Gated, CommandOK,
              ShellCallsOK, ExecutedOK, ShellAdmits
<1>2. CASE ShellNext
  BY <1>2, IssueKeepsShell, ShellCallKeeps, ShellExecKeeps, ShellRefuseKeeps DEF ShellNext
<1> QED BY <1>1, <1>2

LEMMA ShellInvariance == ShellSpec => []ShellInv
  BY ShellInitHolds, ShellStepKeeps, PTL DEF ShellSpec

\* Capabilities, calls and executed commands of the shell agent are what they are
\* declared to be, for any words.
THEOREM ShellTypeCorrect == ShellSpec => []ShellTypeOK
<1>1. ShellInv => ShellTypeOK
  <2> SUFFICES ASSUME ShellInv PROVE ShellTypeOK
    OBVIOUS
  <2>1. ASSUME NEW e \in shellLog
        PROVE  e \in [call : ran, argv : {m.args.argv : m \in ShellMenu} \ {NoWord, <<>>}]
    <3>1. e.call \in Calls /\ phase[e.call] # "idle"
      BY DEF ShellInv, ExecutedOK, GateOK, GateTypeOK, Gated
    <3>2. shellCalled[e.call] \in ShellMenu
      BY <3>1 DEF ShellInv, ShellCallsOK
    <3>3. e.argv \in {m.args.argv : m \in ShellMenu}
      BY <3>2 DEF ShellInv, ExecutedOK
    <3>4. e.argv # NoWord /\ e.argv # <<>>
      BY DEF ShellInv, ExecutedOK, IsArgv
    <3> QED BY <3>3, <3>4 DEF ShellInv, ExecutedOK
  <2> QED BY <2>1 DEF ShellInv, CommandOK, ShellCallsOK, ShellTypeOK
<1> QED BY <1>1, ShellInvariance, PTL

\* What is executed is on the list, for any words, commands and vectors: the two words
\* that were checked are the first two of the vector, whatever the call claims.
THEOREM ExecutedAreListed == ShellSpec => []ExecutedIsListed
<1>1. ShellInv => ExecutedIsListed
  <2> SUFFICES ASSUME ShellInv, NEW e \in shellLog, e.argv[1] \in Words
               PROVE  /\ Len(e.argv) > 1
                      /\ e.argv[1] = shellCap.cmd /\ e.argv[2] \in shellCap.subs
                      /\ {e.argv[1], e.argv[2]} \cap (Quoted \cup {Empty}) = {}
    BY DEF ExecutedIsListed
  <2> DEFINE args == shellCalled[e.call].args
  <2>1. e.call \in Calls /\ receipt[e.call] = "allowed" /\ phase[e.call] # "idle"
    BY DEF ShellInv, ExecutedOK, GateOK, GateTypeOK, Gated
  <2>2. e.argv = args.argv /\ IsArgv(e.argv)
    BY DEF ShellInv, ExecutedOK
  <2>3. /\ NormalizeArgv(args).cmd = shellCap.cmd
        /\ NormalizeArgv(args).sub \in shellCap.subs
        /\ WellFormedList(shellCap.cmd, shellCap.subs)
    BY <2>1 DEF ShellInv, ShellCallsOK, CommandOK, ShellAdmits
  <2>4. args \in [argv : {call.args.argv : call \in ShellMenu},
                  cmd : ShellFields, sub : ShellFields]
    BY <2>1, WordsAssumption DEF ShellInv, ShellCallsOK
  <2>5. NormalizeArgv(args).cmd = e.argv[1] /\ NormalizeArgv(args).sub = SubOf(e.argv)
    BY <2>2, <2>4 DEF NormalizeArgv
  <2>6. SubOf(e.argv) # Empty
    BY <2>3, <2>5 DEF WellFormedList
  <2>7. Len(e.argv) > 1 /\ SubOf(e.argv) = e.argv[2]
    BY <2>6 DEF SubOf
  <2> QED BY <2>3, <2>5, <2>7 DEF WellFormedList
<1> QED BY <1>1, ShellInvariance, PTL

-----------------------------------------------------------------------------
\* The shopping agent

\* The ids of an answer follow those of the answers before it.
Upto(t) == t * MaxUses

LEMMA UptoGrows ==
    ASSUME NEW t \in 0..MaxIterations
    PROVE  /\ Upto(t) \in Nat
           /\ t < MaxIterations => /\ Upto(t + 1) = Upto(t) + MaxUses
                                   /\ Upto(t) + MaxUses <= MaxIterations * MaxUses
  BY CallsAssumption DEF Upto

Statuses == {"idle", "asking", "using", "script", "done", "failed"}
Messages == [role : {"user", "assistant"}, ids : Seq(Calls)]
Results == [id : Calls, what : {"unknown", "denied", "ok"}]
Summaries == [attemptedWire : BOOLEAN, deniedWire : BOOLEAN, purchased : BOOLEAN,
              stop : Stops \cup {"none"}]

\* Nothing has happened before a run starts, and the next answer's ids are unused.
RunOK ==
    /\ status \in Statuses /\ turn \in 0..MaxIterations
    /\ plan \in Plans \cup {NoValue} /\ (status # "idle" => plan \in Plans)
    /\ dealt \in 0..(MaxUses + 3)
    /\ status = "idle" => turn = 0 /\ dealt = 0 /\ results = <<>> /\ shopLog = <<>>
                          /\ summary = NoSummary
    /\ status \in {"idle", "asking", "using"} =>
          \A c \in Calls : phase[c] # "idle" => c <= Upto(turn)
    /\ status = "using" =>
          \A c \in Calls : phase[c] # "idle" => c <= Upto(turn - 1) + dealt + 1

\* What was decided is about the use as it is, and the shop saw nothing else.
UsedOK ==
    /\ used \in [Calls -> Uses \cup ToSet(Script) \cup {NoValue}]
    /\ \A c \in Calls :
         /\ receipt[c] # "none" => used[c].tool \in ShopTools
         /\ receipt[c] = "allowed" => Admits(used[c].tool, used[c].input)
         /\ receipt[c] = "denied" => ~Admits(used[c].tool, used[c].input)
    /\ shopLog \in Seq(Calls) /\ ToSet(shopLog) \subseteq ran

\* The conversation: an answer is followed by the results of all its uses.
TalkOK ==
    /\ messages \in Seq(Messages)
    /\ \A i \in DOMAIN messages :
         /\ messages[i].role = IF i % 2 = 1 THEN "user" ELSE "assistant"
         /\ i > 1 /\ i % 2 = 1 => messages[i].ids = messages[i - 1].ids
    /\ status \in {"idle", "asking"} => Len(messages) % 2 = 1
    /\ status = "using" =>
         /\ turn > 0 /\ Len(messages) > 0 /\ Len(messages) % 2 = 0
         /\ Len(Last(messages).ids) <= MaxUses /\ dealt <= Len(Last(messages).ids)
         /\ \A i \in DOMAIN Last(messages).ids : Last(messages).ids[i] = Upto(turn - 1) + i

\* The results are those of the uses dealt with, in their order.
ResultsOK ==
    /\ results \in Seq(Results) /\ ResultsAreTrue
    /\ status = "script" => results = <<>>
    /\ status = "using" =>
         /\ Len(results) = dealt
         /\ \A i \in DOMAIN results : results[i].id = Upto(turn - 1) + i

\* A wire that is tried is denied with the use the loop is at, or the run fails.
SummaryOK ==
    /\ summary \in Summaries
    /\ status \in {"idle", "asking"} \/ (status = "done" /\ turn > 0) =>
         summary.deniedWire = summary.attemptedWire
    /\ status = "using" =>
         /\ summary.deniedWire => summary.attemptedWire
         /\ \A c \in Calls : c = Upto(turn - 1) + dealt + 1 =>
              /\ receipt[c] # "none" /\ used[c].tool = "bank.wire" => summary.attemptedWire
              /\ summary.attemptedWire /\ ~summary.deniedWire =>
                   phase[c] = "decided" /\ used[c].tool = "bank.wire"
         /\ dealt = Len(Last(messages).ids) => summary.deniedWire = summary.attemptedWire

\* The script goes as it is written: its search and purchase are served, its wire is not.
ScriptOK ==
    /\ status = "script" =>
         /\ turn = 0 /\ ~plan.hok /\ dealt \in 0..3
         /\ \A c \in 1..3 : used[c] = Script[c]
         /\ \A c \in Calls : c > 3 => phase[c] = "idle"
         /\ dealt = 0 => shopLog = <<>>
         /\ dealt = 1 => shopLog = <<1>>
         /\ dealt >= 2 => shopLog = <<1, 2>> /\ summary.purchased
         /\ dealt = 3 => summary.deniedWire
    /\ status = "done" /\ turn = 0 =>
         summary.deniedWire /\ summary.purchased /\ shopLog = <<1, 2>>

ShopInv == GateOK /\ RunOK /\ UsedOK /\ TalkOK /\ ResultsOK /\ SummaryOK /\ ScriptOK

LEMMA ShopInitHolds == ShopInit => ShopInv
<1> SUFFICES ASSUME ShopInit PROVE ShopInv
  OBVIOUS
<1>1. GateOK
  BY GateInitOK DEF ShopInit
<1>2. RunOK
  BY CallsAssumption DEF ShopInit, ShopIdle, GateInit, RunOK, Statuses
<1>3. UsedOK
  BY DEF ShopInit, ShopIdle, GateInit, UsedOK, ToSet
<1>4. TalkOK
  <2>1. messages = <<[role |-> "user", ids |-> <<>>]>> /\ status = "idle"
    BY DEF ShopInit, ShopIdle
  <2>2. <<>> \in Seq(Calls)
    OBVIOUS
  <2> QED BY <2>1, <2>2 DEF TalkOK, Messages
<1>5. ResultsOK /\ SummaryOK /\ ScriptOK
  BY DEF ShopInit, ShopIdle, ResultsOK, ResultsAreTrue, SummaryOK, ScriptOK, NoSummary, Summaries
<1> QED BY <1>1, <1>2, <1>3, <1>4, <1>5 DEF ShopInv

\* Before a run starts nothing is decided.
LEMMA IdleIsFresh ==
    ASSUME ShopInv, status = "idle"
    PROVE  \A c \in Calls : phase[c] = "idle" /\ receipt[c] = "none"
<1>1. turn = 0 /\ Upto(turn) = 0
  BY CallsAssumption DEF ShopInv, RunOK, Upto
<1> QED BY <1>1, CallsAssumption DEF ShopInv, RunOK, GateOK, Gated

LEMMA StartLlmKeeps ==
    ASSUME ShopInv, NEW p \in Plans, NEW key \in BOOLEAN, StartLlm(p, key)
    PROVE  ShopInv'
<1>1. /\ status = "idle" /\ plan' = p /\ status' \in {"asking", "failed"}
      /\ UNCHANGED <<phase, receipt, ran, turn, messages, used, dealt, results, shopLog, summary>>
  BY DEF StartLlm, gate
<1>2. \A c \in Calls : phase[c] = "idle" /\ receipt[c] = "none"
  BY <1>1, IdleIsFresh
<1>3. GateOK' /\ RunOK' /\ UsedOK'
  BY <1>1, <1>2 DEF ShopInv, GateOK, GateTypeOK, Gated, RunOK, UsedOK, Statuses
<1>4. TalkOK' /\ ResultsOK'
  BY <1>1 DEF ShopInv, TalkOK, ResultsOK, ResultsAreTrue
<1>5. SummaryOK' /\ ScriptOK'
  BY <1>1 DEF ShopInv, SummaryOK, ScriptOK
<1> QED BY <1>3, <1>4, <1>5 DEF ShopInv

LEMMA StartScriptKeeps ==
    ASSUME ShopInv, StartScript
    PROVE  ShopInv'
<1>1. /\ status = "idle" /\ plan' = [hok |-> FALSE, signer |-> "none"] /\ status' = "script"
      /\ used' = [c \in Calls |-> IF c \in DOMAIN Script THEN Script[c] ELSE used[c]]
      /\ UNCHANGED <<phase, receipt, ran, turn, messages, dealt, results, shopLog, summary>>
  BY DEF StartScript, gate
<1>2. \A c \in Calls : phase[c] = "idle" /\ receipt[c] = "none"
  BY <1>1, IdleIsFresh
<1>3. /\ turn = 0 /\ dealt = 0 /\ results = <<>> /\ shopLog = <<>> /\ summary = NoSummary
  BY <1>1 DEF ShopInv, RunOK
<1>4. DOMAIN Script = 1..3 /\ 1..3 \subseteq Calls
  BY CallsAssumption DEF Script
<1>5. GateOK' /\ RunOK'
  BY <1>1, <1>2 DEF ShopInv, GateOK, GateTypeOK, Gated, RunOK, Statuses, Plans
<1>6. UsedOK'
  <2>1. \A c \in DOMAIN Script : Script[c] \in ToSet(Script)
    BY DEF ToSet
  <2>2. used' \in [Calls -> Uses \cup ToSet(Script) \cup {NoValue}]
    BY <1>1, <2>1 DEF ShopInv, UsedOK
  <2> QED BY <1>1, <1>2, <2>2 DEF ShopInv, UsedOK
<1>7. TalkOK'
  BY <1>1 DEF ShopInv, TalkOK
<1>8. ResultsOK' /\ SummaryOK'
  BY <1>1, <1>3 DEF ShopInv, ResultsOK, ResultsAreTrue, SummaryOK
<1>9. ScriptOK'
  BY <1>1, <1>2, <1>3, <1>4 DEF ScriptOK
<1> QED BY <1>5, <1>6, <1>7, <1>8, <1>9 DEF ShopInv

\* The run ends between two steps: nothing but its status changes.
LEMMA EndKeeps ==
    ASSUME ShopInv, AskFails \/ OutOfTurns \/ ScriptEnds
    PROVE  ShopInv'
<1>1. /\ UNCHANGED <<phase, receipt, ran, plan, turn, messages, used, dealt, results, shopLog,
                     summary>>
      /\ status' \in {"failed", "done"}
      /\ status # "idle" /\ (status' = "failed" \/ status = "asking" \/ status = "script")
  BY DEF AskFails, OutOfTurns, ScriptEnds, MayAsk, gate
<1>2. status' = "done" => (turn > 0 /\ status = "asking") \/ (status = "script" /\ dealt = 3)
  BY CallsAssumption DEF AskFails, OutOfTurns, ScriptEnds, MayAsk, Script, ShopInv, RunOK
<1>3. GateOK' /\ RunOK' /\ UsedOK'
  BY <1>1 DEF ShopInv, GateOK, GateTypeOK, Gated, RunOK, UsedOK, Statuses, Admits
<1>4. TalkOK' /\ ResultsOK'
  BY <1>1 DEF ShopInv, TalkOK, ResultsOK, ResultsAreTrue
<1>5. SummaryOK'
  BY <1>1, <1>2 DEF ShopInv, SummaryOK, ScriptOK
<1>6. ScriptOK'
  BY <1>1, <1>2 DEF ShopInv, ScriptOK
<1> QED BY <1>3, <1>4, <1>5, <1>6 DEF ShopInv

LEMMA AnswerKeeps ==
    ASSUME ShopInv, NEW stop \in Stops, NEW asked \in BoundedSeq(Uses, MaxUses), asked # <<>>,
           Answer(stop, asked)
    PROVE  ShopInv'
<1> DEFINE ids == [i \in DOMAIN asked |-> turn * MaxUses + i]
           said == [role |-> "assistant", ids |-> ids]
<1>1. /\ status = "asking" /\ turn < MaxIterations /\ turn' = turn + 1
      /\ summary' = [summary EXCEPT !.stop = stop]
      /\ dealt' = 0 /\ results' = <<>>
      /\ UNCHANGED <<phase, receipt, ran, plan, shopLog>>
      /\ \/ /\ status' = "using" /\ messages' = Append(messages, said)
            /\ used' = [c \in Calls |-> IF c \in ToSet(ids) THEN asked[c - turn * MaxUses]
                                        ELSE used[c]]
         \/ status' = "done" /\ UNCHANGED <<messages, used>>
  BY DEF Answer, MayAsk, gate
<1>2. PICK n \in 0..MaxUses : asked \in [1..n -> Uses]
  BY DEF BoundedSeq, SeqOf
<1>3. n > 0 /\ DOMAIN asked = 1..n
  BY <1>2
<1>4. /\ turn \in 0..MaxIterations /\ Upto(turn) \in Nat
      /\ Upto(turn + 1) = Upto(turn) + MaxUses
      /\ Upto(turn) + MaxUses <= MaxIterations * MaxUses
  BY <1>1, UptoGrows DEF ShopInv, RunOK
<1>5. \A i \in 1..n : ids[i] = Upto(turn) + i /\ ids[i] \in Calls
  BY <1>3, <1>4, CallsAssumption DEF Upto
<1>6. ids \in Seq(Calls) /\ Len(ids) = n /\ said \in Messages
  BY <1>3, <1>5 DEF Messages
<1>7. /\ \A c \in ToSet(ids) : c > Upto(turn) /\ asked[c - turn * MaxUses] \in Uses
      /\ \A c \in Calls : c > Upto(turn) => phase[c] = "idle"
  <2>1. ASSUME NEW c \in ToSet(ids)
        PROVE  c > Upto(turn) /\ asked[c - turn * MaxUses] \in Uses
    <3>1. PICK i \in 1..n : c = ids[i]
      BY <1>3 DEF ToSet
    <3>2. c = Upto(turn) + i /\ c - turn * MaxUses = i
      BY <1>4, <1>5, <3>1 DEF Upto
    <3> QED BY <1>2, <1>4, <3>2
  <2> QED BY <2>1, <1>1, <1>4, CallsAssumption DEF ShopInv, RunOK
<1> HIDE DEF ids
<1>8. GateOK' /\ RunOK'
  <2>1. turn' \in 0..MaxIterations /\ dealt' \in 0..(MaxUses + 3) /\ turn' - 1 = turn
    BY <1>1, <1>4, CallsAssumption
  <2>2. \A c \in Calls : phase[c] # "idle" => c <= Upto(turn) /\ c \in Nat
    BY <1>1, CallsAssumption DEF ShopInv, RunOK
  <2>3. \A c \in Calls :
          phase[c] # "idle" => c <= Upto(turn + 1) /\ c <= Upto(turn) + 0 + 1
    BY <1>1, <1>4, <2>2, CallsAssumption
  <2> QED BY <1>1, <2>1, <2>3 DEF ShopInv, GateOK, GateTypeOK, Gated, RunOK, Statuses
<1>9. UsedOK'
  <2>1. used' \in [Calls -> Uses \cup ToSet(Script) \cup {NoValue}]
    BY <1>1, <1>7 DEF ShopInv, UsedOK
  <2>2. \A c \in Calls : receipt[c] # "none" => used'[c] = used[c]
    BY <1>1, <1>7 DEF ShopInv, GateOK, Gated
  <2> QED BY <1>1, <2>1, <2>2 DEF ShopInv, UsedOK, Admits
<1>10. TalkOK'
  <2>1. CASE UNCHANGED messages /\ status' = "done"
    BY <2>1 DEF ShopInv, TalkOK
  <2>2. CASE messages' = Append(messages, said) /\ status' = "using"
    <3>1. /\ messages' \in Seq(Messages) /\ Len(messages') = Len(messages) + 1
          /\ \A i \in 1..Len(messages) : messages'[i] = messages[i]
          /\ messages'[Len(messages) + 1] = said
      BY <1>6, <2>2 DEF ShopInv, TalkOK
    <3>2. Len(messages) % 2 = 1
      BY <1>1 DEF ShopInv, TalkOK
    <3>3. Last(messages)' = said
      BY <3>1 DEF Last
    <3>4. ASSUME NEW i \in DOMAIN messages'
          PROVE  /\ messages'[i].role = IF i % 2 = 1 THEN "user" ELSE "assistant"
                 /\ i > 1 /\ i % 2 = 1 => messages'[i].ids = messages'[i - 1].ids
      <4>1. CASE i \in DOMAIN messages
        BY <3>1, <4>1 DEF ShopInv, TalkOK
      <4>2. CASE i = Len(messages) + 1
        BY <3>1, <3>2, <4>2 DEF ShopInv, TalkOK
      <4> QED BY <3>1, <4>1, <4>2 DEF ShopInv, TalkOK
    <3>5. turn' - 1 = turn
      BY <1>1, <1>4
    <3>6. /\ Len(said.ids) <= MaxUses /\ dealt' <= Len(said.ids)
          /\ \A i \in DOMAIN said.ids : said.ids[i] = Upto(turn' - 1) + i
      BY <1>1, <1>3, <1>5, <1>6, <3>5, CallsAssumption
    <3>7. turn' > 0 /\ Len(messages') > 0 /\ Len(messages') % 2 = 0
      <4>1. Len(messages) \in Nat
        BY DEF ShopInv, TalkOK
      <4>2. Len(messages') > 0 /\ Len(messages') % 2 = 0
        BY <3>1, <3>2, <4>1
      <4>3. turn' > 0
        BY <1>1, <1>4
      <4> QED BY <4>2, <4>3
    <3> HIDE DEF said
    <3> QED BY <2>2, <3>1, <3>3, <3>4, <3>6, <3>7 DEF TalkOK
  <2> QED BY <1>1, <2>1, <2>2
<1>11. ResultsOK'
  BY <1>1 DEF ResultsOK, ResultsAreTrue
<1>12. SummaryOK'
  <2>1. summary' \in Summaries
    BY <1>1 DEF ShopInv, SummaryOK, Summaries
  <2>2. summary'.deniedWire = summary'.attemptedWire
    BY <1>1 DEF ShopInv, SummaryOK, Summaries
  <2>3. \A c \in Calls : c = Upto(turn) + 1 => phase[c] = "idle" /\ receipt[c] = "none"
    BY <1>4, <1>7, CallsAssumption DEF ShopInv, GateOK, Gated
  <2>4. turn' - 1 = turn /\ Upto(turn' - 1) + dealt' + 1 = Upto(turn) + 1
    BY <1>1, <1>4
  <2> QED BY <1>1, <2>1, <2>2, <2>3, <2>4 DEF SummaryOK
<1>13. ScriptOK'
  BY <1>1, <1>4 DEF ScriptOK
<1> QED BY <1>8, <1>9, <1>10, <1>11, <1>12, <1>13 DEF ShopInv

LEMMA TellKeeps ==
    ASSUME ShopInv, TellResults
    PROVE  ShopInv'
<1> DEFINE told == [role |-> "user", ids |-> [i \in DOMAIN results |-> results[i].id]]
<1>1. /\ status = "using" /\ status' = "asking" /\ dealt = Len(Last(messages).ids)
      /\ messages' = Append(messages, told)
      /\ UNCHANGED <<phase, receipt, ran, plan, turn, used, dealt, results, shopLog, summary>>
  BY DEF TellResults, gate
<1>2. /\ Last(messages) = messages[Len(messages)] /\ Last(messages) \in Messages
      /\ Last(messages).ids \in Seq(Calls)
  <2>1. messages \in Seq(Messages) /\ Len(messages) \in DOMAIN messages
    BY <1>1 DEF ShopInv, TalkOK
  <2>2. messages[Len(messages)] \in Messages
    BY <2>1
  <2> QED BY <2>2 DEF Last, Messages
<1>3. told.ids = Last(messages).ids
  <2>1. told.ids \in Seq(Calls) /\ Len(told.ids) = dealt
    <3>1. results \in Seq(Results) /\ DOMAIN results = 1..dealt /\ dealt \in Nat
      BY <1>1 DEF ShopInv, ResultsOK
    <3>2. \A i \in 1..dealt : results[i] \in Results
      BY <3>1
    <3>3. \A i \in 1..dealt : results[i].id \in Calls
      BY <3>2 DEF Results
    <3> QED BY <3>1, <3>3
  <2>2. \A i \in 1..dealt : told.ids[i] = Last(messages).ids[i]
    BY <1>1, <1>2 DEF ShopInv, TalkOK, ResultsOK
  <2> QED BY <1>1, <1>2, <2>1, <2>2, SeqEqual
<1> HIDE DEF told
<1>4. told \in Messages /\ told.role = "user"
  BY <1>2, <1>3 DEF told, Messages
<1>5. /\ messages' \in Seq(Messages) /\ Len(messages') = Len(messages) + 1
      /\ \A i \in 1..Len(messages) : messages'[i] = messages[i]
      /\ messages'[Len(messages) + 1] = told
  BY <1>1, <1>4 DEF ShopInv, TalkOK
<1>6. TalkOK'
  <2>1. messages \in Seq(Messages) /\ Len(messages) > 0 /\ Len(messages) % 2 = 0
    BY <1>1 DEF ShopInv, TalkOK
  <2>2. ASSUME NEW i \in DOMAIN messages'
        PROVE  /\ messages'[i].role = IF i % 2 = 1 THEN "user" ELSE "assistant"
               /\ i > 1 /\ i % 2 = 1 => messages'[i].ids = messages'[i - 1].ids
    <3>1. CASE i \in DOMAIN messages
      <4>1. i \in 1..Len(messages) /\ (i > 1 => i - 1 \in 1..Len(messages))
        BY <2>1, <3>1
      <4>2. /\ messages[i].role = IF i % 2 = 1 THEN "user" ELSE "assistant"
            /\ i > 1 /\ i % 2 = 1 => messages[i].ids = messages[i - 1].ids
        BY <3>1 DEF ShopInv, TalkOK
      <4> QED BY <1>5, <4>1, <4>2
    <3>2. CASE i = Len(messages) + 1
      BY <1>2, <1>3, <1>4, <1>5, <2>1, <3>2
    <3> QED BY <1>5, <2>1, <3>1, <3>2
  <2> QED BY <1>1, <1>5, <2>1, <2>2 DEF TalkOK
<1>7. GateOK' /\ RunOK' /\ UsedOK'
  BY <1>1 DEF ShopInv, GateOK, GateTypeOK, Gated, RunOK, UsedOK, Statuses, Admits
<1>8. ResultsOK' /\ SummaryOK' /\ ScriptOK'
  BY <1>1 DEF ShopInv, ResultsOK, ResultsAreTrue, SummaryOK, ScriptOK
<1> QED BY <1>6, <1>7, <1>8 DEF ShopInv

\* The use the loop is at is the one after those it has results of.
LEMMA PendingIs ==
    ASSUME ShopInv, NEW c \in Calls, Pending(c)
    PROVE  /\ status = "using" /\ turn > 0 /\ turn \in 1..MaxIterations
           /\ Upto(turn - 1) \in Nat /\ Upto(turn) = Upto(turn - 1) + MaxUses
           /\ dealt \in Nat /\ dealt < Len(Last(messages).ids)
           /\ Len(Last(messages).ids) \in Nat /\ Len(Last(messages).ids) <= MaxUses
           /\ c = Upto(turn - 1) + dealt + 1 /\ c <= Upto(turn)
           /\ Len(results) = dealt
           /\ \A i \in DOMAIN results : results[i].id # c
<1>1. status = "using" /\ dealt < Len(Last(messages).ids) /\ c = Last(messages).ids[dealt + 1]
  BY DEF Pending
<1>2. /\ turn \in 1..MaxIterations /\ Len(Last(messages).ids) <= MaxUses /\ dealt \in Nat
      /\ \A i \in DOMAIN Last(messages).ids : Last(messages).ids[i] = Upto(turn - 1) + i
  BY <1>1, CallsAssumption DEF ShopInv, TalkOK, RunOK
<1>3. Last(messages).ids \in Seq(Calls)
  <2>1. messages \in Seq(Messages) /\ Len(messages) \in DOMAIN messages
    BY <1>1 DEF ShopInv, TalkOK
  <2>2. messages[Len(messages)] \in Messages
    BY <2>1
  <2> QED BY <2>2 DEF Last, Messages
<1>4. /\ turn - 1 \in 0..MaxIterations /\ turn - 1 < MaxIterations /\ turn - 1 + 1 = turn
  BY <1>2, CallsAssumption
<1>5. Upto(turn - 1) \in Nat /\ Upto(turn) = Upto(turn - 1) + MaxUses
  BY <1>4, UptoGrows
<1>6. dealt + 1 \in DOMAIN Last(messages).ids /\ Len(Last(messages).ids) \in Nat
  BY <1>1, <1>2, <1>3
<1>7. c = Upto(turn - 1) + dealt + 1
  BY <1>1, <1>2, <1>5, <1>6
<1>8. c <= Upto(turn)
  BY <1>1, <1>2, <1>5, <1>6, <1>7, CallsAssumption
<1>9. results \in Seq(Results) /\ Len(results) = dealt
  BY <1>1 DEF ShopInv, ResultsOK
<1>10. \A i \in DOMAIN results : results[i].id = Upto(turn - 1) + i /\ i <= dealt
  BY <1>1, <1>9 DEF ShopInv, ResultsOK
<1>11. \A i \in DOMAIN results : results[i].id # c
  BY <1>2, <1>5, <1>7, <1>9, <1>10
<1> QED BY <1>1, <1>2, <1>5, <1>6, <1>7, <1>8, <1>9, <1>11

\* What the model is told of the use at hand keeps the results in order, if it is true.
LEMMA ToldKeepsResults ==
    ASSUME ShopInv, NEW c \in Calls, Pending(c), NEW what \in {"unknown", "denied", "ok"},
           Told(c, what), UNCHANGED <<status, turn, used>>,
           \A d \in Calls : d # c => (d \in ToSet(shopLog') <=> d \in ToSet(shopLog)),
           (what = "ok") <=> (c \in ToSet(shopLog') /\ ShopServes(used[c].tool, used[c].input))
    PROVE  ResultsOK'
<1> DEFINE result == [id |-> c, what |-> what]
<1>1. /\ status = "using" /\ dealt \in Nat /\ Len(results) = dealt
      /\ c = Upto(turn - 1) + dealt + 1 /\ Upto(turn - 1) \in Nat
      /\ \A i \in DOMAIN results : results[i].id # c
  BY PendingIs
<1>2. results \in Seq(Results) /\ DOMAIN results = 1..dealt
  BY <1>1 DEF ShopInv, ResultsOK
<1>3. result \in Results
  BY DEF Results
<1>4. /\ results' \in Seq(Results) /\ Len(results') = dealt + 1 /\ DOMAIN results' = 1..dealt + 1
      /\ \A i \in 1..dealt : results'[i] = results[i]
      /\ results'[dealt + 1] = result
  <2>1. results' = Append(results, result)
    BY DEF Told
  <2> QED BY <1>1, <1>2, <1>3, <2>1
<1>5. dealt' = dealt + 1
  BY DEF Told
<1>6. ASSUME NEW i \in 1..dealt + 1
      PROVE  /\ results'[i].id = Upto(turn - 1) + i
             /\ (results'[i].what = "ok") <=>
                   (results'[i].id \in ToSet(shopLog')
                    /\ ShopServes(used[results'[i].id].tool, used[results'[i].id].input))
  <2>1. CASE i \in 1..dealt
    <3>1. /\ results'[i] = results[i] /\ i \in DOMAIN results /\ results[i].id \in Calls
          /\ results[i].id # c /\ results[i].id = Upto(turn - 1) + i
      <4>1. results[i] \in Results
        BY <1>1, <1>2, <2>1, ElementOfSeq
      <4> QED BY <1>1, <1>2, <1>4, <2>1, <4>1 DEF ShopInv, ResultsOK, Results
    <3>2. (results[i].what = "ok") <=>
              (results[i].id \in ToSet(shopLog)
               /\ ShopServes(used[results[i].id].tool, used[results[i].id].input))
      BY <3>1 DEF ShopInv, ResultsOK, ResultsAreTrue
    <3> QED BY <3>1, <3>2
  <2>2. CASE i = dealt + 1
    <3>1. results'[i] = result /\ c = Upto(turn - 1) + i
      BY <1>1, <1>4, <2>2
    <3> QED BY <3>1
  <2> QED BY <1>1, <1>6, <2>1, <2>2
<1>7. ResultsAreTrue'
  <2>1. ASSUME NEW i \in DOMAIN results'
        PROVE  (results'[i].what = "ok") <=>
                   (results'[i].id \in ToSet(shopLog')
                    /\ ShopServes(used'[results'[i].id].tool, used'[results'[i].id].input))
    BY <1>4, <1>6, <2>1
  <2> QED BY <2>1 DEF ResultsAreTrue
<1> QED BY <1>1, <1>4, <1>5, <1>6, <1>7 DEF ResultsOK

\* The loop goes on to the next use: the conversation stays as it is.
LEMMA DealtKeepsTalk ==
    ASSUME ShopInv, NEW c \in Calls, Pending(c), dealt' = dealt + 1,
           UNCHANGED <<status, turn, messages>>
    PROVE  TalkOK'
<1>1. /\ status = "using" /\ dealt \in Nat /\ dealt < Len(Last(messages).ids)
      /\ Len(Last(messages).ids) \in Nat
  BY PendingIs
<1>2. dealt' <= Len(Last(messages).ids)
  BY <1>1
<1> QED BY <1>1, <1>2 DEF ShopInv, TalkOK, Last

LEMMA UseUnknownKeeps ==
    ASSUME ShopInv, NEW c \in Calls, UseUnknown(c)
    PROVE  ShopInv'
<1>1. /\ Pending(c) /\ used[c].tool \notin ShopTools
      /\ Told(c, "unknown") /\ dealt' = dealt + 1
      /\ UNCHANGED <<phase, receipt, ran, plan, status, turn, messages, used, shopLog, summary>>
  BY DEF UseUnknown, Told, gate
<1>2. /\ status = "using" /\ turn > 0 /\ dealt \in Nat /\ dealt < Len(Last(messages).ids)
      /\ Len(Last(messages).ids) \in Nat /\ Len(Last(messages).ids) <= MaxUses
      /\ c = Upto(turn - 1) + dealt + 1 /\ Upto(turn - 1) \in Nat
  BY <1>1, PendingIs
<1>3. receipt[c] = "none" /\ c \notin ToSet(shopLog)
  BY <1>1 DEF ShopInv, UsedOK, GateOK, Gated
<1>4. GateOK' /\ RunOK' /\ UsedOK'
  <2>1. GateOK' /\ UsedOK'
    BY <1>1 DEF ShopInv, GateOK, GateTypeOK, Gated, UsedOK, Admits
  <2>2. dealt' \in 0..(MaxUses + 3)
    BY <1>1, <1>2, CallsAssumption
  <2>3. \A d \in Calls : phase[d] # "idle" => d <= Upto(turn - 1) + dealt' + 1
    BY <1>1, <1>2, CallsAssumption DEF ShopInv, RunOK
  <2> QED BY <1>1, <1>2, <2>1, <2>2, <2>3 DEF ShopInv, RunOK
<1>5. TalkOK'
  BY <1>1, DealtKeepsTalk
<1>6. ResultsOK'
  BY <1>1, <1>3, ToldKeepsResults
<1>7. SummaryOK'
  <2>1. summary.deniedWire = summary.attemptedWire
    BY <1>1, <1>2 DEF ShopInv, SummaryOK, ShopTools, Summaries
  <2>2. ASSUME NEW d \in Calls, d = Upto(turn - 1) + dealt' + 1
        PROVE  receipt[d] = "none"
    <3>1. d > c /\ d \in Nat
      BY <1>1, <1>2, <2>2
    <3>2. phase[d] = "idle"
      BY <1>2, <3>1 DEF ShopInv, RunOK
    <3> QED BY <3>2 DEF ShopInv, GateOK, Gated
  <2> QED BY <1>1, <1>2, <2>1, <2>2 DEF ShopInv, SummaryOK
<1>8. ScriptOK'
  BY <1>1, <1>2 DEF ScriptOK
<1> QED BY <1>4, <1>5, <1>6, <1>7, <1>8 DEF ShopInv

LEMMA AdmitsIsBoolean ==
    ASSUME NEW name, NEW fields
    PROVE  Admits(name, fields) \in BOOLEAN
<1>1. /\ BrowseAdmits(name, fields) \in BOOLEAN /\ BuyAdmits(name, fields) \in BOOLEAN
      /\ (plan.signer = "own key" /\ HokAdmits(name, fields)) \in BOOLEAN
  BY DEF BrowseAdmits, BuyAdmits
<1> QED BY <1>1 DEF Admits

\* Every capability of a plan is about searches, and purchases within merchant and limit.
InScope(tool, input) ==
    \/ tool = "catalog.search"
    \/ /\ tool = "checkout.purchase" /\ input.merchant = "amazon.com"
       /\ input.cents # NoValue /\ input.cents <= Limit

LEMMA AdmittedIsInScope ==
    ASSUME NEW name, NEW fields, Admits(name, fields)
    PROVE  InScope(name, fields) /\ (plan.hok => plan.signer = "own key")
<1>1. plan.hok => plan.signer = "own key" /\ HokAdmits(name, fields)
  BY DEF Admits
<1>2. name = "catalog.search" \/ BuyAdmits(name, fields)
  <2>1. CASE plan.hok
    BY <1>1, <2>1 DEF HokAdmits, BrowseAdmits
  <2>2. CASE ~plan.hok
    BY <2>2 DEF Admits
  <2> QED BY <2>1, <2>2
<1>3. BuyAdmits(name, fields) => InScope(name, fields)
  BY DEF BuyAdmits, InScope
<1>4. name = "catalog.search" => InScope(name, fields)
  BY DEF InScope
<1> QED BY <1>1, <1>2, <1>3, <1>4

\* A decision is the one that the capability in force makes of the use.
LEMMA DecideKeepsUsed ==
    ASSUME ShopInv, NEW c \in Calls, used[c].tool \in ShopTools,
           Decide(c, Admits(used[c].tool, used[c].input)), UNCHANGED <<plan, used, shopLog>>
    PROVE  /\ GateOK' /\ UsedOK'
           /\ \A d \in Calls : d # c => phase'[d] = phase[d] /\ receipt'[d] = receipt[d]
           /\ phase[c] = "idle" /\ receipt[c] = "none" /\ phase'[c] = "decided"
<1>1. Admits(used[c].tool, used[c].input) \in BOOLEAN
  BY AdmitsIsBoolean
<1>2. GateOK'
  BY <1>1, DecideKeepsGate DEF ShopInv
<1>3. /\ \A d \in Calls : d # c => phase'[d] = phase[d] /\ receipt'[d] = receipt[d]
      /\ phase[c] = "idle" /\ receipt[c] = "none" /\ phase'[c] = "decided" /\ ran' = ran
      /\ receipt'[c] = IF Admits(used[c].tool, used[c].input) THEN "allowed" ELSE "denied"
  BY DEF Decide, Move, ShopInv, GateOK, GateTypeOK, Gated
<1>4. UsedOK'
  BY <1>3 DEF ShopInv, UsedOK, Admits
<1> QED BY <1>2, <1>3, <1>4

LEMMA UseDecideKeeps ==
    ASSUME ShopInv, NEW c \in Calls, UseDecide(c)
    PROVE  ShopInv'
<1>1. /\ Pending(c) /\ used[c].tool \in ShopTools /\ phase[c] = "idle"
      /\ summary' = [summary EXCEPT !.attemptedWire = @ \/ used[c].tool = "bank.wire"]
      /\ UNCHANGED <<ran, plan, turn, messages, used, dealt, results, shopLog>>
      /\ \/ Throw(c) /\ status' = "failed"
         \/ Decide(c, Admits(used[c].tool, used[c].input)) /\ status' = status
  BY DEF UseDecide, Decide, Throw
<1>2. /\ status = "using" /\ turn > 0 /\ dealt \in Nat /\ dealt < Len(Last(messages).ids)
      /\ Len(Last(messages).ids) \in Nat /\ Upto(turn - 1) \in Nat
      /\ c = Upto(turn - 1) + dealt + 1 /\ c <= Upto(turn)
  BY <1>1, PendingIs
<1>3. /\ GateOK' /\ UsedOK'
      /\ \A d \in Calls : d # c => phase'[d] = phase[d] /\ receipt'[d] = receipt[d]
  <2>1. CASE Throw(c)
    <3>1. GateOK'
      BY <2>1, OthersKeepGate DEF ShopInv
    <3>2. receipt' = receipt /\ \A d \in Calls : d # c => phase'[d] = phase[d]
      BY <2>1 DEF Throw, Move, ShopInv, GateOK, GateTypeOK
    <3> QED BY <1>1, <3>1, <3>2 DEF ShopInv, UsedOK, Admits
  <2>2. CASE Decide(c, Admits(used[c].tool, used[c].input))
    BY <1>1, <2>2, DecideKeepsUsed
  <2> QED BY <1>1, <2>1, <2>2
<1>4. RunOK'
  <2>1. \A d \in Calls : phase'[d] # "idle" => phase[d] # "idle" \/ d = c
    BY <1>3
  <2>2. \A d \in Calls : phase'[d] # "idle" =>
                            d <= Upto(turn) /\ d <= Upto(turn - 1) + dealt + 1
    BY <1>2, <2>1, CallsAssumption DEF ShopInv, RunOK
  <2> QED BY <1>1, <1>2, <2>2 DEF ShopInv, RunOK, Statuses
<1>5. TalkOK' /\ ResultsOK' /\ ScriptOK'
  BY <1>1, <1>2 DEF ShopInv, TalkOK, Last, ResultsOK, ResultsAreTrue, ScriptOK
<1>6. SummaryOK'
  <2>1. /\ summary' \in Summaries /\ summary'.deniedWire = summary.deniedWire
        /\ summary'.attemptedWire = (summary.attemptedWire \/ used[c].tool = "bank.wire")
    BY <1>1 DEF ShopInv, SummaryOK, Summaries
  <2>2. summary.deniedWire = summary.attemptedWire
    BY <1>1, <1>2 DEF ShopInv, SummaryOK, Summaries
  <2>3. CASE status' = "failed"
    BY <2>1, <2>3 DEF SummaryOK
  <2>4. CASE status' = status
    <3>1. phase'[c] = "decided"
      BY <1>1, <1>2, <2>4, DecideKeepsUsed
    <3>2. dealt' # Len(Last(messages').ids)
      BY <1>1, <1>2
    <3>3. \A d \in Calls : d = Upto(turn' - 1) + dealt' + 1 => d = c
      BY <1>1, <1>2
    <3> QED BY <1>1, <1>2, <2>1, <2>2, <2>4, <3>1, <3>2, <3>3 DEF SummaryOK
  <2> QED BY <1>1, <2>3, <2>4
<1> QED BY <1>3, <1>4, <1>5, <1>6 DEF ShopInv

LEMMA UseRefuseKeeps ==
    ASSUME ShopInv, NEW c \in Calls, UseRefuse(c)
    PROVE  ShopInv'
<1>1. /\ Pending(c) /\ Refuse(c) /\ phase[c] = "decided" /\ receipt[c] = "denied"
      /\ Told(c, "denied") /\ dealt' = dealt + 1
      /\ summary' = [summary EXCEPT !.deniedWire = @ \/ used[c].tool = "bank.wire"]
      /\ UNCHANGED <<receipt, ran, plan, status, turn, messages, used, shopLog>>
      /\ \A d \in Calls : d # c => phase'[d] = phase[d]
  BY DEF UseRefuse, Refuse, Told, Move, ShopInv, GateOK, GateTypeOK
<1>2. /\ status = "using" /\ turn > 0 /\ dealt \in Nat /\ dealt < Len(Last(messages).ids)
      /\ Len(Last(messages).ids) \in Nat /\ Len(Last(messages).ids) <= MaxUses
      /\ c = Upto(turn - 1) + dealt + 1 /\ Upto(turn - 1) \in Nat
  BY <1>1, PendingIs
<1>3. c \notin ToSet(shopLog)
  BY <1>1 DEF ShopInv, UsedOK, GateOK, Gated
<1>4. GateOK' /\ UsedOK'
  BY <1>1, OthersKeepGate DEF ShopInv, UsedOK, Admits
<1>5. RunOK'
  <2>1. dealt' \in 0..(MaxUses + 3)
    BY <1>1, <1>2, CallsAssumption
  <2>2. \A d \in Calls : phase[d] # "idle" => d <= Upto(turn - 1) + dealt' + 1
    BY <1>1, <1>2, CallsAssumption DEF ShopInv, RunOK
  <2>3. \A d \in Calls : phase'[d] # "idle" => phase[d] # "idle"
    BY <1>1
  <2> QED BY <1>1, <1>2, <2>1, <2>2, <2>3 DEF ShopInv, RunOK
<1>6. TalkOK'
  BY <1>1, DealtKeepsTalk
<1>7. ResultsOK'
  BY <1>1, <1>3, ToldKeepsResults
<1>8. SummaryOK'
  <2>1. /\ summary' \in Summaries /\ summary'.attemptedWire = summary.attemptedWire
        /\ summary'.deniedWire = (summary.deniedWire \/ used[c].tool = "bank.wire")
    BY <1>1 DEF ShopInv, SummaryOK, Summaries
  <2>2. summary'.deniedWire = summary'.attemptedWire
    BY <1>1, <1>2, <2>1 DEF ShopInv, SummaryOK, Summaries
  <2>3. ASSUME NEW d \in Calls, d = Upto(turn - 1) + dealt' + 1
        PROVE  receipt[d] = "none"
    <3>1. d > c /\ d \in Nat
      BY <1>1, <1>2, <2>3
    <3>2. phase[d] = "idle"
      BY <1>2, <3>1 DEF ShopInv, RunOK
    <3> QED BY <3>2 DEF ShopInv, GateOK, Gated
  <2> QED BY <1>1, <1>2, <2>1, <2>2, <2>3 DEF SummaryOK
<1>9. ScriptOK'
  BY <1>1, <1>2 DEF ScriptOK
<1> QED BY <1>4, <1>5, <1>6, <1>7, <1>8, <1>9 DEF ShopInv

LEMMA UseShopKeeps ==
    ASSUME ShopInv, NEW c \in Calls, UseShop(c)
    PROVE  ShopInv'
<1> DEFINE serves == ShopServes(used[c].tool, used[c].input)
<1>1. /\ Pending(c) /\ Enter(c, "settled") /\ phase[c] = "decided" /\ receipt[c] = "allowed"
      /\ shopLog' = Append(shopLog, c) /\ ran' = ran \cup {c}
      /\ UNCHANGED <<receipt, plan, turn, messages, used, summary>>
      /\ \A d \in Calls : d # c => phase'[d] = phase[d]
      /\ \/ serves /\ Told(c, "ok") /\ dealt' = dealt + 1 /\ status' = status
         \/ ~serves /\ status' = "failed" /\ UNCHANGED <<dealt, results>>
  BY DEF UseShop, Enter, Told, Move, ShopInv, GateOK, GateTypeOK
<1>2. /\ status = "using" /\ turn > 0 /\ dealt \in Nat /\ dealt < Len(Last(messages).ids)
      /\ Len(Last(messages).ids) \in Nat /\ Len(Last(messages).ids) <= MaxUses
      /\ c = Upto(turn - 1) + dealt + 1 /\ Upto(turn - 1) \in Nat
      /\ \A i \in DOMAIN results : results[i].id # c
  BY <1>1, PendingIs
<1>3. GateOK'
  BY <1>1, EnterKeepsGate DEF ShopInv
<1>4. /\ shopLog' \in Seq(Calls) /\ ToSet(shopLog') = ToSet(shopLog) \cup {c}
  BY <1>1 DEF ShopInv, UsedOK, ToSet
<1>5. UsedOK'
  BY <1>1, <1>4 DEF ShopInv, UsedOK, Admits
<1>6. RunOK'
  <2>1. dealt' \in 0..(MaxUses + 3)
    BY <1>1, <1>2, CallsAssumption DEF ShopInv, RunOK
  <2>2. \A d \in Calls : phase[d] # "idle" => d <= Upto(turn - 1) + dealt' + 1
    BY <1>1, <1>2, CallsAssumption DEF ShopInv, RunOK
  <2>3. \A d \in Calls : phase'[d] # "idle" => phase[d] # "idle"
    BY <1>1
  <2> QED BY <1>1, <1>2, <2>1, <2>2, <2>3 DEF ShopInv, RunOK, Statuses
<1>7. TalkOK'
  <2>1. CASE status' = status /\ dealt' = dealt + 1
    BY <1>1, <2>1, DealtKeepsTalk
  <2>2. CASE status' = "failed"
    BY <1>1, <2>2 DEF ShopInv, TalkOK
  <2> QED BY <1>1, <2>1, <2>2
<1>8. ResultsOK'
  <2>1. CASE serves /\ Told(c, "ok") /\ status' = status
    BY <1>1, <1>4, <2>1, ToldKeepsResults
  <2>2. CASE status' = "failed" /\ results' = results
    BY <1>1, <1>2, <1>4, <2>2 DEF ShopInv, ResultsOK, ResultsAreTrue
  <2> QED BY <1>1, <2>1, <2>2
<1>9. SummaryOK'
  <2>1. used[c].tool # "bank.wire"
    <3>1. Admits(used[c].tool, used[c].input)
      BY <1>1 DEF ShopInv, UsedOK
    <3>2. InScope(used[c].tool, used[c].input)
      BY <3>1, AdmittedIsInScope
    <3> QED BY <3>2 DEF InScope
  <2>2. summary.deniedWire = summary.attemptedWire
    BY <1>1, <1>2, <2>1 DEF ShopInv, SummaryOK, Summaries
  <2>3. ASSUME NEW d \in Calls, d = Upto(turn - 1) + dealt + 1 + 1
        PROVE  receipt[d] = "none"
    <3>1. d > c /\ d \in Nat
      BY <1>1, <1>2, <2>3
    <3>2. phase[d] = "idle"
      BY <1>2, <3>1 DEF ShopInv, RunOK
    <3> QED BY <3>2 DEF ShopInv, GateOK, Gated
  <2>4. CASE status' = "failed"
    BY <1>1, <2>4 DEF ShopInv, SummaryOK
  <2>5. CASE status' = status /\ dealt' = dealt + 1
    BY <1>1, <1>2, <2>2, <2>3, <2>5 DEF ShopInv, SummaryOK
  <2> QED BY <1>1, <2>4, <2>5
<1>10. ScriptOK'
  BY <1>1, <1>2 DEF ScriptOK
<1> QED BY <1>3, <1>5, <1>6, <1>7, <1>8, <1>9, <1>10 DEF ShopInv

LEMMA ScriptDecideKeeps ==
    ASSUME ShopInv, NEW c \in Calls, ScriptDecide(c)
    PROVE  ShopInv'
<1>1. /\ status = "script" /\ c \in 1..3
      /\ Decide(c, Admits(used[c].tool, used[c].input))
      /\ UNCHANGED <<plan, status, turn, messages, used, dealt, results, shopLog, summary>>
  BY DEF ScriptDecide, Script, shopVars
<1>2. used[c].tool \in ShopTools
  BY <1>1 DEF ShopInv, ScriptOK, Script, ShopTools
<1>3. /\ GateOK' /\ UsedOK'
      /\ \A d \in Calls : d # c => phase'[d] = phase[d]
  BY <1>1, <1>2, DecideKeepsUsed
<1>4. RunOK' /\ TalkOK' /\ ResultsOK' /\ SummaryOK'
  BY <1>1 DEF ShopInv, RunOK, TalkOK, ResultsOK, ResultsAreTrue, SummaryOK
<1>5. ScriptOK'
  <2>1. \A d \in Calls : d > 3 => phase'[d] = "idle"
    BY <1>1, <1>3 DEF ShopInv, ScriptOK
  <2> QED BY <1>1, <2>1 DEF ShopInv, ScriptOK
<1> QED BY <1>3, <1>4, <1>5 DEF ShopInv

\* The verdicts on the script: its wire is denied, and nothing else.
LEMMA ScriptVerdicts ==
    ASSUME ShopInv, status = "script", NEW c \in Calls, c = dealt + 1, phase[c] = "decided"
    PROVE  /\ c \in 1..3 /\ dealt = c - 1 /\ used[c] = Script[c] /\ ~plan.hok
           /\ receipt[c] = "allowed" => c \in {1, 2}
           /\ receipt[c] = "denied" => c = 3
<1>1. c \in 1..3 /\ dealt = c - 1 /\ used[c] = Script[c] /\ ~plan.hok
  BY CallsAssumption DEF ShopInv, ScriptOK
<1>2. receipt[c] = "allowed" => Admits(used[c].tool, used[c].input)
  BY DEF ShopInv, UsedOK
<1>3. receipt[c] = "denied" => ~Admits(used[c].tool, used[c].input)
  BY DEF ShopInv, UsedOK
<1>4. c = 1 => Admits(used[c].tool, used[c].input)
  BY <1>1 DEF Admits, BrowseAdmits, Script
<1>5. c = 2 => Admits(used[c].tool, used[c].input)
  <2> SUFFICES ASSUME c = 2 PROVE Admits(used[c].tool, used[c].input)
    OBVIOUS
  <2>1. used[c].tool = "checkout.purchase" /\ used[c].input.merchant = "amazon.com"
        /\ used[c].input.cents = 2000
    BY <1>1 DEF Script
  <2>2. BuyAdmits(used[c].tool, used[c].input)
    BY <2>1, CallsAssumption DEF BuyAdmits, Limit
  <2> QED BY <1>1, <2>1, <2>2 DEF Admits
<1>6. c = 3 => ~Admits(used[c].tool, used[c].input)
  <2> SUFFICES ASSUME c = 3 PROVE ~InScope(used[c].tool, used[c].input)
    BY AdmittedIsInScope
  <2> QED BY <1>1 DEF Script, InScope
<1> QED BY <1>1, <1>2, <1>3, <1>4, <1>5, <1>6

LEMMA ScriptRefuseKeeps ==
    ASSUME ShopInv, NEW c \in Calls, ScriptRefuse(c)
    PROVE  ShopInv'
<1>1. /\ status = "script" /\ c = dealt + 1 /\ Refuse(c)
      /\ phase[c] = "decided" /\ receipt[c] = "denied"
      /\ status' = IF used[c].tool = "catalog.search" THEN "failed" ELSE status
      /\ summary' = [summary EXCEPT !.deniedWire = used[c].tool = "bank.wire"]
      /\ dealt' = dealt + 1
      /\ UNCHANGED <<receipt, ran, plan, turn, messages, used, results, shopLog>>
      /\ \A d \in Calls : d # c => phase'[d] = phase[d]
  BY DEF ScriptRefuse, Refuse, Move, ShopInv, GateOK, GateTypeOK
<1>2. c = 3 /\ dealt = 2 /\ used[c] = Script[c]
  BY <1>1, ScriptVerdicts
<1>3. used[c].tool = "bank.wire" /\ status' = "script" /\ dealt' = 3
  BY <1>1, <1>2 DEF Script
<1>4. /\ summary' \in Summaries /\ summary'.deniedWire = TRUE
      /\ summary'.purchased = summary.purchased
  BY <1>1, <1>3 DEF ShopInv, SummaryOK, Summaries
<1>5. GateOK' /\ UsedOK'
  BY <1>1, OthersKeepGate DEF ShopInv, UsedOK, Admits
<1>6. RunOK' /\ TalkOK' /\ ResultsOK'
  BY <1>1, <1>3, CallsAssumption
     DEF ShopInv, RunOK, TalkOK, ResultsOK, ResultsAreTrue, Statuses
<1>7. SummaryOK'
  BY <1>3, <1>4 DEF SummaryOK
<1>8. ScriptOK'
  BY <1>1, <1>2, <1>3, <1>4 DEF ShopInv, ScriptOK
<1> QED BY <1>5, <1>6, <1>7, <1>8 DEF ShopInv

LEMMA ScriptShopKeeps ==
    ASSUME ShopInv, NEW c \in Calls, ScriptShop(c)
    PROVE  ShopInv'
<1> DEFINE serves == ShopServes(used[c].tool, used[c].input)
           buys == used[c].tool = "checkout.purchase"
<1>1. /\ status = "script" /\ c = dealt + 1 /\ Enter(c, "settled")
      /\ phase[c] = "decided" /\ receipt[c] = "allowed"
      /\ shopLog' = Append(shopLog, c) /\ ran' = ran \cup {c}
      /\ status' = IF serves \/ buys THEN status ELSE "failed"
      /\ summary' = [summary EXCEPT !.purchased = @ \/ (buys /\ serves)]
      /\ dealt' = dealt + 1
      /\ UNCHANGED <<receipt, plan, turn, messages, used, results>>
      /\ \A d \in Calls : d # c => phase'[d] = phase[d]
  BY DEF ScriptShop, Enter, Move, ShopInv, GateOK, GateTypeOK
<1>2. c \in {1, 2} /\ dealt = c - 1 /\ used[c] = Script[c]
  BY <1>1, ScriptVerdicts
<1>3. serves /\ (c = 2 => buys)
  <2>1. CASE c = 1
    <3>1. used[c].tool = "catalog.search" /\ used[c].input.query = "cable"
      BY <1>2, <2>1 DEF Script
    <3>2. used[c].input.query # NoValue
      BY <3>1, CallsAssumption
    <3> QED BY <2>1, <3>1, <3>2 DEF ShopServes
  <2>2. CASE c = 2
    <3>1. /\ used[c].tool = "checkout.purchase" /\ used[c].input.product = "usbc-cable-1m"
          /\ used[c].input.merchant = "amazon.com" /\ used[c].input.cents = 2000
      BY <1>2, <2>2 DEF Script
    <3>2. [id |-> "usbc-cable-1m", price |-> 2000, merchant |-> "amazon.com"] \in Catalog
      BY DEF Catalog
    <3>3. \E p \in Catalog : /\ p.id = used[c].input.product
                             /\ p.merchant = used[c].input.merchant
                             /\ used[c].input.cents = NoValue \/ used[c].input.cents >= p.price
      BY <3>1, <3>2
    <3> QED BY <2>2, <3>1, <3>3 DEF ShopServes
  <2> QED BY <1>2, <2>1, <2>2
<1>4. /\ summary' \in Summaries /\ summary'.deniedWire = summary.deniedWire
      /\ summary'.purchased = (summary.purchased \/ (buys /\ serves))
  BY <1>1 DEF ShopInv, SummaryOK, Summaries
<1> HIDE DEF serves, buys
<1>5. status' = "script" /\ dealt' = c /\ (c = 2 => summary'.purchased)
  BY <1>1, <1>2, <1>3, <1>4
<1>6. GateOK'
  BY <1>1, EnterKeepsGate DEF ShopInv
<1>7. UsedOK'
  <2>1. shopLog' \in Seq(Calls) /\ ToSet(shopLog') = ToSet(shopLog) \cup {c}
    BY <1>1 DEF ShopInv, UsedOK, ToSet
  <2> QED BY <1>1, <2>1 DEF ShopInv, UsedOK, Admits
<1>8. RunOK' /\ TalkOK' /\ ResultsOK'
  <2>1. RunOK'
    <3>1. dealt' \in 0..(MaxUses + 3)
      BY <1>2, <1>5, CallsAssumption
    <3>2. UNCHANGED <<turn, plan>> /\ plan \in Plans /\ turn \in 0..MaxIterations
      BY <1>1 DEF ShopInv, RunOK
    <3> QED BY <1>5, <3>1, <3>2 DEF RunOK, Statuses
  <2>2. TalkOK'
    BY <1>1, <1>5 DEF ShopInv, TalkOK
  <2>3. ResultsOK'
    BY <1>1, <1>5 DEF ShopInv, ResultsOK, ResultsAreTrue
  <2> QED BY <2>1, <2>2, <2>3
<1>9. SummaryOK'
  BY <1>4, <1>5 DEF SummaryOK
<1>10. ScriptOK'
  <2>1. /\ turn = 0 /\ ~plan.hok /\ \A d \in 1..3 : used[d] = Script[d]
        /\ \A d \in Calls : d > 3 => phase[d] = "idle"
        /\ dealt = 0 => shopLog = <<>>
        /\ dealt = 1 => shopLog = <<1>>
    BY <1>1 DEF ShopInv, ScriptOK
  <2>2. c = 1 => shopLog' = <<1>>
    <3> SUFFICES ASSUME c = 1 PROVE shopLog' = <<1>>
      OBVIOUS
    <3>1. shopLog = <<>> /\ shopLog' = Append(shopLog, 1)
      BY <1>1, <1>2, <2>1
    <3> QED BY <3>1
  <2>3. c = 2 => shopLog' = <<1, 2>>
    <3> SUFFICES ASSUME c = 2 PROVE shopLog' = <<1, 2>>
      OBVIOUS
    <3>1. shopLog = <<1>> /\ shopLog' = Append(shopLog, 2)
      BY <1>1, <1>2, <2>1
    <3>2. /\ shopLog' \in Seq(Nat) /\ Len(shopLog') = 2
          /\ shopLog'[1] = 1 /\ shopLog'[2] = 2
      <4>1. <<1>> \in Seq(Nat) /\ Len(<<1>>) = 1 /\ <<1>>[1] = 1
        OBVIOUS
      <4> QED BY <3>1, <4>1, AppendProperties
    <3>3. <<1, 2>> \in Seq(Nat) /\ Len(<<1, 2>>) = 2 /\ <<1, 2>>[1] = 1 /\ <<1, 2>>[2] = 2
      OBVIOUS
    <3> QED BY <3>2, <3>3, SeqEqual
  <2>4. \A d \in Calls : d > 3 => phase'[d] = "idle"
    BY <1>1, <1>2, <2>1
  <2>5. dealt' \in {1, 2} /\ UNCHANGED <<turn, plan, used>>
    BY <1>1, <1>2, <1>5
  <2> QED BY <1>5, <2>1, <2>2, <2>3, <2>4, <2>5 DEF ScriptOK
<1> QED BY <1>6, <1>7, <1>8, <1>9, <1>10 DEF ShopInv

LEMMA ShopStepKeeps == ShopInv /\ [ShopNext]_<<gate, shopVars>> => ShopInv'
<1> SUFFICES ASSUME ShopInv, [ShopNext]_<<gate, shopVars>> PROVE ShopInv'
  OBVIOUS
<1>1. CASE UNCHANGED <<gate, shopVars>>
  <2>1. UNCHANGED <<phase, receipt, ran, plan, status, turn, messages, used, dealt, results,
                    shopLog, summary>>
    BY <1>1 DEF gate, shopVars
  <2>2. GateOK' /\ RunOK' /\ UsedOK' /\ TalkOK'
    BY <2>1 DEF ShopInv, GateOK, GateTypeOK, Gated, RunOK, UsedOK, Admits, TalkOK
  <2>3. ResultsOK' /\ SummaryOK' /\ ScriptOK'
    BY <2>1 DEF ShopInv, ResultsOK, ResultsAreTrue, SummaryOK, ScriptOK
  <2> QED BY <2>2, <2>3 DEF ShopInv
<1>2. CASE ShopNext
  <2>1. CASE StartRun
    BY <2>1, StartLlmKeeps, StartScriptKeeps DEF StartRun
  <2>2. CASE ModelAnswers
    BY <2>2, EndKeeps, AnswerKeeps DEF ModelAnswers
  <2>3. CASE RunProceeds
    <3>1. CASE OutOfTurns \/ TellResults \/ ScriptEnds
      BY <3>1, EndKeeps, TellKeeps
    <3>2. ASSUME NEW c \in Calls,
                 \/ UseUnknown(c) \/ UseDecide(c) \/ UseRefuse(c) \/ UseShop(c)
                 \/ ScriptDecide(c) \/ ScriptRefuse(c) \/ ScriptShop(c)
          PROVE  ShopInv'
      BY <3>2, UseUnknownKeeps, UseDecideKeeps, UseRefuseKeeps, UseShopKeeps,
         ScriptDecideKeeps, ScriptRefuseKeeps, ScriptShopKeeps
    <3> QED BY <2>3, <3>1, <3>2 DEF RunProceeds
  <2> QED BY <1>2, <2>1, <2>2, <2>3 DEF ShopNext, ShopProceeds
<1> QED BY <1>1, <1>2

LEMMA ShopInvariance == ShopSpec => []ShopInv
  BY ShopInitHolds, ShopStepKeeps, PTL DEF ShopSpec

\* The conversation, the results and the report of a run are what they are declared to
\* be, for any number of turns and uses.
THEOREM ShopTypeCorrect == ShopSpec => []ShopTypeOK
<1>1. ShopInv => ShopTypeOK
  <2> SUFFICES ASSUME ShopInv PROVE ShopTypeOK
    OBVIOUS
  <2>1. GateTypeOK /\ plan \in Plans \cup {NoValue} /\ turn \in 0..MaxIterations
    BY DEF ShopInv, GateOK, RunOK
  <2>2. /\ status \in {"idle", "asking", "using", "script", "done", "failed"}
        /\ dealt \in 0..(MaxUses + Len(Script))
    BY DEF ShopInv, RunOK, Statuses, Script
  <2>3. ASSUME NEW i \in DOMAIN messages
        PROVE  messages[i].role \in {"user", "assistant"} /\ ToSet(messages[i].ids) \subseteq Calls
    <3>1. messages[i] \in Messages
      BY ElementOfSeq DEF ShopInv, TalkOK
    <3> QED BY <3>1 DEF Messages, ToSet
  <2>4. ASSUME NEW i \in DOMAIN results
        PROVE  results[i].id \in Calls /\ results[i].what \in {"unknown", "denied", "ok"}
    <3>1. results[i] \in Results
      BY ElementOfSeq DEF ShopInv, ResultsOK
    <3> QED BY <3>1 DEF Results
  <2>5. /\ used \in [Calls -> Uses \cup ToSet(Script) \cup {NoValue}]
        /\ ToSet(shopLog) \subseteq Calls /\ summary.stop \in Stops \cup {"none"}
    BY DEF ShopInv, UsedOK, GateOK, GateTypeOK, SummaryOK, Summaries
  <2> QED BY <2>1, <2>2, <2>3, <2>4, <2>5 DEF ShopTypeOK
<1> QED BY <1>1, ShopInvariance, PTL

\* For any model and any length of conversation: whenever the model is asked again it
\* has been told one result for each of its uses, in their order.
THEOREM UsesAreAnswered == ShopSpec => []EveryUseIsAnswered
<1>1. ShopInv => EveryUseIsAnswered
  BY DEF ShopInv, TalkOK, EveryUseIsAnswered
<1> QED BY <1>1, ShopInvariance, PTL

\* For any model, the shop sees nothing but searches, and purchases within the limits.
THEOREM ShopIsShielded == ShopSpec => []ShopSeesItsScope
<1>1. ShopInv => ShopSeesItsScope
  <2> SUFFICES ASSUME ShopInv, NEW i \in DOMAIN shopLog
               PROVE  /\ \/ used[shopLog[i]].tool = "catalog.search"
                         \/ /\ used[shopLog[i]].tool = "checkout.purchase"
                            /\ used[shopLog[i]].input.merchant = "amazon.com"
                            /\ used[shopLog[i]].input.cents # NoValue
                            /\ used[shopLog[i]].input.cents <= Limit
                      /\ plan.hok => plan.signer = "own key"
    BY DEF ShopSeesItsScope
  <2>1. shopLog[i] \in ran /\ shopLog[i] \in Calls
    BY DEF ShopInv, UsedOK, ToSet, GateOK, GateTypeOK
  <2>2. Admits(used[shopLog[i]].tool, used[shopLog[i]].input)
    BY <2>1 DEF ShopInv, UsedOK, GateOK, Gated
  <2>3. InScope(used[shopLog[i]].tool, used[shopLog[i]].input)
    BY <2>2, AdmittedIsInScope
  <2>4. plan.hok => plan.signer = "own key"
    BY <2>2, AdmittedIsInScope
  <2> QED BY <2>3, <2>4 DEF InScope
<1> QED BY <1>1, ShopInvariance, PTL

\* For any model: what it is told of its uses, and what the run reports at its end, is
\* what happened.
THEOREM ReportsAreRight == ShopSpec => []ReportsAreTrue
<1>1. ShopInv => ReportsAreTrue
  <2> SUFFICES ASSUME ShopInv PROVE ReportsAreTrue
    OBVIOUS
  <2>1. ASSUME NEW i \in DOMAIN shopLog
        PROVE  used[shopLog[i]].tool # "bank.wire"
    <3>1. shopLog[i] \in ran /\ shopLog[i] \in Calls
      BY DEF ShopInv, UsedOK, ToSet, GateOK, GateTypeOK
    <3>2. Admits(used[shopLog[i]].tool, used[shopLog[i]].input)
      BY <3>1 DEF ShopInv, UsedOK, GateOK, Gated
    <3>3. InScope(used[shopLog[i]].tool, used[shopLog[i]].input)
      BY <3>2, AdmittedIsInScope
    <3> QED BY <3>3 DEF InScope
  <2>2. ExitCode # 3
    BY <2>1 DEF ExitCode, Reached
  <2>3. /\ status = "done" /\ turn > 0 => summary.deniedWire = summary.attemptedWire
        /\ status = "done" /\ turn = 0 =>
             summary.deniedWire /\ summary.purchased /\ shopLog = <<1, 2>>
    BY DEF ShopInv, SummaryOK, ScriptOK
  <2>4. ResultsAreTrue
    BY DEF ShopInv, ResultsOK
  <2> QED BY <2>2, <2>3, <2>4 DEF ReportsAreTrue, SummaryIsTrue
<1> QED BY <1>1, ShopInvariance, PTL

-----------------------------------------------------------------------------
\* The filesystem agent

Segments == DOMAIN Decoded
FsNodes == {Dir, None} \cup {File(text) : text \in SUBSET FsWords}
Trees == [Places -> FsNodes]
FsArgs == {call.args : call \in FsMenu}

LEMMA PrefixIs ==
    ASSUME NEW s \in Seq(Segments), NEW t \in Seq(Segments)
    PROVE  IsPrefix(s, t) <=> Len(s) <= Len(t) /\ \A i \in 1..Len(s) : s[i] = t[i]
<1>1. CASE Len(s) <= Len(t)
  <2>1. SubSeq(s, 1, Len(s)) = s
    OBVIOUS
  <2>2. /\ SubSeq(t, 1, Len(s)) \in Seq(Segments) /\ Len(SubSeq(t, 1, Len(s))) = Len(s)
        /\ \A i \in 1..Len(s) : SubSeq(t, 1, Len(s))[i] = t[i]
    BY <1>1
  <2>3. s = SubSeq(t, 1, Len(s)) <=> \A i \in 1..Len(s) : s[i] = t[i]
    BY <2>2, SeqEqual
  <2> QED BY <1>1, <2>1, <2>3 DEF IsPrefix
<1>2. CASE ~(Len(s) <= Len(t))
  BY <1>2 DEF IsPrefix
<1> QED BY <1>1, <1>2

LEMMA PrefixGoesOn ==
    ASSUME NEW r \in Seq(Segments), NEW s \in Seq(Segments), NEW t \in Seq(Segments),
           IsPrefix(r, s), IsPrefix(s, t)
    PROVE  IsPrefix(r, t)
  BY PrefixIs

LEMMA PrefixOfLonger ==
    ASSUME NEW r \in Seq(Segments), NEW s \in Seq(Segments), NEW t \in Seq(Segments),
           IsPrefix(r, s)
    PROVE  s \o t \in Seq(Segments) /\ IsPrefix(r, s \o t)
<1>1. /\ s \o t \in Seq(Segments) /\ Len(s) <= Len(s \o t)
      /\ \A i \in 1..Len(s) : (s \o t)[i] = s[i]
  OBVIOUS
<1> DEFINE longer == s \o t
<1>2. IsPrefix(s, longer)
  <2> HIDE DEF longer
  <2> QED BY <1>1, PrefixIs DEF longer
<1> QED BY <1>1, <1>2, PrefixGoesOn

LEMMA PrefixesCompare ==
    ASSUME NEW r \in Seq(Segments), NEW s \in Seq(Segments), NEW t \in Seq(Segments),
           IsPrefix(r, t), IsPrefix(s, t)
    PROVE  IsPrefix(r, s) \/ IsPrefix(s, r)
<1>1. CASE Len(r) <= Len(s)
  BY <1>1, PrefixIs
<1>2. CASE Len(s) <= Len(r)
  BY <1>2, PrefixIs
<1> QED BY <1>1, <1>2

LEMMA NodesAre == \A node : IsNode(node) <=> node \in FsNodes
  BY DEF IsNode, FsNodes, File

LEMMA LookupIs ==
    ASSUME NEW fs, NEW path
    PROVE  /\ Lookup(fs, path) \in Places \cup {NoPath}
           /\ Lookup(fs, path) # NoPath => Lookup(fs, path) = Resolve(path)
  BY PlacesAssumption DEF Lookup

\* What each tool makes of the files.
LEMMA ReadsLeaveFiles ==
    ASSUME NEW fs, NEW name \in ReadTools, NEW args
    PROVE  AtOnce(fs, name, args) = fs
  BY DEF AtOnce, ReadTools

LEMMA WriteIs ==
    ASSUME NEW fs, NEW args, args.path # NoPath
    PROVE  AtOnce(fs, "write_file", args) =
               IF Openable(fs, Lookup(fs, args.path))
               THEN [fs EXCEPT ![Lookup(fs, args.path)] = File(args.text)] ELSE fs
  BY DEF AtOnce

LEMMA EditIs ==
    ASSUME NEW fs, NEW args, args.path # NoPath
    PROVE  LET at == Lookup(fs, args.path)
           IN AtOnce(fs, "edit_file", args) =
                  IF Openable(fs, at) /\ fs[at] # None
                  THEN [fs EXCEPT ![at] = File(Edited(fs[at].text, args))] ELSE fs
  BY DEF AtOnce

LEMMA EditedIsText ==
    ASSUME NEW args \in FsArgs, NEW text \in SUBSET FsWords
    PROVE  Edited(text, args) \in SUBSET FsWords /\ args.text \in SUBSET FsWords
  BY DEF FsArgs, FsWords, Edited

LEMMA RenameKeepsTree ==
    ASSUME NEW fs \in Trees, NEW from, NEW to
    PROVE  Rename(fs, from, to) \in Trees
  BY DEF Rename, Trees, FsNodes

LEMMA AtOnceKeepsTree ==
    ASSUME NEW fs \in Trees, NEW name, NEW args \in FsArgs
    PROVE  AtOnce(fs, name, args) \in Trees
<1> DEFINE at == IF args.path = NoPath THEN NoPath ELSE Lookup(fs, args.path)
           from == Lookup(fs, args.source)
           to == Lookup(fs, args.destination)
<1>1. Dir \in FsNodes /\ None \in FsNodes
  BY DEF FsNodes
<1>2. [fs EXCEPT ![at] = File(args.text)] \in Trees
  <2>1. File(args.text) \in FsNodes
    BY EditedIsText DEF FsNodes
  <2> HIDE DEF at
  <2> QED BY <2>1 DEF Trees
<1>3. Openable(fs, at) /\ fs[at] # None => [fs EXCEPT ![at] = File(Edited(fs[at].text, args))] \in Trees
  <2> SUFFICES ASSUME Openable(fs, at) /\ fs[at] # None
               PROVE  [fs EXCEPT ![at] = File(Edited(fs[at].text, args))] \in Trees
    OBVIOUS
  <2>1. at \in Places
    BY LookupIs DEF Openable
  <2> HIDE DEF at
  <2>2. PICK text \in SUBSET FsWords : fs[at] = File(text)
    BY <2>1 DEF Openable, Trees, FsNodes
  <2>3. fs[at].text \in SUBSET FsWords
    BY <2>2 DEF File
  <2>4. File(Edited(fs[at].text, args)) \in FsNodes
    BY <2>3, EditedIsText DEF FsNodes
  <2> QED BY <2>4 DEF Trees
<1>4. MakeDirs(fs, Resolve(args.path)) \in Trees
  BY <1>1 DEF MakeDirs, Trees
<1>5. RemoveAll(fs, at) \in Trees
  BY <1>1 DEF RemoveAll, Trees
<1>6. Rename(fs, from, to) \in Trees
  BY RenameKeepsTree
<1>7. AtOnce(fs, name, args) \in {fs, [fs EXCEPT ![at] = File(args.text)],
                                  MakeDirs(fs, Resolve(args.path)), RemoveAll(fs, at),
                                  Rename(fs, from, to)}
      \/ /\ Openable(fs, at) /\ fs[at] # None
         /\ AtOnce(fs, name, args) = [fs EXCEPT ![at] = File(Edited(fs[at].text, args))]
  BY DEF AtOnce
<1> QED BY <1>2, <1>3, <1>4, <1>5, <1>6, <1>7

-----------------------------------------------------------------------------
Steps == {"none", "once", "read", "truncate", "fill", "list", "stat"}
FsJobs == [step : Steps, at : Seq(Segments) \cup {NoPath}, text : SUBSET FsWords,
           pending : SUBSET Places, seen : SUBSET Places]
FsMade == [kind : Kinds, tool : {call.tool : call \in FsMenu}, args : FsArgs]

FsFilesOK == files \in Trees /\ serial \in Trees

\* A call that was made has its arguments and its capability; it was allowed if that
\* capability admits it, and denied if not.
FsCallsOK ==
    /\ fsCap \in [Kinds -> Places \cup {NoPath}]
    /\ fsCalled \in [Calls -> FsMade \cup {NoPath}]
    /\ \A c \in Calls :
         fsCalled[c] = NoPath \/ [tool |-> Tool(c), args |-> Args(c)] \in FsMenu
    /\ \A c \in Calls :
         phase[c] # "idle" => fsCalled[c] \in FsMade /\ fsCap[fsCalled[c].kind] # NoPath
    /\ \A c \in Calls :
         /\ receipt[c] = "allowed" => FsAdmits(fsCalled[c].kind, Tool(c), Args(c))
         /\ receipt[c] = "denied" => ~FsAdmits(fsCalled[c].kind, Tool(c), Args(c))
    /\ fsLog \subseteq ran
    /\ \A c \in Calls : phase[c] = "running" => c \in fsLog /\ receipt[c] = "allowed"

\* Every job is at a step of its tool.
FsJobsOK ==
    /\ job \in [Calls -> FsJobs]
    /\ \A c \in Calls : phase[c] \in {"idle", "decided"} => job[c] = NoJob
    /\ \A c \in Calls : phase[c] = "running" =>
         CASE job[c].step = "once" -> FirstStep(Tool(c)) = "once"
           [] job[c].step = "read" -> Tool(c) = "edit_file"
           [] job[c].step \in {"truncate", "fill"} -> Tool(c) \in {"write_file", "edit_file"}
           [] job[c].step \in {"list", "stat"} ->
                Tool(c) \in {"directory_tree", "list_directory_with_sizes"}
           [] OTHER -> FALSE

\* What a call is about to fill or to look at, and what it has shown, is in its sandbox.
FsSandboxOK ==
    /\ (\A c \in fsLog : Plain(c)) =>
         \A c \in Calls : job[c].at # NoPath => /\ fsCap.write # NoPath
                                                /\ IsPrefix(fsCap.write, job[c].at)
    /\ \A c \in Calls : Plain(c) =>
         \A l \in job[c].pending \cup job[c].seen :
             fsCalled[c].kind = "read" /\ IsPrefix(fsCap.read, l)

\* What is left to do of a call that changes files.
Filled(at, text) == IF at = NoPath THEN files ELSE [files EXCEPT ![at] = File(text)]

Written(at, text) == IF Openable(files, at) THEN [files EXCEPT ![at] = File(text)] ELSE files

Finished(c) ==
    IF job[c].step \in {"once", "read"} THEN AtOnce(files, Tool(c), Args(c))
    ELSE IF job[c].step = "truncate" THEN Written(Lookup(files, Args(c).path), job[c].text)
    ELSE Filled(job[c].at, job[c].text)

Changing(c) == phase[c] = "running" /\ Mutates(c)

Target(c) == Resolve(Args(c).path)

\* The locations a call that changes files has to do with.
Concerns(c, l) == Rewrites(c) => l = Target(c)

\* Unless they crossed: calls at work have to do with different locations; where none
\* is at work the files are what they should be, and where one is, what is left of it
\* makes them that.  What it has emptied is empty.
FsSerialOK ==
    ~crossed =>
        /\ \A c, d \in Calls : Changing(c) /\ Changing(d) /\ c # d => ~Clash(c, d)
        /\ \A l \in Places :
             (\A c \in Calls : Changing(c) => ~Concerns(c, l)) => files[l] = serial[l]
        /\ \A c \in Calls, l \in Places :
             Changing(c) /\ Concerns(c, l) => serial[l] = Finished(c)[l]
        /\ \A c \in Calls :
             Changing(c) /\ job[c].step = "fill" =>
                 job[c].at = Target(c) /\ Target(c) \in Places /\ files[Target(c)] = File({})

FsInv == GateOK /\ FsFilesOK /\ FsCallsOK /\ FsJobsOK /\ FsSandboxOK /\ FsSerialOK

\* How paths are looked up depends on where the directories are.
SameDirs(fs, gs) == \A l \in Places : fs[l] = Dir <=> gs[l] = Dir

LEMMA LookupSame ==
    ASSUME NEW fs, NEW gs, NEW path, SameDirs(fs, gs)
    PROVE  Lookup(fs, path) = Lookup(gs, path)
  BY DEF Lookup, SameDirs

\* Rewriting a file changes no other location, and its outcome is told by what is there.
LEMMA WriteIsLocal ==
    ASSUME NEW fs \in Trees, NEW args, args.path # NoPath,
           NEW tool \in {"write_file", "edit_file"}
    PROVE  /\ \A l \in Places : l # Resolve(args.path) => AtOnce(fs, tool, args)[l] = fs[l]
           /\ \A gs \in Trees, l \in Places :
                SameDirs(fs, gs) /\ fs[l] = gs[l] =>
                    AtOnce(fs, tool, args)[l] = AtOnce(gs, tool, args)[l]
           /\ SameDirs(AtOnce(fs, tool, args), fs)
<1> DEFINE at == Lookup(fs, args.path)
<1>1. at = NoPath \/ (at \in Places /\ at = Resolve(args.path))
  BY LookupIs
<1>2. \A gs : SameDirs(fs, gs) => Lookup(gs, args.path) = at
  BY LookupSame
<1>3. \A text : File(text) # Dir
  BY DEF File, Dir
<1>4. CASE tool = "write_file"
  <2>1. \A gs : AtOnce(gs, tool, args) =
                  IF Openable(gs, Lookup(gs, args.path))
                  THEN [gs EXCEPT ![Lookup(gs, args.path)] = File(args.text)] ELSE gs
    BY <1>4, WriteIs
  <2> HIDE DEF at
  <2>2. \A gs : SameDirs(fs, gs) =>
          AtOnce(gs, tool, args) = IF Openable(gs, at) THEN [gs EXCEPT ![at] = File(args.text)] ELSE gs
    BY <1>2, <2>1
  <2>3. SameDirs(fs, fs)
    BY DEF SameDirs
  <2> QED BY <1>1, <1>3, <2>2, <2>3 DEF Trees, SameDirs, Openable
<1>5. CASE tool = "edit_file"
  <2>1. \A gs : AtOnce(gs, tool, args) =
                  IF Openable(gs, Lookup(gs, args.path)) /\ gs[Lookup(gs, args.path)] # None
                  THEN [gs EXCEPT ![Lookup(gs, args.path)] =
                           File(Edited(gs[Lookup(gs, args.path)].text, args))] ELSE gs
    BY <1>5, EditIs
  <2> HIDE DEF at
  <2>2. \A gs : SameDirs(fs, gs) =>
          AtOnce(gs, tool, args) = IF Openable(gs, at) /\ gs[at] # None
                                   THEN [gs EXCEPT ![at] = File(Edited(gs[at].text, args))] ELSE gs
    BY <1>2, <2>1
  <2>3. SameDirs(fs, fs)
    BY DEF SameDirs
  <2> QED BY <1>1, <1>3, <2>2, <2>3 DEF Trees, SameDirs, Openable
<1> QED BY <1>4, <1>5

\* A running call that rewrites a file has its path and is at one of three steps.
LEMMA RewriteIs ==
    ASSUME FsInv, NEW c \in Calls, phase[c] = "running", Rewrites(c)
    PROVE  /\ Args(c).path # NoPath /\ Tool(c) \in {"write_file", "edit_file"} /\ Changing(c)
           /\ \/ job[c].step = "read" /\ Tool(c) = "edit_file"
              \/ job[c].step \in {"truncate", "fill"}
<1>1. Tool(c) \in {"write_file", "edit_file"}
  BY DEF Rewrites
<1>2. FsAdmits(fsCalled[c].kind, Tool(c), Args(c))
  BY DEF FsInv, FsCallsOK
<1>3. Args(c).path # NoPath
  BY <1>1, <1>2 DEF FsAdmits
<1>4. job[c].step \notin {"once", "list", "stat", "none"} /\ job[c].step \in Steps
  BY <1>1 DEF FsInv, FsJobsOK, FsJobs, FirstStep
<1> QED BY <1>1, <1>3, <1>4 DEF FsInv, FsJobsOK, Changing, Mutates, ReadTools, Steps

\* What is left of it changes its file only, and depends on what is there only.
LEMMA FinishedIsLocal ==
    ASSUME FsInv, NEW c \in Calls, phase[c] = "running", Rewrites(c), job'[c] = job[c],
           fsCalled'[c] = fsCalled[c], files' \in Trees, SameDirs(files, files'),
           NEW l \in Places, files'[l] = files[l]
    PROVE  Finished(c)'[l] = Finished(c)[l]
<1> DEFINE at == Lookup(files, Args(c).path)
<1>1. Tool(c)' = Tool(c) /\ Args(c)' = Args(c) /\ files \in Trees
  BY DEF Tool, Args, FsInv, FsFilesOK
<1>2. Lookup(files', Args(c).path) = at
  BY LookupSame
<1>3. at = NoPath \/ at \in Places
  BY LookupIs
<1>4. CASE job[c].step = "read"
  <2>1. Finished(c) = AtOnce(files, Tool(c), Args(c)) /\ Finished(c)' = AtOnce(files', Tool(c), Args(c))
    BY <1>1, <1>4 DEF Finished
  <2> QED BY <1>1, <2>1, RewriteIs, WriteIsLocal
<1>5. CASE job[c].step = "truncate"
  <2>1. Finished(c) = IF Openable(files, at) THEN [files EXCEPT ![at] = File(job[c].text)] ELSE files
    BY <1>5 DEF Finished, Written
  <2>2. Finished(c)' = IF Openable(files', at) THEN [files' EXCEPT ![at] = File(job[c].text)] ELSE files'
    <3>1. Finished(c)' = Written(Lookup(files, Args(c).path), job[c].text)'
      BY <1>5 DEF Finished
    <3> QED BY <1>1, <1>2, <3>1 DEF Written
  <2> HIDE DEF at
  <2> QED BY <1>1, <1>3, <2>1, <2>2 DEF Trees, Openable, SameDirs
<1>6. CASE job[c].step = "fill"
  BY <1>1, <1>6 DEF Finished, Filled, Trees
<1> QED BY <1>4, <1>5, <1>6, RewriteIs

\* Where only rewriting calls are at work, the directories are where they should be.
LEMMA DirsAgree ==
    ASSUME FsInv, ~crossed, \A c \in Calls : Changing(c) => Rewrites(c)
    PROVE  SameDirs(files, serial)
<1> SUFFICES ASSUME NEW l \in Places PROVE files[l] = Dir <=> serial[l] = Dir
  BY DEF SameDirs
<1>1. CASE \A c \in Calls : Changing(c) => ~Concerns(c, l)
  BY <1>1 DEF FsInv, FsSerialOK
<1>2. ASSUME NEW c \in Calls, Changing(c), Concerns(c, l)
      PROVE  files[l] = Dir <=> serial[l] = Dir
  <2> DEFINE at == Lookup(files, Args(c).path)
  <2>1. serial[l] = Finished(c)[l] /\ l = Target(c) /\ phase[c] = "running" /\ Rewrites(c)
    BY <1>2 DEF FsInv, FsSerialOK, Concerns, Changing
  <2>2. files \in Trees /\ \A text : File(text) # Dir
    BY DEF FsInv, FsFilesOK, File, Dir
  <2>3. CASE job[c].step = "read"
    <3>1. Finished(c) = AtOnce(files, Tool(c), Args(c))
      BY <2>3 DEF Finished
    <3> QED BY <2>1, <2>2, <3>1, RewriteIs, WriteIsLocal DEF SameDirs
  <2>4. CASE job[c].step = "truncate"
    <3>1. Finished(c) = IF Openable(files, at) THEN [files EXCEPT ![at] = File(job[c].text)] ELSE files
      BY <2>4 DEF Finished, Written
    <3> HIDE DEF at
    <3> QED BY <2>1, <2>2, <3>1 DEF Trees, Openable
  <2>5. CASE job[c].step = "fill"
    <3>1. Finished(c) = Filled(job[c].at, job[c].text) /\ job[c].at = l /\ files[l] = File({})
      BY <1>2, <2>1, <2>5 DEF Finished, FsInv, FsSerialOK
    <3> QED BY <2>1, <2>2, <3>1 DEF Filled, Trees
  <2> QED BY <2>1, <2>3, <2>4, <2>5, RewriteIs
<1> QED BY <1>1, <1>2

\* A call that makes or moves directories is alone.
LEMMA OthersAreApart ==
    ASSUME FsInv, ~crossed, NEW c \in Calls, Changing(c), NEW d \in Calls, Changing(d), d # c
    PROVE  Rewrites(c) /\ Rewrites(d) /\ Target(c) # Target(d)
<1>1. ~Clash(c, d) /\ Mutates(c) /\ Mutates(d)
  BY DEF FsInv, FsSerialOK, Changing
<1> QED BY <1>1 DEF Clash, Target

LEMMA QuietIsSerial ==
    ASSUME FsInv, ~crossed, \A c \in Calls : ~Changing(c)
    PROVE  files = serial
<1>1. \A l \in Places : files[l] = serial[l]
  BY DEF FsInv, FsSerialOK
<1> QED BY <1>1 DEF FsInv, FsFilesOK, Trees

\* A step that changes no file and nothing of the calls that do.
LEMMA SerialStays ==
    ASSUME FsInv, UNCHANGED <<files, serial>>, ~crossed' => ~crossed,
           \A c \in Calls : Changing(c)' <=> Changing(c),
           \A c \in Calls : Changing(c) => job'[c] = job[c] /\ fsCalled'[c] = fsCalled[c]
    PROVE  FsSerialOK'
<1>1. ASSUME NEW c \in Calls, Changing(c)
      PROVE  /\ Tool(c)' = Tool(c) /\ Args(c)' = Args(c) /\ job'[c] = job[c]
             /\ Target(c)' = Target(c) /\ (Rewrites(c)' <=> Rewrites(c))
             /\ Finished(c)' = Finished(c) /\ \A l \in Places : Concerns(c, l)' <=> Concerns(c, l)
  <2>1. Tool(c)' = Tool(c) /\ Args(c)' = Args(c) /\ job'[c] = job[c]
    BY <1>1 DEF Tool, Args
  <2>2. Target(c)' = Target(c) /\ (Rewrites(c)' <=> Rewrites(c))
    BY <2>1 DEF Target, Rewrites
  <2>3. Finished(c)' = Finished(c)
    BY <2>1 DEF Finished, Filled, Written
  <2> QED BY <2>1, <2>2, <2>3 DEF Concerns
<1>2. ASSUME NEW c \in Calls, NEW d \in Calls, Changing(c), Changing(d)
      PROVE  Clash(c, d)' <=> Clash(c, d)
  BY <1>1, <1>2 DEF Clash, Mutates, Rewrites
<1> QED BY <1>1, <1>2 DEF FsInv, FsSerialOK

\* A step of a call that rewrites a file leaves the others alone.
OthersStay(c) ==
    /\ \A l \in Places : l # Target(c) => files'[l] = files[l]
    /\ SameDirs(files, files')
    /\ \A d \in Calls : d # c => job'[d] = job[d]

LEMMA RewriteKeepsSerial ==
    ASSUME FsInv, ~crossed, NEW c \in Calls, phase[c] = "running", Rewrites(c), OthersStay(c),
           UNCHANGED <<fsCalled, serial, crossed>>, files' \in Trees,
           \A d \in Calls : d # c => phase'[d] = phase[d],
           phase'[c] # "running" /\ Target(c) \in Places => files'[Target(c)] = serial[Target(c)],
           phase'[c] = "running" =>
               /\ Target(c) \in Places => serial[Target(c)] = Finished(c)'[Target(c)]
               /\ job'[c].step = "fill" =>
                    job'[c].at = Target(c) /\ Target(c) \in Places /\ files'[Target(c)] = File({})
    PROVE  FsSerialOK'
<1>1. Changing(c)
  BY RewriteIs
<1>2. \A d \in Calls : /\ Tool(d)' = Tool(d) /\ Args(d)' = Args(d) /\ Target(d)' = Target(d)
                       /\ Rewrites(d)' <=> Rewrites(d)
                       /\ Changing(d)' => Changing(d)
                       /\ Changing(d)' <=> phase'[d] = "running" /\ Mutates(d)
                       /\ \A l \in Places : Concerns(d, l)' <=> Concerns(d, l)
  BY <1>1 DEF Tool, Args, Target, Rewrites, Changing, Mutates, Concerns
<1>3. \A d, e \in Calls : Clash(d, e)' <=> Clash(d, e)
  BY <1>2 DEF Clash, Mutates, Rewrites
<1>4. \A d \in Calls : Changing(d) /\ d # c => /\ Changing(d)' /\ phase[d] = "running"
                                              /\ Rewrites(d) /\ Target(d) # Target(c)
  BY <1>1, <1>2, OthersAreApart DEF Changing
<1>5. ASSUME NEW d \in Calls, NEW e \in Calls, Changing(d)', Changing(e)', d # e
      PROVE  ~Clash(d, e)'
  BY <1>2, <1>3, <1>5 DEF FsInv, FsSerialOK
<1>6. ASSUME NEW l \in Places, \A d \in Calls : Changing(d)' => ~Concerns(d, l)'
      PROVE  files'[l] = serial[l]
  <2>1. CASE l = Target(c)
    <3>1. Concerns(c, l)' /\ Mutates(c)
      BY <1>1, <1>2, <2>1 DEF Concerns, Changing
    <3>2. phase'[c] # "running"
      BY <1>2, <1>6, <3>1
    <3> QED BY <2>1, <3>2
  <2>2. CASE l # Target(c)
    <3>1. \A d \in Calls : Changing(d) => ~Concerns(d, l)
      BY <1>2, <1>4, <1>6, <2>2 DEF Concerns
    <3>2. files[l] = serial[l]
      BY <3>1 DEF FsInv, FsSerialOK
    <3> QED BY <2>2, <3>2 DEF OthersStay
  <2> QED BY <2>1, <2>2
<1>7. ASSUME NEW d \in Calls, NEW l \in Places, Changing(d)', Concerns(d, l)'
      PROVE  serial[l] = Finished(d)'[l]
  <2>1. CASE d = c
    BY <1>2, <1>7, <2>1 DEF Concerns
  <2>2. CASE d # c
    <3>1. /\ Changing(d) /\ phase[d] = "running" /\ Rewrites(d) /\ Concerns(d, l)
          /\ l = Target(d) /\ l # Target(c)
      BY <1>2, <1>4, <1>7, <2>2 DEF Concerns
    <3>2. files'[l] = files[l] /\ job'[d] = job[d] /\ SameDirs(files, files') /\ fsCalled'[d] = fsCalled[d]
      BY <2>2, <3>1 DEF OthersStay
    <3>3. Finished(d)'[l] = Finished(d)[l]
      BY <3>1, <3>2, FinishedIsLocal
    <3> QED BY <3>1, <3>3 DEF FsInv, FsSerialOK
  <2> QED BY <2>1, <2>2
<1>8. ASSUME NEW d \in Calls, Changing(d)', job'[d].step = "fill"
      PROVE  job'[d].at = Target(d) /\ Target(d) \in Places /\ files'[Target(d)] = File({})
  <2>1. CASE d = c
    BY <1>2, <1>8, <2>1
  <2>2. CASE d # c
    <3>1. Changing(d) /\ Target(d) # Target(c) /\ job'[d] = job[d]
      BY <1>2, <1>4, <1>8, <2>2 DEF OthersStay
    <3> QED BY <1>8, <3>1 DEF FsInv, FsSerialOK, OthersStay
  <2> QED BY <2>1, <2>2
<1> QED BY <1>2, <1>5, <1>6, <1>7, <1>8 DEF FsSerialOK

LEMMA FsInitHolds == FsInit => FsInv
<1> SUFFICES ASSUME FsInit PROVE FsInv
  OBVIOUS
<1>1. GateOK
  BY GateInitOK DEF FsInit
<1>2. Tree \in Trees
  <2>1. \A l \in Places : Tree[l] \in FsNodes
    BY NodesAre, PlacesAssumption
  <2>2. Tree = [l \in Places |-> Tree[l]]
    BY PlacesAssumption
  <2> QED BY <2>1, <2>2 DEF Trees
<1>3. FsFilesOK /\ FsCallsOK
  BY <1>2 DEF FsInit, FsIdle, GateInit, FsFilesOK, FsCallsOK
<1>4. FsJobsOK
  BY DEF FsInit, FsIdle, GateInit, FsJobsOK, FsJobs, NoJob, Steps
<1>5. FsSandboxOK /\ FsSerialOK
  BY DEF FsInit, FsIdle, GateInit, FsSandboxOK, FsSerialOK, NoJob, Changing
<1> QED BY <1>1, <1>3, <1>4, <1>5 DEF FsInv

\* A capability that is in force stays as it is.
LEMMA IssueKeepsFs ==
    ASSUME FsInv, NEW kind \in Kinds, NEW prefix \in Sandboxes, IssueSandbox(kind, prefix)
    PROVE  FsInv'
<1>1. /\ fsCap[kind] = NoPath /\ fsCap' = [fsCap EXCEPT ![kind] = Resolve(prefix)]
      /\ UNCHANGED <<phase, receipt, ran, files, fsCalled, fsLog, job, serial, crossed>>
  BY DEF IssueSandbox, gate
<1>2. Resolve(prefix) \in Places
  BY PlacesAssumption
<1>3. fsCap' \in [Kinds -> Places \cup {NoPath}]
  BY <1>1, <1>2 DEF FsInv, FsCallsOK
<1>4. \A other \in Kinds : fsCap[other] # NoPath => fsCap'[other] = fsCap[other]
  BY <1>1 DEF FsInv, FsCallsOK
<1>5. "read" \in Kinds /\ "write" \in Kinds
  BY DEF Kinds
<1>6. GateOK' /\ FsFilesOK' /\ FsJobsOK'
  BY <1>1 DEF FsInv, GateOK, GateTypeOK, Gated, FsFilesOK, FsJobsOK, Tool
<1>7. FsCallsOK'
  <2>1. ASSUME NEW c \in Calls, phase[c] # "idle"
        PROVE  fsCalled[c] \in FsMade /\ fsCap'[fsCalled[c].kind] = fsCap[fsCalled[c].kind]
               /\ fsCap'[fsCalled[c].kind] # NoPath
    <3>1. fsCalled[c] \in FsMade /\ fsCap[fsCalled[c].kind] # NoPath
      BY <2>1 DEF FsInv, FsCallsOK
    <3>2. fsCalled[c].kind \in Kinds
      BY <3>1 DEF FsMade
    <3> QED BY <1>4, <3>1, <3>2
  <2>2. ASSUME NEW c \in Calls, receipt[c] # "none"
        PROVE  FsAdmits(fsCalled[c].kind, Tool(c), Args(c))' <=>
                   FsAdmits(fsCalled[c].kind, Tool(c), Args(c))
    <3>1. phase[c] # "idle"
      BY <2>2 DEF FsInv, GateOK, Gated
    <3>2. fsCap'[fsCalled[c].kind] = fsCap[fsCalled[c].kind]
      BY <2>1, <3>1
    <3> QED BY <1>1, <3>2 DEF FsAdmits, Tool, Args
  <2> QED BY <1>1, <1>3, <2>1, <2>2 DEF FsInv, FsCallsOK, Tool, Args
<1>8. FsSandboxOK'
  <2>1. \A c \in Calls : Plain(c)' <=> Plain(c)
    BY <1>1 DEF Plain, Args
  <2>2. ASSUME NEW c \in Calls, Plain(c), NEW l \in job[c].pending \cup job[c].seen
        PROVE  fsCalled[c].kind = "read" /\ IsPrefix(fsCap'.read, l)
    <3>1. fsCalled[c].kind = "read" /\ IsPrefix(fsCap.read, l)
      BY <2>2 DEF FsInv, FsSandboxOK
    <3>2. phase[c] # "idle"
      BY <2>2 DEF FsInv, FsJobsOK, NoJob
    <3>3. fsCap.read # NoPath
      BY <3>1, <3>2 DEF FsInv, FsCallsOK
    <3> QED BY <1>4, <1>5, <3>1, <3>3
  <2>3. (\A c \in fsLog : Plain(c)) <=> (\A c \in fsLog : Plain(c))'
    BY <1>1, <2>1 DEF FsInv, FsCallsOK, GateOK, GateTypeOK
  <2> QED BY <1>1, <1>4, <1>5, <2>1, <2>2, <2>3 DEF FsInv, FsSandboxOK
<1>9. FsSerialOK'
  <2>1. \A c \in Calls : Changing(c)' <=> Changing(c)
    BY <1>1 DEF Changing, Mutates, Tool
  <2> QED BY <1>1, <2>1, SerialStays
<1> QED BY <1>6, <1>7, <1>8, <1>9 DEF FsInv

LEMMA FsCallKeeps ==
    ASSUME FsInv, NEW c \in Calls, NEW kind \in Kinds, NEW call \in FsMenu,
           FsCall(c, kind, call.tool, call.args)
    PROVE  FsInv'
<1> DEFINE made == [kind |-> kind, tool |-> call.tool, args |-> call.args]
<1>1. /\ fsCap[kind] # NoPath /\ phase[c] = "idle"
      /\ fsCalled' = [fsCalled EXCEPT ![c] = made]
      /\ UNCHANGED <<ran, fsCap, files, fsLog, job, serial, crossed>>
      /\ \A d \in Calls : d # c => phase'[d] = phase[d] /\ receipt'[d] = receipt[d]
      /\ phase'[c] = "decided"
      /\ receipt'[c] = "allowed" => FsAdmits(kind, call.tool, call.args)
      /\ receipt'[c] = "denied" => ~FsAdmits(kind, call.tool, call.args)
  BY DEF FsCall, Decide, Move, FsInv, GateOK, GateTypeOK, Gated
<1>2. call = [tool |-> call.tool, args |-> call.args] /\ made \in FsMade
  BY PlacesAssumption DEF FsMade, FsArgs
<1>3. fsCalled'[c] = made /\ \A d \in Calls : d # c => fsCalled'[d] = fsCalled[d]
  BY <1>1 DEF FsInv, FsCallsOK
<1>4. c \notin fsLog /\ job[c] = NoJob
  BY <1>1 DEF FsInv, FsCallsOK, FsJobsOK, GateOK, Gated
<1>5. GateOK'
  <2>1. FsAdmits(kind, call.tool, call.args) \in BOOLEAN
    BY DEF FsAdmits
  <2> QED BY <2>1, DecideKeepsGate DEF FsCall, FsInv
<1>6. FsCallsOK'
  <2>1. fsCalled' \in [Calls -> FsMade \cup {NoPath}]
    BY <1>1, <1>2 DEF FsInv, FsCallsOK
  <2>2. ASSUME NEW d \in Calls
        PROVE  /\ fsCalled'[d] = NoPath
                  \/ [tool |-> fsCalled'[d].tool, args |-> fsCalled'[d].args] \in FsMenu
               /\ phase'[d] # "idle" => fsCalled'[d] \in FsMade /\ fsCap[fsCalled'[d].kind] # NoPath
               /\ receipt'[d] = "allowed" =>
                    FsAdmits(fsCalled'[d].kind, fsCalled'[d].tool, fsCalled'[d].args)
               /\ receipt'[d] = "denied" =>
                    ~FsAdmits(fsCalled'[d].kind, fsCalled'[d].tool, fsCalled'[d].args)
    <3>1. CASE d = c
      BY <1>1, <1>2, <1>3, <3>1
    <3>2. CASE d # c
      BY <1>1, <1>3, <3>2 DEF FsInv, FsCallsOK, Tool, Args
    <3> QED BY <3>1, <3>2
  <2>3. \A d \in Calls : FsAdmits(fsCalled[d].kind, Tool(d), Args(d))'
                         <=> FsAdmits(fsCalled'[d].kind, fsCalled'[d].tool, fsCalled'[d].args)
    BY <1>1 DEF FsAdmits, Tool, Args
  <2>4. \A d \in Calls : phase'[d] = "running" => d \in fsLog /\ receipt'[d] = "allowed"
    BY <1>1 DEF FsInv, FsCallsOK
  <2> QED BY <1>1, <2>1, <2>2, <2>3, <2>4 DEF FsInv, FsCallsOK, Tool, Args
<1>7. FsFilesOK'
  BY <1>1 DEF FsInv, FsFilesOK
<1>8. FsJobsOK'
  <2>1. \A d \in Calls : phase'[d] = "running" => phase[d] = "running" /\ fsCalled'[d] = fsCalled[d]
    BY <1>1, <1>3
  <2>2. \A d \in Calls : phase'[d] \in {"idle", "decided"} => job[d] = NoJob
    BY <1>1, <1>4 DEF FsInv, FsJobsOK
  <2> QED BY <1>1, <2>1, <2>2 DEF FsInv, FsJobsOK, Tool
<1>9. FsSandboxOK'
  <2>1. \A d \in Calls : d # c => (Plain(d)' <=> Plain(d))
    BY <1>3 DEF Plain, Args
  <2>2. (\A d \in fsLog : Plain(d))' => \A d \in fsLog : Plain(d)
    BY <1>1, <1>4, <2>1 DEF FsInv, FsCallsOK, GateOK, GateTypeOK
  <2>3. job[c].pending \cup job[c].seen = {}
    BY <1>4 DEF NoJob
  <2> QED BY <1>1, <1>3, <2>1, <2>2, <2>3 DEF FsInv, FsSandboxOK
<1>10. FsSerialOK'
  <2>1. \A d \in Calls : Changing(d)' <=> Changing(d)
    BY <1>1, <1>3 DEF Changing, Mutates, Tool
  <2>2. \A d \in Calls : Changing(d) => job'[d] = job[d] /\ fsCalled'[d] = fsCalled[d]
    BY <1>1, <1>3 DEF Changing
  <2> QED BY <1>1, <2>1, <2>2, SerialStays
<1> QED BY <1>5, <1>6, <1>7, <1>8, <1>9, <1>10 DEF FsInv

\* Where a running call that the check sees as the file system does comes to is inside
\* the sandbox of its capability.
LEMMA AdmittedLookup ==
    ASSUME FsInv, NEW c \in Calls, phase[c] = "running", Plain(c), Tool(c) # "move_file",
           NEW at, at = Lookup(files, Args(c).path), at # NoPath
    PROVE  /\ at \in Places /\ Args(c).path # NoPath
           /\ fsCalled[c].kind \in Kinds /\ fsCap[fsCalled[c].kind] \in Places
           /\ IsPrefix(fsCap[fsCalled[c].kind], at)
           /\ Tool(c) \in ReadTools => fsCalled[c].kind = "read"
           /\ Tool(c) \notin ReadTools => fsCalled[c].kind = "write" /\ Tool(c) \in WriteTools
<1>1. /\ fsCalled[c].kind \in Kinds /\ fsCap[fsCalled[c].kind] \in Places
      /\ FsAdmits(fsCalled[c].kind, Tool(c), Args(c))
  BY DEF FsInv, FsCallsOK, FsMade
<1>2. /\ Tool(c) \in (IF fsCalled[c].kind = "read" THEN ReadTools ELSE WriteTools)
      /\ Args(c).path # NoPath
      /\ Inside(fsCap[fsCalled[c].kind], Canonical(Args(c).path))
  BY <1>1 DEF FsAdmits
<1>3. at \in Places /\ at = Resolve(Args(c).path)
  BY LookupIs
<1>4. IsPrefix(fsCap[fsCalled[c].kind], at)
  BY <1>2, <1>3 DEF Plain, Inside
<1> QED BY <1>1, <1>2, <1>3, <1>4 DEF ReadTools, WriteTools, Kinds

LEMMA AdmittedMove ==
    ASSUME FsInv, NEW c \in Calls, phase[c] = "running", Plain(c), Tool(c) = "move_file",
           NEW path \in {Args(c).source, Args(c).destination},
           NEW at, at = Lookup(files, path), at # NoPath
    PROVE  /\ at \in Places /\ fsCap.write \in Places /\ IsPrefix(fsCap.write, at)
           /\ fsCalled[c].kind = "write"
<1>1. /\ fsCalled[c].kind \in Kinds /\ fsCap[fsCalled[c].kind] \in Places
      /\ FsAdmits(fsCalled[c].kind, Tool(c), Args(c))
  BY DEF FsInv, FsCallsOK, FsMade
<1>2. fsCalled[c].kind = "write" /\ Inside(fsCap.write, path)
  BY <1>1 DEF FsAdmits, ReadTools, WriteTools
<1>3. at \in Places /\ at = Resolve(path)
  BY LookupIs
<1>4. Resolve(path) = path
  BY <1>2 DEF Inside, Plain
<1> QED BY <1>1, <1>2, <1>3, <1>4 DEF Inside

LEMMA PlacesAreWays == Places \subseteq Seq(Segments) /\ NoPath \notin Places
  BY PlacesAssumption DEF Segments

\* The end of a call, whatever its last step is.
LEMMA SettleKeeps ==
    ASSUME FsInv, NEW c \in Calls, Settle(c),
           UNCHANGED <<fsCap, fsCalled, fsLog, serial, crossed>>,
           files' \in Trees, job' \in [Calls -> FsJobs],
           \A d \in Calls : d # c => /\ job'[d].step = job[d].step
                                     /\ job[d].at = NoPath => job'[d] = job[d],
           Changing(c) /\ ~crossed =>
               /\ \A l \in Places : Concerns(c, l) => files'[l] = serial[l]
               /\ Rewrites(c) => OthersStay(c),
           ~Changing(c) => files' = files /\ \A d \in Calls : d # c => job'[d] = job[d],
           FsSandboxOK'
    PROVE  FsInv'
<1>1. /\ phase[c] = "running" /\ phase'[c] = "settled" /\ UNCHANGED <<receipt, ran>>
      /\ \A d \in Calls : d # c => phase'[d] = phase[d]
  BY DEF Settle, Move, FsInv, GateOK, GateTypeOK
<1>2. GateOK'
  BY OthersKeepGate DEF FsInv
<1>3. FsFilesOK'
  BY DEF FsInv, FsFilesOK
<1>4. FsCallsOK'
  BY <1>1 DEF FsInv, FsCallsOK, FsAdmits, Tool, Args
<1>5. FsJobsOK'
  <2>1. \A d \in Calls : phase'[d] \in {"idle", "decided"} => job'[d] = NoJob
    BY <1>1 DEF FsInv, FsJobsOK, NoJob
  <2>2. \A d \in Calls : phase'[d] = "running" =>
          phase[d] = "running" /\ Tool(d)' = Tool(d) /\ job'[d].step = job[d].step
    BY <1>1 DEF Tool
  <2> QED BY <2>1, <2>2 DEF FsInv, FsJobsOK
<1>6. FsSerialOK'
  <2>1. /\ ~Changing(c)' /\ \A d \in Calls : d # c => (Changing(d)' <=> Changing(d))
    BY <1>1 DEF Changing, Mutates, Tool
  <2>2. CASE Changing(c) /\ ~crossed /\ Rewrites(c)
    <3>1. Target(c) \in Places => files'[Target(c)] = serial[Target(c)]
      BY <2>2 DEF Concerns
    <3> QED BY <1>1, <2>2, <3>1, RewriteKeepsSerial
  <2>3. CASE Changing(c) /\ ~crossed /\ ~Rewrites(c)
    <3>1. \A d \in Calls : ~Changing(d)'
      BY <2>1, <2>3, OthersAreApart
    <3>2. \A l \in Places : files'[l] = serial[l]
      BY <2>3 DEF Concerns
    <3> QED BY <2>3, <3>1, <3>2 DEF FsSerialOK
  <2>4. CASE ~Changing(c)
    <3>1. \A d \in Calls : (Changing(d)' <=> Changing(d))
      BY <2>1, <2>4
    <3> QED BY <2>4, <3>1, SerialStays
  <2> QED BY <2>2, <2>3, <2>4 DEF FsSerialOK
<1> QED BY <1>2, <1>3, <1>4, <1>5, <1>6 DEF FsInv

LEMMA FsStartKeeps ==
    ASSUME FsInv, NEW c \in Calls, FsStart(c)
    PROVE  FsInv'
<1>1. /\ Enter(c, "running") /\ phase[c] = "decided" /\ phase'[c] = "running"
      /\ receipt[c] = "allowed" /\ ran' = ran \cup {c} /\ fsLog' = fsLog \cup {c}
      /\ serial' = AtOnce(serial, Tool(c), Args(c))
      /\ crossed' = (crossed \/ \E d \in Calls : phase[d] = "running" /\ Clash(c, d))
      /\ UNCHANGED <<receipt, files, fsCap, fsCalled>>
      /\ \A d \in Calls : d # c => phase'[d] = phase[d]
  BY DEF FsStart, Enter, Move, FsInv, GateOK, GateTypeOK
<1>2. /\ job[c] = NoJob /\ job \in [Calls -> FsJobs]
      /\ fsCalled[c] \in FsMade /\ Args(c) \in FsArgs /\ Args(c).text \in SUBSET FsWords
  <2>1. fsCalled[c] \in FsMade
    BY <1>1 DEF FsInv, FsCallsOK
  <2> QED BY <1>1, <2>1, EditedIsText DEF FsInv, FsJobsOK, FsMade, Args
<1>3. FirstStep(Tool(c)) \in {"once", "read", "truncate", "list"}
  BY DEF FirstStep
<1>4. /\ job' = [job EXCEPT ![c] = [NoJob EXCEPT !.step = FirstStep(Tool(c)), !.text = Args(c).text]]
      /\ job'[c].step = FirstStep(Tool(c)) /\ job'[c].text = Args(c).text
      /\ job'[c].at = NoPath /\ job'[c].pending = {} /\ job'[c].seen = {}
      /\ \A d \in Calls : d # c => job'[d] = job[d]
  <2>1. job' = [job EXCEPT ![c].step = FirstStep(Tool(c)), ![c].text = Args(c).text]
    BY DEF FsStart
  <2>2. job' = [job EXCEPT ![c] = [job[c] EXCEPT !.step = FirstStep(Tool(c)),
                                                 !.text = Args(c).text]]
    BY <1>2, <2>1
  <2>3. job' = [job EXCEPT ![c] = [NoJob EXCEPT !.step = FirstStep(Tool(c)),
                                                !.text = Args(c).text]]
    BY <1>2, <2>2
  <2>4. /\ job'[c] = [NoJob EXCEPT !.step = FirstStep(Tool(c)), !.text = Args(c).text]
        /\ \A d \in Calls : d # c => job'[d] = job[d]
    BY <1>2, <2>3
  <2>5. /\ job'[c].step = FirstStep(Tool(c)) /\ job'[c].text = Args(c).text
        /\ job'[c].at = NoPath /\ job'[c].pending = {} /\ job'[c].seen = {}
    BY <2>4 DEF NoJob
  <2> QED BY <2>3, <2>4, <2>5
<1>5. GateOK'
  BY <1>1, EnterKeepsGate DEF FsInv
<1>6. FsFilesOK'
  BY <1>1, <1>2, AtOnceKeepsTree DEF FsInv, FsFilesOK
<1>7. FsCallsOK'
  BY <1>1 DEF FsInv, FsCallsOK, FsAdmits, Tool, Args
<1>8. FsJobsOK'
  <2>1. job' \in [Calls -> FsJobs]
    <3>1. [NoJob EXCEPT !.step = FirstStep(Tool(c)), !.text = Args(c).text] \in FsJobs
      BY <1>2, <1>3 DEF NoJob, FsJobs, Steps
    <3> QED BY <1>2, <1>4, <3>1
  <2>2. \A d \in Calls : phase'[d] \in {"idle", "decided"} => job'[d] = NoJob
    BY <1>1, <1>4 DEF FsInv, FsJobsOK
  <2>3. /\ job'[c].step = "once" => FirstStep(Tool(c)) = "once"
        /\ job'[c].step = "read" => Tool(c) = "edit_file"
        /\ job'[c].step = "truncate" => Tool(c) = "write_file"
        /\ job'[c].step = "list" => Tool(c) \in {"directory_tree", "list_directory_with_sizes"}
    BY <1>4 DEF FirstStep
  <2>4. \A d \in Calls : Tool(d)' = Tool(d)
    BY <1>1 DEF Tool
  <2> QED BY <1>1, <1>3, <1>4, <2>1, <2>2, <2>3, <2>4 DEF FsInv, FsJobsOK
<1>9. FsSandboxOK'
  <2>1. \A d \in Calls : Plain(d)' <=> Plain(d)
    BY <1>1 DEF Plain, Args
  <2>2. (\A d \in fsLog : Plain(d))' => \A d \in fsLog : Plain(d)
    BY <1>1, <2>1 DEF FsInv, FsCallsOK, GateOK, GateTypeOK
  <2> QED BY <1>1, <1>4, <2>1, <2>2 DEF FsInv, FsSandboxOK
<1>10. FsSerialOK'
  <2> SUFFICES ASSUME ~crossed' PROVE FsSerialOK'
    BY DEF FsSerialOK
  <2>1. ~crossed /\ \A d \in Calls : Changing(d) => ~Clash(c, d)
    BY <1>1 DEF Changing
  <2>2. /\ Changing(c)' <=> Mutates(c)
        /\ ~Changing(c)
        /\ \A d \in Calls : d # c => (Changing(d)' <=> Changing(d))
    BY <1>1 DEF Changing, Mutates, Tool
  <2>3. CASE ~Mutates(c)
    <3>1. serial' = serial
      BY <1>1, <2>3, ReadsLeaveFiles DEF Mutates
    <3> QED BY <1>1, <1>4, <2>1, <2>2, <2>3, <3>1, SerialStays
  <2>4. /\ \A d \in Calls : /\ Tool(d)' = Tool(d) /\ Args(d)' = Args(d) /\ Target(d)' = Target(d)
                            /\ Rewrites(d)' <=> Rewrites(d)
                            /\ \A l \in Places : Concerns(d, l)' <=> Concerns(d, l)
        /\ \A d, e \in Calls : Clash(d, e)' <=> Clash(d, e)
    BY <1>1 DEF Tool, Args, Target, Rewrites, Concerns, Clash, Mutates
  <2>5. ASSUME Mutates(c) PROVE Finished(c)' = AtOnce(files, Tool(c), Args(c))
    <3>1. CASE FirstStep(Tool(c)) \in {"once", "read"}
      BY <1>1, <1>4, <2>4, <3>1 DEF Finished
    <3>2. CASE FirstStep(Tool(c)) = "truncate"
      <4>1. Tool(c) = "write_file"
        BY <3>2 DEF FirstStep
      <4>2. FsAdmits(fsCalled[c].kind, Tool(c), Args(c))
        BY <1>1 DEF FsInv, FsCallsOK
      <4>3. Args(c).path # NoPath
        BY <4>1, <4>2 DEF FsAdmits
      <4>4. Finished(c)' = Written(Lookup(files, Args(c).path), Args(c).text)
        <5>1. /\ job'[c].step = "truncate" /\ job'[c].text = Args(c).text
              /\ files' = files /\ Args(c)' = Args(c)
          BY <1>1, <1>4, <2>4, <3>2
        <5> QED BY <5>1 DEF Finished, Written, Lookup, Openable
      <4> QED BY <4>1, <4>3, <4>4, WriteIs DEF Written
    <3>3. FirstStep(Tool(c)) # "list"
      BY <2>5 DEF FirstStep, Mutates, ReadTools
    <3> QED BY <1>3, <3>1, <3>2, <3>3
  <2>6. CASE Mutates(c) /\ ~Rewrites(c)
    <3>1. \A d \in Calls : ~Changing(d)
      BY <2>1, <2>6 DEF Clash, Changing
    <3>2. files = serial
      BY <2>1, <3>1, QuietIsSerial
    <3>3. \A d \in Calls : Changing(d)' <=> d = c
      BY <2>2, <2>6, <3>1
    <3>4. \A l \in Places : Concerns(c, l)'
      BY <2>4, <2>6 DEF Concerns
    <3>5. serial' = Finished(c)'
      BY <1>1, <2>5, <2>6, <3>2
    <3>6. job'[c].step # "fill"
      BY <1>3, <1>4
    <3> QED BY <3>3, <3>4, <3>5, <3>6 DEF FsSerialOK
  <2>7. CASE Rewrites(c)
    <3> DEFINE new == AtOnce(files, Tool(c), Args(c))
    <3>1. /\ Mutates(c) /\ Tool(c) \in {"write_file", "edit_file"} /\ Args(c).path # NoPath
      <4>1. FsAdmits(fsCalled[c].kind, Tool(c), Args(c))
        BY <1>1 DEF FsInv, FsCallsOK
      <4> QED BY <2>7, <4>1 DEF Rewrites, Mutates, ReadTools, FsAdmits
    <3>2. \A d \in Calls : Changing(d) => d # c /\ Rewrites(d) /\ Target(d) # Target(c)
      BY <2>1, <2>2, <3>1 DEF Clash, Changing, Target
    <3>3. SameDirs(files, serial) /\ SameDirs(serial, files)
      BY <2>1, <3>2, DirsAgree DEF SameDirs
    <3>4. files \in Trees /\ serial \in Trees
      BY DEF FsInv, FsFilesOK
    <3>5. \A l \in Places : l # Target(c) => serial'[l] = serial[l]
      BY <1>1, <3>1, <3>4, WriteIsLocal DEF Target
    <3>6. Target(c) \in Places => serial'[Target(c)] = new[Target(c)]
      <4> SUFFICES ASSUME Target(c) \in Places PROVE serial'[Target(c)] = new[Target(c)]
        OBVIOUS
      <4>1. \A d \in Calls : Changing(d) => ~Concerns(d, Target(c))
        BY <3>2 DEF Concerns
      <4>2. files[Target(c)] = serial[Target(c)]
        BY <2>1, <4>1 DEF FsInv, FsSerialOK
      <4> QED BY <1>1, <3>1, <3>3, <3>4, <4>2, WriteIsLocal
    <3>7. ASSUME NEW d \in Calls, NEW e \in Calls, Changing(d)', Changing(e)', d # e
          PROVE  ~Clash(d, e)'
      <4>1. CASE d # c /\ e # c
        BY <2>1, <2>2, <2>4, <3>7, <4>1 DEF FsInv, FsSerialOK
      <4>2. CASE d = c \/ e = c
        <5>1. Rewrites(d) /\ Rewrites(e) /\ Target(d) # Target(e)
          BY <2>2, <2>7, <3>2, <3>7, <4>2
        <5> QED BY <2>4, <5>1 DEF Clash, Target
      <4> QED BY <4>1, <4>2
    <3>8. ASSUME NEW l \in Places, \A d \in Calls : Changing(d)' => ~Concerns(d, l)'
          PROVE  files'[l] = serial'[l]
      <4>1. l # Target(c)
        BY <2>2, <2>4, <3>1, <3>8 DEF Concerns
      <4>2. \A d \in Calls : Changing(d) => ~Concerns(d, l)
        BY <2>2, <2>4, <3>2, <3>8
      <4>3. files[l] = serial[l]
        BY <2>1, <4>2 DEF FsInv, FsSerialOK
      <4> QED BY <1>1, <3>5, <4>1, <4>3
    <3>9. ASSUME NEW d \in Calls, NEW l \in Places, Changing(d)', Concerns(d, l)'
          PROVE  serial'[l] = Finished(d)'[l]
      <4>1. CASE d = c
        BY <2>4, <2>5, <2>7, <3>1, <3>6, <3>9, <4>1 DEF Concerns
      <4>2. CASE d # c
        <5>1. Changing(d) /\ Concerns(d, l) /\ l = Target(d) /\ l # Target(c)
          BY <2>2, <2>4, <3>2, <3>9, <4>2 DEF Concerns
        <5>2. Finished(d)' = Finished(d)
          <6>1. /\ job'[d] = job[d] /\ files' = files /\ Tool(d)' = Tool(d) /\ Args(d)' = Args(d)
            BY <1>1, <1>4, <2>4, <4>2
          <6> QED BY <6>1 DEF Finished, Filled, Written
        <5> QED BY <2>1, <3>5, <5>1, <5>2 DEF FsInv, FsSerialOK
      <4> QED BY <4>1, <4>2
    <3>10. ASSUME NEW d \in Calls, Changing(d)', job'[d].step = "fill"
           PROVE  job'[d].at = Target(d)' /\ Target(d)' \in Places /\ files'[Target(d)'] = File({})
      <4>1. d # c
        BY <1>3, <1>4, <3>10
      <4> QED BY <1>1, <1>4, <2>1, <2>2, <2>4, <3>10, <4>1 DEF FsInv, FsSerialOK
    <3> QED BY <3>7, <3>8, <3>9, <3>10 DEF FsSerialOK
  <2> QED BY <2>3, <2>6, <2>7
<1> QED BY <1>5, <1>6, <1>7, <1>8, <1>9, <1>10 DEF FsInv

\* A call that runs is one that was made and is admitted.
LEMMA RunningIs ==
    ASSUME FsInv, NEW c \in Calls, phase[c] = "running"
    PROVE  /\ fsCalled[c] \in FsMade /\ Args(c) \in FsArgs /\ c \in fsLog
           /\ FsAdmits(fsCalled[c].kind, Tool(c), Args(c))
           /\ job[c] \in FsJobs
  BY DEF FsInv, FsCallsOK, FsMade, Args, FsJobsOK

\* An open file that a rename moves stays in the sandbox of the call that moves it.
LEMMA FollowedIs ==
    ASSUME FsInv, NEW c \in Calls, phase[c] = "running", NEW d \in Calls
    PROVE  /\ Followed(c, d) \in Seq(Segments) \cup {NoPath}
           /\ job[d].at = NoPath => Followed(c, d) = NoPath
           /\ Tool(c) # "move_file" => Followed(c, d) = job[d].at
           /\ Plain(c) /\ IsPrefix(fsCap.write, job[d].at) /\ Followed(c, d) # NoPath
                /\ fsCap.write # NoPath
              => IsPrefix(fsCap.write, Followed(c, d))
<1> DEFINE from == Lookup(files, Args(c).source)
           to == Lookup(files, Args(c).destination)
           at == job[d].at
<1>1. at \in Seq(Segments) \cup {NoPath}
  BY DEF FsInv, FsJobsOK, FsJobs
<1>2. CASE Tool(c) = "move_file" /\ at # NoPath /\ MayMove(files, from, to) /\ at # to
           /\ IsPrefix(from, at)
  <2>1. from \in Seq(Segments) /\ to \in Seq(Segments) /\ at \in Seq(Segments)
        /\ to \in Places /\ to # NoPath
    BY <1>1, <1>2, LookupIs, PlacesAreWays DEF MayMove
  <2>2. Followed(c, d) = to \o SubSeq(at, Len(from) + 1, Len(at))
    BY <1>2 DEF Followed, Moved
  <2> HIDE DEF at, from
  <2>3. SubSeq(at, Len(from) + 1, Len(at)) \in Seq(Segments)
    BY <2>1
  <2>4. Followed(c, d) \in Seq(Segments)
    BY <2>1, <2>2, <2>3
  <2>5. ASSUME Plain(c), fsCap.write # NoPath PROVE IsPrefix(fsCap.write, Followed(c, d))
    <3>1. fsCap.write \in Seq(Segments) /\ IsPrefix(fsCap.write, to)
      BY <1>2, <2>1, <2>5, AdmittedMove, PlacesAreWays
    <3> QED BY <2>1, <2>2, <2>3, <3>1, PrefixOfLonger
  <2> QED BY <1>2, <2>4, <2>5 DEF at
<1>3. CASE ~(Tool(c) = "move_file" /\ at # NoPath /\ MayMove(files, from, to) /\ at # to
             /\ IsPrefix(from, at))
  <2>1. Followed(c, d) \in {at, NoPath} /\ (Tool(c) # "move_file" => Followed(c, d) = at)
    BY <1>3 DEF Followed, Moved
  <2> QED BY <1>1, <2>1
<1> QED BY <1>2, <1>3

\* What a call shows at once is in the sandbox to read.
LEMMA ShownIs ==
    ASSUME FsInv, NEW c \in Calls, phase[c] = "running", FirstStep(Tool(c)) = "once"
    PROVE  /\ Shown(c) \subseteq Places
           /\ Plain(c) => \A l \in Shown(c) :
                  fsCalled[c].kind = "read" /\ IsPrefix(fsCap.read, l)
<1> DEFINE at == Lookup(files, Args(c).path)
<1>1. ASSUME NEW l \in Shown(c)
      PROVE  /\ ~Mutates(c) /\ Args(c).path # NoPath /\ at # NoPath
             /\ l = at \/ (l \in Places /\ IsPrefix(at, l))
  BY <1>1 DEF Shown, Children
<1>2. at \in Places \cup {NoPath}
  BY LookupIs
<1>3. ASSUME NEW l \in Shown(c), Plain(c)
      PROVE  fsCalled[c].kind = "read" /\ IsPrefix(fsCap.read, l)
  <2>1. Tool(c) \in ReadTools /\ Tool(c) # "move_file" /\ at # NoPath
    BY <1>1, <1>3 DEF Mutates, ReadTools
  <2>2. /\ fsCalled[c].kind = "read" /\ fsCap.read \in Places /\ at \in Places
        /\ IsPrefix(fsCap.read, at)
    BY <1>3, <2>1, AdmittedLookup
  <2>3. CASE l = at
    BY <2>2, <2>3
  <2>4. CASE l \in Places /\ IsPrefix(at, l)
    BY <2>2, <2>4, PrefixGoesOn, PlacesAreWays
  <2> QED BY <1>1, <1>3, <2>2, <2>3, <2>4
<1> QED BY <1>1, <1>2, <1>3

LEMMA FsOnceKeeps ==
    ASSUME FsInv, NEW c \in Calls, FsOnce(c)
    PROVE  FsInv'
<1>1. /\ phase[c] = "running" /\ job[c].step = "once" /\ Settle(c)
      /\ files' = AtOnce(files, Tool(c), Args(c))
      /\ job' = [d \in Calls |-> IF d = c THEN [NoJob EXCEPT !.seen = Shown(c)]
                                 ELSE [job[d] EXCEPT !.at = Followed(c, d)]]
      /\ UNCHANGED <<fsCap, fsCalled, fsLog, serial, crossed>>
  BY DEF FsOnce, At
<1>2. FirstStep(Tool(c)) = "once"
  BY <1>1 DEF FsInv, FsJobsOK
<1>3. files' \in Trees
  BY <1>1, RunningIs, AtOnceKeepsTree DEF FsInv, FsFilesOK
<1>4. /\ job'[c].pending = {} /\ job'[c].seen = Shown(c) /\ job'[c].at = NoPath
      /\ job'[c] \in FsJobs
  <2>1. job'[c] = [NoJob EXCEPT !.seen = Shown(c)]
    BY <1>1
  <2> QED BY <1>1, <1>2, <2>1, ShownIs DEF NoJob, FsJobs, Steps
<1>5. ASSUME NEW d \in Calls, d # c
      PROVE  /\ job'[d] \in FsJobs /\ job'[d].step = job[d].step /\ job'[d].at = Followed(c, d)
             /\ job'[d].pending = job[d].pending /\ job'[d].seen = job[d].seen
             /\ Followed(c, d) = job[d].at => job'[d] = job[d]
  <2>1. job'[d] = [job[d] EXCEPT !.at = Followed(c, d)] /\ job[d] \in FsJobs
    BY <1>1, <1>5 DEF FsInv, FsJobsOK
  <2>2. Followed(c, d) \in Seq(Segments) \cup {NoPath}
    BY <1>1, FollowedIs
  <2> QED BY <2>1, <2>2 DEF FsJobs
<1>6. job' \in [Calls -> FsJobs]
  <2>1. job' = [d \in Calls |-> job'[d]]
    BY <1>1
  <2> QED BY <1>4, <1>5, <2>1
<1>7. \A d \in Calls : d # c => /\ job'[d].step = job[d].step
                                /\ job[d].at = NoPath => job'[d] = job[d]
  BY <1>1, <1>5, FollowedIs
<1>8. Changing(c) /\ ~crossed => /\ \A l \in Places : Concerns(c, l) => files'[l] = serial[l]
                                 /\ ~Rewrites(c)
  <2>1. files' = Finished(c)
    BY <1>1 DEF Finished
  <2> QED BY <1>2, <2>1 DEF FsInv, FsSerialOK, Rewrites, FirstStep
<1>9. ASSUME ~Changing(c)
      PROVE  files' = files /\ \A d \in Calls : d # c => job'[d] = job[d]
  <2>1. Tool(c) \in ReadTools /\ Tool(c) # "move_file"
    BY <1>1, <1>9 DEF Changing, Mutates, ReadTools
  <2>2. files' = files
    BY <1>1, <2>1, ReadsLeaveFiles
  <2>3. \A d \in Calls : Followed(c, d) = job[d].at
    BY <1>1, <2>1, FollowedIs
  <2> QED BY <1>5, <2>2, <2>3
<1>10. FsSandboxOK'
  <2>1. \A d \in Calls : Plain(d)' <=> Plain(d)
    BY <1>1 DEF Plain, Args
  <2>2. ASSUME \A d \in fsLog : Plain(d), NEW d \in Calls, job'[d].at # NoPath
        PROVE  fsCap.write # NoPath /\ IsPrefix(fsCap.write, job'[d].at)
    <3>1. d # c /\ job'[d].at = Followed(c, d) /\ job[d].at # NoPath
      BY <1>1, <1>4, <1>5, <2>2, FollowedIs
    <3>2. fsCap.write # NoPath /\ IsPrefix(fsCap.write, job[d].at) /\ Plain(c)
      BY <1>1, <2>2, <3>1, RunningIs DEF FsInv, FsSandboxOK
    <3> QED BY <1>1, <2>2, <3>1, <3>2, FollowedIs
  <2>3. ASSUME NEW d \in Calls, Plain(d), NEW l \in job'[d].pending \cup job'[d].seen
        PROVE  fsCalled[d].kind = "read" /\ IsPrefix(fsCap.read, l)
    <3>1. CASE d = c
      BY <1>1, <1>2, <1>4, <2>3, <3>1, ShownIs
    <3>2. CASE d # c
      BY <1>5, <2>3, <3>2 DEF FsInv, FsSandboxOK
    <3> QED BY <3>1, <3>2
  <2>4. (\A d \in fsLog : Plain(d))' => \A d \in fsLog : Plain(d)
    BY <1>1, <2>1 DEF FsInv, FsCallsOK, GateOK, GateTypeOK
  <2> QED BY <1>1, <2>1, <2>2, <2>3, <2>4 DEF FsSandboxOK
<1> QED BY <1>1, <1>3, <1>6, <1>7, <1>8, <1>9, <1>10, SettleKeeps

\* The end of a call that leaves everything as it is.
LEMMA LeaveKeeps ==
    ASSUME FsInv, NEW c \in Calls, Settle(c), UNCHANGED fsVars,
           Changing(c) /\ ~crossed => \A l \in Places : Concerns(c, l) => files[l] = serial[l]
    PROVE  FsInv'
<1>1. UNCHANGED <<files, job, fsCap, fsCalled, fsLog, serial, crossed>>
  BY DEF fsVars
<1>2. FsSandboxOK'
  <2>1. \A d \in Calls : Plain(d)' <=> Plain(d)
    BY <1>1 DEF Plain, Args
  <2>2. (\A d \in fsLog : Plain(d))' => \A d \in fsLog : Plain(d)
    BY <1>1, <2>1 DEF FsInv, FsCallsOK, GateOK, GateTypeOK
  <2> QED BY <1>1, <2>1, <2>2 DEF FsInv, FsSandboxOK
<1>3. files' \in Trees /\ job' \in [Calls -> FsJobs]
  BY <1>1 DEF FsInv, FsFilesOK, FsJobsOK
<1>4. (\A d \in Calls : job'[d] = job[d]) /\ OthersStay(c)
  BY <1>1 DEF OthersStay, SameDirs
<1> QED BY <1>1, <1>2, <1>3, <1>4, SettleKeeps

\* A step after which the call goes on.
AtItsStep(c) ==
    CASE job[c].step = "once" -> FirstStep(Tool(c)) = "once"
      [] job[c].step = "read" -> Tool(c) = "edit_file"
      [] job[c].step \in {"truncate", "fill"} -> Tool(c) \in {"write_file", "edit_file"}
      [] job[c].step \in {"list", "stat"} ->
           Tool(c) \in {"directory_tree", "list_directory_with_sizes"}
      [] OTHER -> FALSE

LEMMA GoOnKeeps ==
    ASSUME FsInv, NEW c \in Calls, phase[c] = "running",
           UNCHANGED <<gate, fsCap, fsCalled, fsLog, serial, crossed>>,
           files' \in Trees, NEW next \in FsJobs, job' = [job EXCEPT ![c] = next],
           AtItsStep(c)',
           Changing(c) /\ ~crossed =>
               /\ Rewrites(c) /\ OthersStay(c)
               /\ Target(c) \in Places => serial[Target(c)] = Finished(c)'[Target(c)]
               /\ next.step = "fill" =>
                    next.at = Target(c) /\ Target(c) \in Places /\ files'[Target(c)] = File({}),
           ~Changing(c) => files' = files,
           FsSandboxOK'
    PROVE  FsInv'
<1>1. UNCHANGED <<phase, receipt, ran>>
  BY DEF gate
<1>2. GateOK' /\ FsFilesOK' /\ FsCallsOK'
  BY <1>1 DEF FsInv, GateOK, GateTypeOK, Gated, FsFilesOK, FsCallsOK, FsAdmits, Tool, Args
<1>3. \A d \in Calls : d # c => job'[d] = job[d]
  BY DEF FsInv, FsJobsOK
<1>4. FsJobsOK'
  <2>1. job' \in [Calls -> FsJobs]
    BY DEF FsInv, FsJobsOK
  <2>2. \A d \in Calls : phase'[d] \in {"idle", "decided"} => job'[d] = NoJob
    BY <1>1, <1>3 DEF FsInv, FsJobsOK
  <2>3. ASSUME NEW d \in Calls, phase'[d] = "running" PROVE AtItsStep(d)'
    <3>1. CASE d # c
      <4>1. AtItsStep(d)
        BY <1>1, <2>3 DEF FsInv, FsJobsOK, AtItsStep
      <4>2. Tool(d)' = Tool(d) /\ job'[d] = job[d]
        BY <1>3, <3>1 DEF Tool
      <4> QED BY <4>1, <4>2 DEF AtItsStep
    <3> QED BY <3>1
  <2> QED BY <2>1, <2>2, <2>3 DEF FsJobsOK, AtItsStep
<1>5. FsSerialOK'
  <2>1. \A d \in Calls : Changing(d)' <=> Changing(d)
    BY <1>1 DEF Changing, Mutates, Tool
  <2>2. CASE Changing(c) /\ ~crossed
    <3>1. job'[c] = next
      BY DEF FsInv, FsJobsOK
    <3> QED BY <1>1, <2>2, <3>1, RewriteKeepsSerial
  <2>3. CASE ~Changing(c)
    BY <1>3, <2>1, <2>3, SerialStays
  <2> QED BY <2>2, <2>3 DEF FsSerialOK
<1> QED BY <1>2, <1>4, <1>5 DEF FsInv

\* The tools that look at one file or directory were called with its path.
LEMMA PathIsThere ==
    ASSUME FsInv, NEW c \in Calls, phase[c] = "running", Tool(c) # "move_file"
    PROVE  Args(c).path # NoPath
  BY RunningIs DEF FsAdmits

LEMMA FsReadKeeps ==
    ASSUME FsInv, NEW c \in Calls, FsRead(c)
    PROVE  FsInv'
<1> DEFINE at == Lookup(files, Args(c).path)
           text == Edited(files[at].text, Args(c))
<1>1. /\ phase[c] = "running" /\ job[c].step = "read"
      /\ UNCHANGED <<fsCap, files, fsCalled, fsLog, serial, crossed>>
  BY DEF FsRead, At
<1>2. Tool(c) = "edit_file" /\ Args(c).path # NoPath
  <2>1. Tool(c) = "edit_file"
    BY <1>1 DEF FsInv, FsJobsOK
  <2> QED BY <1>1, <2>1, PathIsThere
<1>3. Rewrites(c) /\ \A l \in Places : Concerns(c, l) <=> l = Target(c)
  BY <1>2 DEF Rewrites, Concerns
<1>9. ~crossed /\ Changing(c) /\ Target(c) \in Places =>
          serial[Target(c)] = AtOnce(files, "edit_file", Args(c))[Target(c)]
  BY <1>1, <1>2, <1>3 DEF FsInv, FsSerialOK, Finished
<1>4. AtOnce(files, "edit_file", Args(c)) =
          IF Openable(files, at) /\ files[at] # None
          THEN [files EXCEPT ![at] = File(text)] ELSE files
  BY <1>2, EditIs
<1>5. at \in Places \cup {NoPath}
  BY LookupIs
<1> HIDE DEF at, text
<1>6. at # NoPath => (files[at].kind = "file" <=> files[at] # Dir /\ files[at] # None)
  <2> SUFFICES ASSUME at # NoPath
               PROVE  files[at].kind = "file" <=> files[at] # Dir /\ files[at] # None
    OBVIOUS
  <2>1. files[at] \in FsNodes
    BY <1>5 DEF FsInv, FsFilesOK, Trees
  <2>2. Dir.kind = "dir" /\ None.kind = "none" /\ \A words : File(words).kind = "file"
    BY DEF Dir, None, File
  <2> QED BY <2>1, <2>2 DEF FsNodes
<1>7. CASE at # NoPath /\ files[at].kind = "file"
  <2>1. UNCHANGED gate /\ job' = [job EXCEPT ![c].step = "truncate", ![c].text = text]
    BY <1>7 DEF FsRead, at, text
  <2>2. text \in SUBSET FsWords
    <3>1. files[at] \in FsNodes /\ files[at] \notin {Dir, None}
      BY <1>5, <1>6, <1>7 DEF FsInv, FsFilesOK, Trees
    <3>2. files[at].text \in SUBSET FsWords
      BY <3>1 DEF FsNodes, File
    <3> QED BY <1>1, <3>2, EditedIsText, RunningIs DEF text
  <2> DEFINE next == [job[c] EXCEPT !.step = "truncate", !.text = text]
  <2>3. next \in FsJobs /\ next.step = "truncate" /\ next.text = text /\ next.at = job[c].at
        /\ next.pending = job[c].pending /\ next.seen = job[c].seen
    BY <1>1, <2>2, RunningIs DEF FsJobs, Steps
  <2>4. job' = [job EXCEPT ![c] = next]
    BY <2>1 DEF FsInv, FsJobsOK
  <2> HIDE DEF next
  <2>5. job'[c] = next /\ \A d \in Calls : d # c => job'[d] = job[d]
    BY <2>4 DEF FsInv, FsJobsOK
  <2>6. AtItsStep(c)'
    <3>1. job'[c].step = "truncate" /\ Tool(c)' = "edit_file"
      BY <1>1, <1>2, <2>3, <2>5 DEF Tool
    <3> QED BY <3>1 DEF AtItsStep
  <2>7. Changing(c) /\ ~crossed /\ Target(c) \in Places =>
            serial[Target(c)] = Finished(c)'[Target(c)]
    <3>1. job'[c].step = "truncate" /\ job'[c].text = text /\ files' = files /\ Args(c)' = Args(c)
      BY <1>1, <2>3, <2>5 DEF Args
    <3>2. Lookup(files, Args(c).path)' = at
      BY <3>1 DEF at, Lookup
    <3>3. Finished(c)' = Written(at, text)
      BY <3>1, <3>2 DEF Finished, Written, Openable
    <3>4. Openable(files, at) /\ files[at] # None
      BY <1>6, <1>7 DEF Openable
    <3> QED BY <1>4, <1>9, <3>3, <3>4 DEF Written
  <2>10. OthersStay(c)
    BY <1>1, <2>5 DEF OthersStay, SameDirs
  <2>8. FsSandboxOK'
    <3>1. \A d \in Calls : Plain(d)' <=> Plain(d)
      BY <1>1 DEF Plain, Args
    <3>2. (\A d \in fsLog : Plain(d))' => \A d \in fsLog : Plain(d)
      BY <1>1, <3>1 DEF FsInv, FsCallsOK, GateOK, GateTypeOK
    <3>3. \A d \in Calls : job'[d].at = job[d].at /\ job'[d].pending = job[d].pending
                           /\ job'[d].seen = job[d].seen
      BY <2>3, <2>5
    <3> QED BY <1>1, <3>1, <3>2, <3>3 DEF FsInv, FsSandboxOK
  <2>9. files' \in Trees
    BY <1>1 DEF FsInv, FsFilesOK
  <2> QED BY <1>1, <1>3, <2>1, <2>3, <2>4, <2>6, <2>7, <2>8, <2>9, <2>10, GoOnKeeps
<1>8. CASE ~(at # NoPath /\ files[at].kind = "file")
  <2>1. Settle(c) /\ UNCHANGED job
    BY <1>8 DEF FsRead, at
  <2>2. ~(Openable(files, at) /\ files[at] # None)
    BY <1>6, <1>8 DEF Openable
  <2> QED BY <1>1, <1>3, <1>4, <1>9, <2>1, <2>2, LeaveKeeps DEF fsVars
<1> QED BY <1>7, <1>8

LEMMA SandboxKeeps ==
    ASSUME FsInv, NEW c \in Calls, UNCHANGED <<fsCap, fsCalled, fsLog>>,
           NEW next, job' = [job EXCEPT ![c] = next],
           (\A d \in fsLog : Plain(d)) /\ next.at # NoPath =>
               fsCap.write # NoPath /\ IsPrefix(fsCap.write, next.at),
           Plain(c) => \A l \in next.pending \cup next.seen :
               fsCalled[c].kind = "read" /\ IsPrefix(fsCap.read, l)
    PROVE  FsSandboxOK'
<1>1. \A d \in Calls : Plain(d)' <=> Plain(d)
  BY DEF Plain, Args
<1>2. (\A d \in fsLog : Plain(d))' => \A d \in fsLog : Plain(d)
  BY <1>1 DEF FsInv, FsCallsOK, GateOK, GateTypeOK
<1>3. job'[c] = next /\ \A d \in Calls : d # c => job'[d] = job[d]
  BY DEF FsInv, FsJobsOK
<1>4. ASSUME \A d \in fsLog : Plain(d), NEW d \in Calls, job'[d].at # NoPath
      PROVE  fsCap.write # NoPath /\ IsPrefix(fsCap.write, job'[d].at)
  <2>1. CASE d = c
    BY <1>3, <1>4, <2>1
  <2>2. CASE d # c
    BY <1>3, <1>4, <2>2 DEF FsInv, FsSandboxOK
  <2> QED BY <2>1, <2>2
<1>5. ASSUME NEW d \in Calls, Plain(d), NEW l \in job'[d].pending \cup job'[d].seen
      PROVE  fsCalled[d].kind = "read" /\ IsPrefix(fsCap.read, l)
  <2>1. CASE d = c
    BY <1>3, <1>5, <2>1
  <2>2. CASE d # c
    BY <1>3, <1>5, <2>2 DEF FsInv, FsSandboxOK
  <2> QED BY <2>1, <2>2
<1> QED BY <1>1, <1>2, <1>4, <1>5 DEF FsSandboxOK

LEMMA FsTruncateKeeps ==
    ASSUME FsInv, NEW c \in Calls, FsTruncate(c)
    PROVE  FsInv'
<1> DEFINE at == Lookup(files, Args(c).path)
<1>1. /\ phase[c] = "running" /\ job[c].step = "truncate"
      /\ UNCHANGED <<fsCap, fsCalled, fsLog, serial, crossed>>
  BY DEF FsTruncate, At
<1>2. Tool(c) \in {"write_file", "edit_file"} /\ Args(c).path # NoPath
  <2>1. Tool(c) \in {"write_file", "edit_file"}
    BY <1>1 DEF FsInv, FsJobsOK
  <2> QED BY <1>1, <2>1, PathIsThere
<1>3. Rewrites(c) /\ (\A l \in Places : Concerns(c, l) <=> l = Target(c)) /\ Changing(c)
  BY <1>1, <1>2 DEF Rewrites, Concerns, Changing, Mutates, ReadTools
<1>4. ~crossed /\ Target(c) \in Places =>
          serial[Target(c)] = Written(at, job[c].text)[Target(c)]
  BY <1>1, <1>3 DEF FsInv, FsSerialOK, Finished
<1>5. at \in Places \cup {NoPath} /\ (at # NoPath => at = Target(c))
  BY LookupIs DEF Target
<1> HIDE DEF at
<1>6. CASE Openable(files, at)
  <2>1. /\ UNCHANGED gate /\ files' = [files EXCEPT ![at] = File({})]
        /\ job' = [job EXCEPT ![c].step = "fill", ![c].at = at]
    BY <1>6 DEF FsTruncate, at
  <2>2. at \in Places /\ at # NoPath /\ at \in Seq(Segments)
    BY <1>5, <1>6, PlacesAreWays DEF Openable
  <2> DEFINE next == [job[c] EXCEPT !.step = "fill", !.at = at]
  <2>3. next \in FsJobs /\ next.step = "fill" /\ next.text = job[c].text /\ next.at = at
        /\ next.pending = job[c].pending /\ next.seen = job[c].seen
    BY <1>1, <2>2, RunningIs DEF FsJobs, Steps
  <2>4. job' = [job EXCEPT ![c] = next]
    BY <2>1 DEF FsInv, FsJobsOK
  <2> HIDE DEF next
  <2>5. job'[c] = next
    BY <2>4 DEF FsInv, FsJobsOK
  <2>6. AtItsStep(c)'
    <3>1. job'[c].step = "fill" /\ Tool(c)' \in {"write_file", "edit_file"}
      BY <1>1, <1>2, <2>3, <2>5 DEF Tool
    <3> QED BY <3>1 DEF AtItsStep
  <2>7. ~crossed => serial[Target(c)] = Finished(c)'[Target(c)]
    <3>1. job'[c].step = "fill" /\ job'[c].text = job[c].text /\ job'[c].at = at
      BY <2>3, <2>5
    <3>2. Finished(c)' = [files' EXCEPT ![at] = File(job[c].text)]
      BY <2>2, <3>1 DEF Finished, Filled
    <3>3. [files' EXCEPT ![at] = File(job[c].text)] = [files EXCEPT ![at] = File(job[c].text)]
      BY <2>1
    <3> QED BY <1>4, <1>5, <1>6, <2>2, <3>2, <3>3 DEF Written
  <2>10. OthersStay(c) /\ files'[Target(c)] = File({})
    <3>1. File({}) # Dir /\ files[at] # Dir /\ files \in Trees
      BY <1>6 DEF File, Dir, Openable, FsInv, FsFilesOK
    <3>2. \A d \in Calls : d # c => job'[d] = job[d]
      BY <2>4 DEF FsInv, FsJobsOK
    <3> QED BY <1>5, <2>1, <2>2, <3>1, <3>2 DEF OthersStay, SameDirs, Trees
  <2>8. FsSandboxOK'
    <3>1. (\A d \in fsLog : Plain(d)) => fsCap.write # NoPath /\ IsPrefix(fsCap.write, at)
      <4> SUFFICES ASSUME \A d \in fsLog : Plain(d)
                   PROVE  fsCap.write # NoPath /\ IsPrefix(fsCap.write, at)
        OBVIOUS
      <4>1. Plain(c) /\ Tool(c) # "move_file" /\ Tool(c) \notin ReadTools
        BY <1>1, <1>2, RunningIs DEF ReadTools
      <4> QED BY <1>1, <2>2, <4>1, AdmittedLookup, PlacesAreWays DEF at
    <3>2. Plain(c) => \A l \in next.pending \cup next.seen :
              fsCalled[c].kind = "read" /\ IsPrefix(fsCap.read, l)
      BY <2>3 DEF FsInv, FsSandboxOK
    <3> QED BY <1>1, <2>3, <2>4, <3>1, <3>2, SandboxKeeps
  <2>9. files' \in Trees
    <3>1. File({}) \in FsNodes
      BY DEF FsNodes
    <3> QED BY <2>1, <3>1 DEF FsInv, FsFilesOK, Trees
  <2> QED BY <1>1, <1>3, <1>5, <2>1, <2>2, <2>3, <2>4, <2>6, <2>7, <2>8, <2>9, <2>10, GoOnKeeps
<1>7. CASE ~Openable(files, at)
  <2>1. Settle(c) /\ UNCHANGED <<files, job>>
    BY <1>7 DEF FsTruncate, at
  <2>2. ~crossed => \A l \in Places : Concerns(c, l) => files[l] = serial[l]
    BY <1>3, <1>4, <1>7 DEF Written
  <2> QED BY <1>1, <2>1, <2>2, LeaveKeeps DEF fsVars
<1> QED BY <1>6, <1>7

LEMMA FsFillKeeps ==
    ASSUME FsInv, NEW c \in Calls, FsFill(c)
    PROVE  FsInv'
<1> DEFINE at == job[c].at
<1>1. /\ phase[c] = "running" /\ job[c].step = "fill" /\ Settle(c)
      /\ UNCHANGED <<fsCap, fsCalled, fsLog, job, serial, crossed>>
  BY DEF FsFill, At
<1>2. PICK rest \in SUBSET TextOf(files[at]) : files' = Filled(at, job[c].text \cup rest)
  BY DEF FsFill, Filled
<1>3. Rewrites(c) /\ (\A l \in Places : Concerns(c, l) <=> l = Target(c)) /\ Changing(c)
  <2>1. Tool(c) \in {"write_file", "edit_file"}
    BY <1>1 DEF FsInv, FsJobsOK
  <2> QED BY <1>1, <2>1 DEF Rewrites, Concerns, Changing, Mutates, ReadTools
<1>4. files' \in Trees
  <2>1. CASE at \in Places
    <3>1. files[at] \in FsNodes
      BY <2>1 DEF FsInv, FsFilesOK, Trees
    <3>2. TextOf(files[at]) \subseteq FsWords
      <4>1. CASE files[at] \in {Dir, None}
        <5>1. Dir.kind # "file" /\ None.kind # "file"
          BY DEF Dir, None
        <5> QED BY <4>1, <5>1 DEF TextOf
      <4>2. ASSUME NEW text \in SUBSET FsWords, files[at] = File(text)
            PROVE  TextOf(files[at]) \subseteq FsWords
        BY <4>2 DEF TextOf, File
      <4> QED BY <3>1, <4>1, <4>2 DEF FsNodes
    <3>3. File(job[c].text \cup rest) \in FsNodes
      BY <1>1, <3>2, RunningIs DEF FsJobs, FsNodes
    <3> QED BY <1>2, <3>3 DEF Filled, FsInv, FsFilesOK, Trees
  <2>2. CASE at \notin Places
    BY <1>2, <2>2 DEF Filled, FsInv, FsFilesOK, Trees
  <2> QED BY <2>1, <2>2
<1>5. FsSandboxOK'
  <2>1. \A d \in Calls : Plain(d)' <=> Plain(d)
    BY <1>1 DEF Plain, Args
  <2>2. (\A d \in fsLog : Plain(d))' => \A d \in fsLog : Plain(d)
    BY <1>1, <2>1 DEF FsInv, FsCallsOK, GateOK, GateTypeOK
  <2> QED BY <1>1, <2>1, <2>2 DEF FsInv, FsSandboxOK
<1>6. job' \in [Calls -> FsJobs] /\ \A d \in Calls : job'[d] = job[d]
  BY <1>1 DEF FsInv, FsJobsOK
<1>7. ASSUME ~crossed
      PROVE  /\ \A l \in Places : Concerns(c, l) => files'[l] = serial[l]
             /\ OthersStay(c)
  <2>1. at = Target(c) /\ at \in Places /\ files[at] = File({}) /\ at # NoPath
    BY <1>1, <1>3, <1>7, PlacesAreWays DEF FsInv, FsSerialOK
  <2>2. rest = {}
    BY <1>2, <2>1 DEF TextOf, File
  <2>3. files' = Filled(at, job[c].text)
    BY <1>2, <2>2
  <2>4. serial[at] = Filled(at, job[c].text)[at]
    BY <1>1, <1>3, <1>7, <2>1 DEF FsInv, FsSerialOK, Finished
  <2>5. files \in Trees /\ \A text : File(text) # Dir
    BY DEF FsInv, FsFilesOK, File, Dir
  <2>6. files' = [files EXCEPT ![at] = File(job[c].text)]
    BY <2>1, <2>3 DEF Filled
  <2>7. OthersStay(c)
    BY <1>6, <2>1, <2>5, <2>6 DEF OthersStay, SameDirs, Trees
  <2> QED BY <1>3, <2>1, <2>3, <2>4, <2>7
<1> QED BY <1>1, <1>3, <1>4, <1>5, <1>6, <1>7, SettleKeeps

\* A listing or a walk that settles has changed nothing.
LEMMA WalksChangeNothing ==
    ASSUME FsInv, NEW c \in Calls, phase[c] = "running", job[c].step \in {"list", "stat"}
    PROVE  Tool(c) \in ReadTools /\ Tool(c) # "move_file" /\ ~Changing(c)
           /\ Tool(c) \in {"directory_tree", "list_directory_with_sizes"}
<1>1. Tool(c) \in {"directory_tree", "list_directory_with_sizes"}
  BY DEF FsInv, FsJobsOK
<1> QED BY <1>1 DEF ReadTools, Changing, Mutates

LEMMA FsListKeeps ==
    ASSUME FsInv, NEW c \in Calls, FsList(c)
    PROVE  FsInv'
<1> DEFINE at == Lookup(files, Args(c).path)
           tree == Tool(c) = "directory_tree"
           found == at # NoPath /\ (files[at] = Dir \/ (tree /\ files[at] # None))
           first == IF tree THEN {at} ELSE Children(files, at)
<1>1. /\ phase[c] = "running" /\ job[c].step = "list"
      /\ UNCHANGED <<fsCap, files, fsCalled, fsLog, serial, crossed>>
  BY DEF FsList, At
<1>2. Tool(c) \in ReadTools /\ Tool(c) # "move_file" /\ ~Changing(c)
  BY <1>1, WalksChangeNothing
<1>3. CASE found
  <2>1. UNCHANGED gate /\ job' = [job EXCEPT ![c].step = "stat", ![c].pending = first]
    BY <1>3 DEF FsList
  <2>2. at \in Places /\ at # NoPath
    BY <1>3, LookupIs
  <2>3. first \subseteq Places /\ \A l \in first : l = at \/ IsPrefix(at, l)
    BY <2>2 DEF Children
  <2> HIDE DEF first, tree, found
  <2> DEFINE next == [job[c] EXCEPT !.step = "stat", !.pending = first]
  <2>4. next \in FsJobs /\ next.step = "stat" /\ next.at = job[c].at
        /\ next.pending = first /\ next.seen = job[c].seen
    BY <1>1, <2>3, RunningIs DEF FsJobs, Steps
  <2>5. job' = [job EXCEPT ![c] = next]
    BY <2>1 DEF FsInv, FsJobsOK
  <2> HIDE DEF next
  <2>6. job'[c] = next
    BY <2>5 DEF FsInv, FsJobsOK
  <2>7. AtItsStep(c)'
    <3>1. job'[c].step = "stat" /\ Tool(c)' \in {"directory_tree", "list_directory_with_sizes"}
      BY <1>1, <2>4, <2>6, WalksChangeNothing DEF Tool
    <3> QED BY <3>1 DEF AtItsStep
  <2>8. FsSandboxOK'
    <3>1. ASSUME Plain(c), NEW l \in first
          PROVE  fsCalled[c].kind = "read" /\ IsPrefix(fsCap.read, l)
      <4>1. fsCalled[c].kind = "read" /\ fsCap.read \in Places /\ IsPrefix(fsCap.read, at)
        BY <1>1, <1>2, <2>2, <3>1, AdmittedLookup
      <4> QED BY <2>2, <2>3, <3>1, <4>1, PrefixGoesOn, PlacesAreWays
    <3>2. Plain(c) => \A l \in next.seen : fsCalled[c].kind = "read" /\ IsPrefix(fsCap.read, l)
      BY <2>4 DEF FsInv, FsSandboxOK
    <3>3. (\A d \in fsLog : Plain(d)) /\ next.at # NoPath =>
              fsCap.write # NoPath /\ IsPrefix(fsCap.write, next.at)
      BY <2>4 DEF FsInv, FsSandboxOK
    <3> QED BY <1>1, <2>4, <2>5, <3>1, <3>2, <3>3, SandboxKeeps
  <2>9. files' \in Trees
    BY <1>1 DEF FsInv, FsFilesOK
  <2> QED BY <1>1, <1>2, <2>1, <2>4, <2>5, <2>7, <2>8, <2>9, GoOnKeeps
<1>4. CASE ~found
  <2>1. Settle(c) /\ UNCHANGED job
    BY <1>4 DEF FsList
  <2> QED BY <1>1, <1>2, <2>1, LeaveKeeps DEF fsVars
<1> QED BY <1>3, <1>4

LEMMA FsStatKeeps ==
    ASSUME FsInv, NEW c \in Calls, NEW l \in Places, FsStat(c, l)
    PROVE  FsInv'
<1> DEFINE below == IF Tool(c) = "directory_tree" /\ files[l] = Dir
                    THEN Children(files, l) ELSE {}
           next == [job[c] EXCEPT !.pending = (job[c].pending \ {l}) \cup below,
                                  !.seen = job[c].seen \cup {l}]
<1>1. /\ phase[c] = "running" /\ job[c].step = "stat" /\ l \in job[c].pending
      /\ UNCHANGED <<gate, fsCap, files, fsCalled, fsLog, serial, crossed>>
  BY DEF FsStat, At
<1>2. Tool(c) \in ReadTools /\ ~Changing(c)
  BY <1>1, WalksChangeNothing
<1>3. below \subseteq Places /\ \A m \in below : IsPrefix(l, m)
  BY DEF Children
<1>4. job' = [job EXCEPT ![c] = next]
  <2>1. job' = [job EXCEPT ![c].pending = (@ \ {l}) \cup below, ![c].seen = @ \cup {l}]
    BY DEF FsStat
  <2> HIDE DEF below
  <2> QED BY <2>1 DEF FsInv, FsJobsOK
<1> HIDE DEF below
<1>5. next \in FsJobs /\ next.step = "stat" /\ next.at = job[c].at
      /\ next.pending \cup next.seen \subseteq job[c].pending \cup below \cup job[c].seen
  BY <1>1, <1>3, RunningIs DEF FsJobs, Steps
<1> HIDE DEF next
<1>6. job'[c] = next
  BY <1>4 DEF FsInv, FsJobsOK
<1>7. AtItsStep(c)'
  <2>1. job'[c].step = "stat" /\ Tool(c)' \in {"directory_tree", "list_directory_with_sizes"}
    BY <1>1, <1>5, <1>6, WalksChangeNothing DEF Tool
  <2> QED BY <2>1 DEF AtItsStep
<1>8. FsSandboxOK'
  <2>1. ASSUME Plain(c), NEW m \in next.pending \cup next.seen
        PROVE  fsCalled[c].kind = "read" /\ IsPrefix(fsCap.read, m)
    <3>1. \A n \in job[c].pending \cup job[c].seen :
              fsCalled[c].kind = "read" /\ IsPrefix(fsCap.read, n)
      BY <2>1 DEF FsInv, FsSandboxOK
    <3>2. fsCap.read \in Places
      <4>1. fsCalled[c].kind = "read" /\ fsCap[fsCalled[c].kind] # NoPath
        BY <1>1, <3>1 DEF FsInv, FsCallsOK
      <4> QED BY <4>1 DEF FsInv, FsCallsOK, Kinds
    <3>3. CASE m \in below
      <4>1. l \in Seq(Segments) /\ m \in Seq(Segments) /\ fsCap.read \in Seq(Segments)
        BY <1>3, <3>2, <3>3, PlacesAreWays
      <4>2. IsPrefix(fsCap.read, l) /\ IsPrefix(l, m) /\ fsCalled[c].kind = "read"
        BY <1>1, <1>3, <3>1, <3>3
      <4> QED BY <4>1, <4>2, PrefixGoesOn
    <3>4. CASE m \notin below
      BY <1>5, <2>1, <3>1, <3>4
    <3> QED BY <3>3, <3>4
  <2>2. (\A d \in fsLog : Plain(d)) /\ next.at # NoPath =>
            fsCap.write # NoPath /\ IsPrefix(fsCap.write, next.at)
    BY <1>5 DEF FsInv, FsSandboxOK
  <2> QED BY <1>1, <1>4, <2>1, <2>2, SandboxKeeps
<1>9. files' \in Trees
  BY <1>1 DEF FsInv, FsFilesOK
<1> QED BY <1>1, <1>2, <1>4, <1>5, <1>7, <1>8, <1>9, GoOnKeeps

LEMMA FsRefuseKeeps ==
    ASSUME FsInv, NEW c \in Calls, FsRefuse(c)
    PROVE  FsInv'
<1>1. /\ phase[c] = "decided" /\ phase'[c] = "settled" /\ UNCHANGED <<receipt, ran>>
      /\ UNCHANGED <<files, job, fsCap, fsCalled, fsLog, serial, crossed>>
      /\ \A d \in Calls : d # c => phase'[d] = phase[d]
  BY DEF FsRefuse, Refuse, Move, FsInv, GateOK, GateTypeOK, fsVars
<1>2. GateOK'
  BY OthersKeepGate DEF FsRefuse, FsInv
<1>3. FsFilesOK' /\ FsCallsOK'
  BY <1>1 DEF FsInv, FsFilesOK, FsCallsOK, FsAdmits, Tool, Args
<1>4. FsJobsOK'
  <2>1. \A d \in Calls : phase'[d] = "running" => phase[d] = "running" /\ Tool(d)' = Tool(d)
    BY <1>1 DEF Tool
  <2>2. \A d \in Calls : phase'[d] \in {"idle", "decided"} => job'[d] = NoJob
    BY <1>1 DEF FsInv, FsJobsOK, NoJob
  <2> QED BY <1>1, <2>1, <2>2 DEF FsInv, FsJobsOK
<1>5. FsSandboxOK'
  <2>1. \A d \in Calls : Plain(d)' <=> Plain(d)
    BY <1>1 DEF Plain, Args
  <2>2. (\A d \in fsLog : Plain(d))' => \A d \in fsLog : Plain(d)
    BY <1>1, <2>1 DEF FsInv, FsCallsOK, GateOK, GateTypeOK
  <2> QED BY <1>1, <2>1, <2>2 DEF FsInv, FsSandboxOK
<1>6. FsSerialOK'
  <2>1. \A d \in Calls : Changing(d)' <=> Changing(d)
    BY <1>1 DEF Changing, Mutates, Tool
  <2> QED BY <1>1, <2>1, SerialStays
<1> QED BY <1>2, <1>3, <1>4, <1>5, <1>6 DEF FsInv

LEMMA FsStepKeeps == FsInv /\ [FsNext]_<<gate, fsVars>> => FsInv'
<1> SUFFICES ASSUME FsInv, [FsNext]_<<gate, fsVars>> PROVE FsInv'
  OBVIOUS
<1>1. CASE UNCHANGED <<gate, fsVars>>
  <2>1. UNCHANGED <<phase, receipt, ran, fsCap, files, fsCalled, fsLog, job, serial, crossed>>
    BY <1>1 DEF gate, fsVars
  <2>2. GateOK' /\ FsFilesOK' /\ FsCallsOK' /\ FsJobsOK'
    BY <2>1 DEF FsInv, GateOK, GateTypeOK, Gated, FsFilesOK, FsCallsOK, FsAdmits, FsJobsOK,
                Tool, Args
  <2>3. FsSandboxOK'
    BY <2>1 DEF FsInv, FsSandboxOK, Plain, Args
  <2>4. FsSerialOK'
    <3>1. \A c \in Calls : Changing(c)' <=> Changing(c)
      BY <2>1 DEF Changing, Mutates, Tool
    <3> QED BY <2>1, <3>1, SerialStays
  <2> QED BY <2>2, <2>3, <2>4 DEF FsInv
<1>2. CASE \E kind \in Kinds, prefix \in Sandboxes : IssueSandbox(kind, prefix)
  BY <1>2, IssueKeepsFs
<1>3. ASSUME NEW c \in Calls, NEW kind \in Kinds, NEW call \in FsMenu,
             FsCall(c, kind, call.tool, call.args)
      PROVE  FsInv'
  BY <1>3, FsCallKeeps
<1>4. ASSUME NEW c \in Calls, FsStep(c) PROVE FsInv'
  <2>1. CASE FsListed(c)
    <3>1. phase[c] = "running" /\ job[c].step = "stat" /\ Settle(c) /\ UNCHANGED fsVars
      BY <2>1 DEF FsListed, At
    <3> QED BY <3>1, WalksChangeNothing, LeaveKeeps
  <2>2. CASE \E l \in Places : FsStat(c, l)
    BY <2>2, FsStatKeeps
  <2> QED BY <1>4, <2>1, <2>2, FsStartKeeps, FsRefuseKeeps, FsOnceKeeps, FsReadKeeps,
             FsTruncateKeeps, FsFillKeeps, FsListKeeps DEF FsStep
<1> QED BY <1>1, <1>2, <1>3, <1>4 DEF FsNext

LEMMA FsInvariance == FsSpec => []FsInv
  BY FsInitHolds, FsStepKeeps, PTL DEF FsSpec

\* The jobs, the files and the calls are what they are declared to be, for any file
\* system, any calls and any number of them at the same time.
THEOREM FsTypeCorrect == FsSpec => []FsTypeOK
<1>1. FsInv => FsTypeOK
  <2> SUFFICES ASSUME FsInv PROVE FsTypeOK
    OBVIOUS
  <2>1. /\ fsCap \in [Kinds -> Places \cup {NoPath}] /\ DOMAIN files = Places
        /\ DOMAIN serial = Places /\ fsLog \subseteq ran
    BY DEF FsInv, FsCallsOK, FsFilesOK, Trees
  <2>2. \A l \in Places : IsNode(files[l]) /\ IsNode(serial[l])
    <3>1. \A l \in Places : files[l] \in FsNodes /\ serial[l] \in FsNodes
      BY DEF FsInv, FsFilesOK, Trees
    <3> QED BY <3>1, NodesAre
  <2>3. \A c \in Calls : fsCalled[c] = NoPath \/ (fsCalled[c].kind \in Kinds
                             /\ [tool |-> Tool(c), args |-> Args(c)] \in FsMenu)
    BY DEF FsInv, FsCallsOK, FsMade
  <2>4. \A c \in Calls : /\ job[c].step \in Steps /\ job[c].at \in Seq(Segments) \cup {NoPath}
                         /\ job[c].pending \cup job[c].seen \subseteq Places
    BY DEF FsInv, FsJobsOK, FsJobs
  <2> QED BY <2>1, <2>2, <2>3, <2>4 DEF FsTypeOK, Steps, Segments
<1> QED BY <1>1, FsInvariance, PTL

\* For any file system and any number of calls at work at the same time: when none is,
\* the files are what each call, as one operation, makes of them in the order they
\* began, unless two rewrote the same file at once or one made or moved directories.
THEOREM FilesAreSerial == FsSpec => []SerialUnlessCrossed
<1>1. FsInv => SerialUnlessCrossed
  BY QuietIsSerial DEF SerialUnlessCrossed, Changing
<1> QED BY <1>1, FsInvariance, PTL

LEMMA GrantedOnce ==
    ASSUME FsInv, NEW c \in Calls, FsOnce(c)
    PROVE  ChangesAreGranted
<1> SUFFICES ASSUME NEW l \in Places, files'[l] # files[l], \A d \in fsLog : Plain(d)
             PROVE  /\ fsCap.write # NoPath
                    /\ \/ IsPrefix(fsCap.write, l)
                       \/ IsPrefix(l, fsCap.write) /\ files[l] = None /\ files'[l] = Dir
                    /\ files'[l] = None => \E d \in Calls : phase[d] = "running" /\ Tool(d) = "move_file"
  BY DEF ChangesAreGranted
<1> DEFINE from == Lookup(files, Args(c).source)
           to == Lookup(files, Args(c).destination)
           new == Resolve(Args(c).path)
<1>1. /\ phase[c] = "running" /\ job[c].step = "once"
      /\ files' = AtOnce(files, Tool(c), Args(c))
  BY DEF FsOnce, At
<1>2. /\ FsAdmits(fsCalled[c].kind, Tool(c), Args(c)) /\ Plain(c)
      /\ fsCalled[c].kind \in Kinds /\ fsCap[fsCalled[c].kind] \in Places
      /\ FirstStep(Tool(c)) = "once"
  BY <1>1, RunningIs DEF FsInv, FsCallsOK, FsJobsOK, FsMade
<1>3. /\ Tool(c) \in ReadTools \cup {"create_directory", "move_file"}
      /\ fsCalled[c].kind = "read" => Tool(c) \in ReadTools
  BY <1>2 DEF FsAdmits, FirstStep, ReadTools, WriteTools
<1>4. Tool(c) \notin ReadTools /\ fsCalled[c].kind = "write" /\ fsCap.write \in Places
      /\ fsCap.write # NoPath
  BY <1>1, <1>2, <1>3, ReadsLeaveFiles, PlacesAreWays DEF Kinds
<1>5. CASE Tool(c) = "create_directory"
  <2>1. files' = MakeDirs(files, new)
    BY <1>1, <1>5 DEF AtOnce
  <2>2. /\ new \in Places /\ IsPrefix(l, new) /\ files'[l] = Dir /\ files[l].kind # "file"
    BY <2>1 DEF MakeDirs
  <2>3. files[l] = None
    <3>1. files[l] \in FsNodes
      BY DEF FsInv, FsFilesOK, Trees
    <3> QED BY <2>2, <3>1 DEF FsNodes, File
  <2>4. Args(c).path # NoPath /\ Inside(fsCap.write, Canonical(Args(c).path))
    BY <1>2, <1>4, <1>5 DEF FsAdmits
  <2>5. IsPrefix(fsCap.write, new)
    BY <1>2, <2>4 DEF Plain, Inside
  <2>6. IsPrefix(fsCap.write, l) \/ IsPrefix(l, fsCap.write)
    BY <1>4, <2>2, <2>5, PrefixesCompare, PlacesAreWays
  <2>7. files'[l] # None
    BY <2>2 DEF Dir, None
  <2> QED BY <1>4, <2>2, <2>3, <2>6, <2>7
<1>6. CASE Tool(c) = "move_file"
  <2>1. MayMove(files, from, to) /\ files' = Rename(files, from, to)
    BY <1>1, <1>6 DEF AtOnce
  <2>2. from # NoPath /\ to # NoPath
    BY <2>1 DEF MayMove
  <2>3. /\ from \in Places /\ to \in Places
        /\ IsPrefix(fsCap.write, from) /\ IsPrefix(fsCap.write, to)
    BY <1>1, <1>2, <1>6, <2>2, AdmittedMove
  <2>4. IsPrefix(to, l) \/ IsPrefix(from, l)
    BY <2>1 DEF Rename
  <2>5. IsPrefix(fsCap.write, l)
    BY <1>4, <2>3, <2>4, PrefixGoesOn, PlacesAreWays
  <2> QED BY <1>1, <1>4, <1>6, <2>5
<1> QED BY <1>3, <1>4, <1>5, <1>6

LEMMA GrantedWrites ==
    ASSUME FsInv, NEW c \in Calls, FsTruncate(c) \/ FsFill(c)
    PROVE  ChangesAreGranted
<1> SUFFICES ASSUME NEW l \in Places, files'[l] # files[l], \A d \in fsLog : Plain(d)
             PROVE  fsCap.write # NoPath /\ IsPrefix(fsCap.write, l) /\ files'[l] # None
  BY DEF ChangesAreGranted
<1>1. phase[c] = "running" /\ Plain(c)
  BY RunningIs DEF FsTruncate, FsFill, At
<1>2. \A text : File(text) # None
  BY DEF File, None
<1>3. CASE FsTruncate(c)
  <2> DEFINE at == Lookup(files, Args(c).path)
  <2>1. job[c].step = "truncate" /\ Openable(files, at) /\ files' = [files EXCEPT ![at] = File({})]
    BY <1>3 DEF FsTruncate, At
  <2>2. l = at /\ files'[l] = File({}) /\ at # NoPath
    BY <2>1 DEF FsInv, FsFilesOK, Trees, Openable
  <2>3. Tool(c) \in {"write_file", "edit_file"}
    BY <1>1, <2>1 DEF FsInv, FsJobsOK
  <2>4. fsCap.write \in Places /\ IsPrefix(fsCap.write, at)
    <3>1. Tool(c) # "move_file" /\ Tool(c) \notin ReadTools
      BY <2>3 DEF ReadTools
    <3> QED BY <1>1, <2>2, <3>1, AdmittedLookup
  <2> QED BY <1>2, <2>2, <2>4, PlacesAreWays
<1>4. CASE FsFill(c)
  <2>1. PICK rest :
            files' = IF job[c].at = NoPath THEN files
                     ELSE [files EXCEPT ![job[c].at] = File(job[c].text \cup rest)]
    BY <1>4 DEF FsFill
  <2>2. job[c].at # NoPath /\ l = job[c].at /\ files'[l] = File(job[c].text \cup rest)
    BY <2>1 DEF FsInv, FsFilesOK, Trees
  <2> QED BY <1>2, <2>2 DEF FsInv, FsSandboxOK
<1> QED BY <1>3, <1>4

\* For any file system, any calls and any number of them at the same time: what a call
\* shows is in the sandbox to read, and what a step changes is in the sandbox to write,
\* as long as the calls are ones that the check sees as the file system does.
THEOREM SandboxHolds == FsSpec => StaysInSandbox
<1>1. FsInv /\ FsInv' /\ [FsNext]_<<gate, fsVars>> => [ShownIsInside' /\ ChangesAreGranted]_<<files, job>>
  <2> SUFFICES ASSUME FsInv, FsInv', [FsNext]_<<gate, fsVars>>
               PROVE  [ShownIsInside' /\ ChangesAreGranted]_<<files, job>>
    OBVIOUS
  <2>1. ShownIsInside'
    BY DEF FsInv, FsSandboxOK, ShownIsInside
  <2>2. files' = files => ChangesAreGranted
    BY DEF ChangesAreGranted
  <2>3. CASE UNCHANGED <<gate, fsVars>>
    BY <2>3 DEF fsVars
  <2>4. ASSUME NEW c \in Calls, FsStep(c) PROVE ChangesAreGranted
    <3>1. CASE FsOnce(c)
      BY <3>1, GrantedOnce
    <3>2. CASE FsTruncate(c) \/ FsFill(c)
      BY <3>2, GrantedWrites
    <3>3. CASE ~FsOnce(c) /\ ~FsTruncate(c) /\ ~FsFill(c)
      <4>1. files' = files
        BY <2>4, <3>3 DEF FsStep, FsStart, FsRefuse, FsRead, FsList, FsListed, FsStat, fsVars
      <4> QED BY <2>2, <4>1
    <3> QED BY <3>1, <3>2, <3>3
  <2>5. CASE FsNext
    <3>1. CASE files' = files
      BY <2>1, <2>2, <3>1
    <3>2. CASE files' # files
      <4>1. \E c \in Calls : FsStep(c)
        BY <2>5, <3>2 DEF FsNext, IssueSandbox, FsCall
      <4> QED BY <2>1, <2>4, <4>1
    <3> QED BY <3>1, <3>2
  <2> QED BY <2>3, <2>5
<1> QED BY <1>1, FsInvariance, PTL DEF FsSpec, StaysInSandbox

-----------------------------------------------------------------------------
\* Paths

NatLess == OpToRel(<, Nat)

\* What induction there is: a set of naturals has a least element.
LEMMA LeastOf ==
    ASSUME NEW T, T \subseteq Nat, T # {}
    PROVE  \E x \in T : \A y \in T : x <= y
<1>1. IsWellFoundedOn(NatLess, Nat)
  BY NatLessThanWellFounded DEF NatLess
<1>2. \A m, n \in Nat : <<m, n>> \in NatLess <=> m < n
  BY Zenon DEF NatLess, OpToRel
<1>3. PICK x \in T : \A y \in T : ~(<<y, x>> \in NatLess)
  BY <1>1, WFMin
<1>4. ASSUME NEW y \in T PROVE x <= y
  <2>1. x \in Nat /\ y \in Nat
    OBVIOUS
  <2>2. ~(y < x)
    BY <1>2, <1>3, <2>1
  <2> QED BY <2>1, <2>2
<1> QED BY <1>4

\* Resolve and FlattenSeq recur over their sequence; they are shown to satisfy their
\* equations first, by stages: the walk over 1..k is settled once that over 1..k-1 is.
Walked(path, at, x) ==
    IF path[x] = Up THEN SubSeq(at, 1, Len(at) - 1) ELSE Append(at, path[x])

WalkStep(path, f, s) ==
    IF s = {} THEN <<>> ELSE Walked(path, f[s \ {Max(s)}], Max(s))

Walk(path) == CHOOSE f : f = [s \in SUBSET DOMAIN path |-> WalkStep(path, f, s)]

\* Of the fold, the sets that it takes are those of the first indices.
LEMMA ResolveIsWalk == \A path : Resolve(path) = Walk(path)[DOMAIN path]
  BY Zenon DEF Resolve, FoldLeft, MapThenFoldSet, Walk, WalkStep, Walked

LEMMA MaxOfUpto ==
    ASSUME NEW n \in Nat, NEW s \in SUBSET (1..n), s # {}
    PROVE  Max(s) \in s /\ \A x \in s : x <= Max(s)
<1> DEFINE T == {n - x : x \in s}
<1>0. \A x \in s : x \in 1..n
  OBVIOUS
<1>1. T \subseteq Nat /\ T # {}
  <2>1. \A x \in s : n - x \in Nat
    BY <1>0
  <2> QED BY <2>1
<1>2. PICK m \in T : \A y \in T : m <= y
  <2> HIDE DEF T
  <2> QED BY <1>1, LeastOf, Zenon
<1>3. PICK x \in s : m = n - x
  OBVIOUS
<1>4. \A y \in s : x >= y
  <2> SUFFICES ASSUME NEW y \in s PROVE x >= y
    OBVIOUS
  <2>1. n - y \in T
    OBVIOUS
  <2>2. x \in Nat /\ y \in Nat
    BY <1>0
  <2>3. n - x <= n - y
    BY <1>2, <1>3, <2>1
  <2> HIDE DEF T
  <2> QED BY <2>2, <2>3
<1>5. Max(s) \in s /\ \A y \in s : Max(s) >= y
  BY <1>4 DEF Max
<1> HIDE DEF T
<1>6. ASSUME NEW y \in s PROVE y \in Int
  <2>1. y \in 1..n
    BY <1>0
  <2> QED BY <2>1
<1>7. Max(s) \in Int
  BY <1>5, <1>6, Zenon
<1> QED BY <1>5, <1>6, <1>7

LEMMA WalkExists ==
    ASSUME NEW path \in Seq(Segments)
    PROVE  \E f : f = [s \in SUBSET DOMAIN path |-> WalkStep(path, f, s)]
<1> DEFINE n == Len(path)
           Again(f) == [s \in SUBSET (1..n) |-> WalkStep(path, f, s)]
           Settled(f, k) == \A s \in SUBSET (1..k) : f[s] = WalkStep(path, f, s)
           Stage(k) == \E f : Settled(f, k)
           missing == {k \in 0..n : ~Stage(k)}
<1>0. DOMAIN path = 1..n /\ n \in Nat
  OBVIOUS
<1> HIDE DEF n
<1>1. Stage(0)
  <2> DEFINE f == [s \in {{}} |-> <<>>]
  <2>1. SUBSET (1..0) = {{}}
    OBVIOUS
  <2>2. Settled(f, 0)
    BY <2>1 DEF WalkStep
  <2> QED BY <2>2
<1>2. ASSUME NEW k \in 0..n, k # 0, Stage(k - 1) PROVE Stage(k)
  <2>1. PICK f : Settled(f, k - 1)
    BY <1>2
  <2> DEFINE g == [s \in SUBSET (1..k) |-> WalkStep(path, f, s)]
  <2>2. \A s \in SUBSET (1..k) : g[s] = WalkStep(path, f, s)
    OBVIOUS
  <2> HIDE DEF g
  <2>3. ASSUME NEW s \in SUBSET (1..k) PROVE g[s] = WalkStep(path, g, s)
    <3>1. CASE s = {}
      BY <2>2, <3>1 DEF WalkStep
    <3>2. CASE s # {}
      <4> DEFINE x == Max(s)
      <4>0. k \in Nat
        BY <1>0
      <4>1. x \in s /\ \A y \in s : y <= x
        BY <4>0, <3>2, MaxOfUpto, Zenon
      <4> HIDE DEF x
      <4>2. s \ {x} \in SUBSET (1..(k - 1)) /\ s \ {x} \in SUBSET (1..k)
        BY <4>1
      <4>3. g[s \ {x}] = f[s \ {x}]
        BY <4>2, <2>1, <2>2
      <4> QED BY <4>3, <2>2, <3>2 DEF WalkStep, x
    <3> QED BY <3>1, <3>2
  <2>4. Settled(g, k)
    BY <2>3
  <2> QED BY <2>4
<1>3. missing = {}
  <2> SUFFICES ASSUME missing # {} PROVE FALSE
    OBVIOUS
  <2> HIDE DEF Stage
  <2>1. PICK k \in missing : \A y \in missing : k <= y
    <3>1. missing \subseteq Nat
      OBVIOUS
    <3> QED BY <3>1, LeastOf, Zenon
  <2>2. k \in 0..n /\ k # 0 /\ ~Stage(k)
    BY <1>1
  <2>3. k - 1 \in 0..n /\ ~(k <= k - 1)
    BY <2>2, <1>0
  <2>4. Stage(k - 1)
    BY <2>1, <2>3
  <2> QED BY <1>2, <2>2, <2>4
<1>4. PICK f : Settled(f, n)
  <2> HIDE DEF Settled
  <2>1. n \in 0..n
    BY <1>0
  <2>2. Stage(n)
    <3> HIDE DEF Stage
    <3> QED BY <2>1, <1>3
  <2> QED BY <2>2
<1> DEFINE g == Again(f)
<1>5. g = Again(g)
  <2>1. ASSUME NEW s \in SUBSET (1..n) PROVE WalkStep(path, f, s) = WalkStep(path, g, s)
    <3>1. \A t \in SUBSET (1..n) : g[t] = f[t]
      BY <1>4
    <3> HIDE DEF g
    <3>2. s \ {Max(s)} \in SUBSET (1..n)
      OBVIOUS
    <3> QED BY <3>1, <3>2 DEF WalkStep
  <2> DEFINE h == Again(g)
  <2>2. \A s \in SUBSET (1..n) : g[s] = h[s]
    BY <2>1
  <2>3. g = h
    BY <2>2
  <2> QED BY <2>3
<1> QED BY <1>0, <1>5, Zenon

LEMMA WalkEquations ==
    ASSUME NEW path \in Seq(Segments)
    PROVE  /\ Walk(path)[{}] = <<>>
           /\ \A k \in 1..Len(path) :
                  Walk(path)[1..k] = Walked(path, Walk(path)[1..(k - 1)], k)
<1> DEFINE f == Walk(path)
<1>1. f = [s \in SUBSET DOMAIN path |-> WalkStep(path, f, s)]
  BY WalkExists, Zenon DEF Walk
<1> HIDE DEF f
<1>2. \A s \in SUBSET DOMAIN path : f[s] = WalkStep(path, f, s)
  BY <1>1
<1>3. f[{}] = <<>>
  BY <1>2 DEF WalkStep
<1>4. ASSUME NEW k \in 1..Len(path) PROVE f[1..k] = Walked(path, f[1..(k - 1)], k)
  <2>1. DOMAIN path = 1..Len(path) /\ Len(path) \in Nat
    OBVIOUS
  <2>2. (1..k) \in SUBSET DOMAIN path /\ 1..k # {} /\ k \in Nat
    <3>1. k \in Nat /\ k \in 1..k
      BY <2>1
    <3>2. \A i \in 1..k : i \in 1..Len(path)
      BY <2>1
    <3> QED BY <3>1, <3>2, <2>1
  <2>3. Max(1..k) \in 1..k /\ \A x \in 1..k : x <= Max(1..k)
    <3>1. (1..k) \in SUBSET (1..k)
      OBVIOUS
    <3> QED BY <3>1, <2>2, MaxOfUpto, Zenon
  <2>4. Max(1..k) = k
    <3> DEFINE m == Max(1..k)
    <3> HIDE DEF m
    <3>1. m \in 1..k /\ k <= m
      BY <2>3 DEF m
    <3>2. m = k
      BY <3>1
    <3> QED BY <3>2 DEF m
  <2>5. (1..k) \ {k} = 1..(k - 1)
    OBVIOUS
  <2> QED BY <1>2, <2>2, <2>4, <2>5, Zenon DEF WalkStep
<1> QED BY <1>3, <1>4 DEF f

\* A path without `..` is where it leads.
LEMMA ResolveOfPlain ==
    ASSUME NEW path \in Seq(Segments), \A i \in DOMAIN path : path[i] # Up
    PROVE  Resolve(path) = path
<1> DEFINE n == Len(path)
           f == Walk(path)
           missing == {k \in 0..n : f[1..k] # SubSeq(path, 1, k)}
<1>0. DOMAIN path = 1..n /\ n \in Nat
  OBVIOUS
<1>1. /\ f[{}] = <<>>
      /\ \A k \in 1..n : f[1..k] = Walked(path, f[1..(k - 1)], k)
  BY WalkEquations
<1> HIDE DEF f, n
<1>2. missing = {}
  <2> SUFFICES ASSUME missing # {} PROVE FALSE
    OBVIOUS
  <2>1. PICK k \in missing : \A y \in missing : k <= y
    <3>1. missing \subseteq Nat
      OBVIOUS
    <3> HIDE DEF missing
    <3> QED BY <3>1, LeastOf, Zenon
  <2>2. k \in 0..n /\ f[1..k] # SubSeq(path, 1, k)
    BY <2>1
  <2>3. k # 0
    <3>1. 1..0 = {} /\ SubSeq(path, 1, 0) = <<>>
      OBVIOUS
    <3> QED BY <3>1, <1>1, <2>2
  <2>4. k \in 1..n /\ k - 1 \in 0..n /\ ~(k <= k - 1)
    BY <2>2, <2>3, <1>0
  <2>5. f[1..(k - 1)] = SubSeq(path, 1, k - 1)
    BY <2>1, <2>4
  <2>6. f[1..k] = Append(SubSeq(path, 1, k - 1), path[k])
    <3>1. path[k] # Up
      BY <2>4, <1>0
    <3> QED BY <3>1, <1>1, <2>4, <2>5, Zenon DEF Walked
  <2>7. Append(SubSeq(path, 1, k - 1), path[k]) = SubSeq(path, 1, k)
    BY <2>4, <1>0 DEF n
  <2> QED BY <2>2, <2>6, <2>7
<1>3. f[1..n] = SubSeq(path, 1, n)
  <2>1. n \in 0..n
    BY <1>0
  <2> QED BY <1>2, <2>1
<1>4. SubSeq(path, 1, n) = path
  BY <1>0 DEF n
<1>5. Resolve(path) = f[1..n]
  BY ResolveIsWalk, <1>0, Zenon DEF f
<1> QED BY <1>3, <1>4, <1>5

\* What a path resolves to has no `..` left.
LEMMA ResolveHasNoUp ==
    ASSUME NEW path \in Seq(Segments)
    PROVE  /\ Resolve(path) \in Seq(Segments)
           /\ \A i \in DOMAIN Resolve(path) : Resolve(path)[i] # Up
<1> DEFINE n == Len(path)
           f == Walk(path)
           Clean(at) == at \in Seq(Segments) /\ \A i \in 1..Len(at) : at[i] # Up
           missing == {k \in 0..n : ~Clean(f[1..k])}
<1>0. DOMAIN path = 1..n /\ n \in Nat
  OBVIOUS
<1>1. /\ f[{}] = <<>>
      /\ \A k \in 1..n : f[1..k] = Walked(path, f[1..(k - 1)], k)
  BY WalkEquations
<1>2. ASSUME NEW at, Clean(at), NEW k \in 1..n PROVE Clean(Walked(path, at, k))
  <2>1. path[k] \in Segments
    BY <1>0
  <2>2. CASE path[k] = Up
    <3> DEFINE back == SubSeq(at, 1, Len(at) - 1)
    <3>1. at \in Seq(Segments) /\ Len(at) \in Nat /\ \A i \in 1..Len(at) : at[i] # Up
      BY <1>2
    <3>2. Clean(back)
      <4>1. CASE Len(at) = 0
        <5>1. back = <<>>
          BY <3>1, <4>1
        <5>2. Clean(<<>>)
          OBVIOUS
        <5> HIDE DEF Clean
        <5> QED BY <5>1, <5>2
      <4>2. CASE Len(at) # 0
        <5>1. Len(at) - 1 \in Nat /\ Len(at) - 1 <= Len(at)
          BY <3>1, <4>2
        <5>2. back \in Seq(Segments) /\ Len(back) = Len(at) - 1
          <6> DEFINE m == Len(at) - 1
          <6>1. m \in Nat /\ m <= Len(at) /\ at \in Seq(Segments)
            BY <3>1, <5>1
          <6> HIDE DEF m
          <6>2. SubSeq(at, 1, m) \in Seq(Segments) /\ Len(SubSeq(at, 1, m)) = m
            BY <6>1
          <6> QED BY <6>2 DEF m
        <5>3. \A i \in 1..(Len(at) - 1) : i \in 1..Len(at)
          BY <3>1
        <5>4. \A i \in 1..(Len(at) - 1) : back[i] = at[i]
          BY <3>1, <5>1
        <5> HIDE DEF back
        <5> QED BY <5>2, <5>3, <5>4, <3>1
      <4> QED BY <4>1, <4>2
    <3> HIDE DEF Clean
    <3> QED BY <3>2, <2>2 DEF Walked
  <2>3. CASE path[k] # Up
    <3> DEFINE on == Append(at, path[k])
    <3>1. /\ on \in Seq(Segments) /\ Len(on) = Len(at) + 1 /\ Len(at) \in Nat
          /\ on[Len(at) + 1] = path[k] /\ \A i \in 1..Len(at) : on[i] = at[i]
      BY <1>2, <2>1
    <3> HIDE DEF on
    <3>2. \A i \in 1..Len(on) : i = Len(at) + 1 \/ i \in 1..Len(at)
      BY <3>1
    <3>3. Clean(on)
      BY <3>1, <3>2, <2>3, <1>2
    <3> QED BY <3>3, <2>3 DEF Walked, on
  <2> QED BY <2>2, <2>3
<1> HIDE DEF f, n
<1>3. missing = {}
  <2> SUFFICES ASSUME missing # {} PROVE FALSE
    OBVIOUS
  <2>1. PICK k \in missing : \A y \in missing : k <= y
    <3>1. missing \subseteq Nat
      OBVIOUS
    <3> HIDE DEF missing
    <3> QED BY <3>1, LeastOf, Zenon
  <2>2. k \in 0..n /\ ~Clean(f[1..k])
    BY <2>1
  <2>3. k # 0
    <3>1. 1..0 = {} /\ Clean(<<>>)
      OBVIOUS
    <3> HIDE DEF Clean
    <3> QED BY <3>1, <1>1, <2>2
  <2>4. k \in 1..n /\ k - 1 \in 0..n /\ ~(k <= k - 1)
    BY <2>2, <2>3, <1>0
  <2> HIDE DEF Clean
  <2>5. Clean(f[1..(k - 1)])
    BY <2>1, <2>4
  <2> QED BY <1>1, <1>2, <2>2, <2>4, <2>5
<1>4. Clean(f[1..n])
  <2>1. n \in 0..n
    BY <1>0
  <2> HIDE DEF Clean
  <2> QED BY <1>3, <2>1
<1>5. Resolve(path) = f[1..n]
  BY ResolveIsWalk, <1>0, Zenon DEF f
<1>6. Clean(Resolve(path))
  <2> HIDE DEF Clean
  <2> QED BY <1>4, <1>5
<1> QED BY <1>6

LEMMA FirstOf ==
    ASSUME NEW path \in Seq(Segments), Len(path) # 0
    PROVE  SubSeq(path, 1, 1) = <<path[1]>>
<1>1. SubSeq(path, 1, 1) = Append(SubSeq(path, 1, 0), path[1])
  OBVIOUS
<1>2. SubSeq(path, 1, 0) = <<>>
  OBVIOUS
<1>3. \A x : Append(<<>>, x) = <<x>>
  OBVIOUS
<1> QED BY <1>1, <1>2, <1>3, Zenon

\* What decodes to itself is decoded to itself.
LEMMA DecodedPlain ==
    ASSUME NEW path \in Seq(Segments),
           \A i \in DOMAIN path : Decoded[path[i]] = <<path[i]>>
    PROVE  FlattenSeq([i \in DOMAIN path |-> Decoded[path[i]]]) = path
<1> DEFINE n == Len(path)
           seqs == [i \in DOMAIN path |-> Decoded[path[i]]]
           g == [i \in 1..n |-> SubSeq(path, 1, i)]
           FlatStep(h, i) == IF i = 1 THEN seqs[i] ELSE h[i - 1] \o seqs[i]
           flat == CHOOSE h : h = [i \in 1..n |-> FlatStep(h, i)]
<1>0. DOMAIN path = 1..n /\ n \in Nat
  OBVIOUS
<1>1. Len(seqs) = n /\ \A i \in 1..n : seqs[i] = <<path[i]>>
  BY <1>0
<1>2. CASE n = 0
  <2>1. path = <<>>
    BY <1>2
  <2>2. seqs = <<>>
    BY <2>1
  <2> QED BY <2>1, <2>2, <1>1, <1>2 DEF FlattenSeq
<1>3. CASE n # 0
  <2>1. FlattenSeq(seqs) = flat[n]
    <3>1. FlattenSeq(seqs) = (CHOOSE h : h = [i \in 1..Len(seqs) |-> FlatStep(h, i)])[Len(seqs)]
      <4>1. Len(seqs) # 0
        BY <1>1, <1>3
      <4> HIDE DEF seqs
      <4> QED BY <4>1, Zenon DEF FlattenSeq
    <3> HIDE DEF FlatStep, seqs
    <3> QED BY <3>1, <1>1
  <2> HIDE DEF seqs
  <2>2. g = [i \in 1..n |-> FlatStep(g, i)]
    <3>1. ASSUME NEW i \in 1..n PROVE SubSeq(path, 1, i) = FlatStep(g, i)
      <4>1. CASE i = 1
        <5>1. SubSeq(path, 1, 1) = <<path[1]>>
          BY <1>3, FirstOf
        <5> QED BY <5>1, <4>1, <1>1
      <4>2. CASE i # 1
        <5>1. i - 1 \in 1..n
          BY <1>0, <4>2
        <5>2. SubSeq(path, 1, i - 1) \o <<path[i]>> = SubSeq(path, 1, i)
          BY <5>1, <1>0
        <5> QED BY <5>1, <5>2, <4>2, <1>1
      <4> QED BY <4>1, <4>2
    <3> QED BY <3>1
  <2> HIDE DEF g, n
  <2>3. flat = [i \in 1..n |-> FlatStep(flat, i)]
    <3> HIDE DEF FlatStep
    <3> QED BY <2>2, Zenon
  <2> HIDE DEF flat
  <2>4. \A i \in 1..n : flat[i] = FlatStep(flat, i)
    <3> HIDE DEF FlatStep
    <3> QED BY <2>3
  <2> DEFINE missing == {i \in 1..n : flat[i] # SubSeq(path, 1, i)}
  <2>5. missing = {}
    <3> SUFFICES ASSUME missing # {} PROVE FALSE
      OBVIOUS
    <3>1. PICK k \in missing : \A y \in missing : k <= y
      <4>1. missing \subseteq Nat
        BY <1>0
      <4> HIDE DEF missing
      <4> QED BY <4>1, LeastOf, Zenon
    <3>2. k \in 1..n /\ flat[k] # SubSeq(path, 1, k)
      BY <3>1
    <3>3. CASE k = 1
      <4>1. flat[1] = <<path[1]>>
        BY <2>4, <3>2, <3>3, <1>1
      <4>2. SubSeq(path, 1, 1) = <<path[1]>>
        BY <1>3, FirstOf DEF n
      <4> QED BY <4>1, <4>2, <3>2, <3>3
    <3>4. CASE k # 1
      <4>1. k - 1 \in 1..n /\ ~(k <= k - 1)
        BY <3>2, <3>4, <1>0
      <4>2. flat[k - 1] = SubSeq(path, 1, k - 1)
        BY <3>1, <4>1
      <4>3. flat[k] = flat[k - 1] \o <<path[k]>>
        BY <2>4, <3>2, <3>4, <1>1
      <4>4. SubSeq(path, 1, k - 1) \o <<path[k]>> = SubSeq(path, 1, k)
        BY <4>1, <3>2, <1>0 DEF n
      <4> QED BY <4>2, <4>3, <4>4, <3>2
    <3> QED BY <3>3, <3>4
  <2>6. flat[n] = SubSeq(path, 1, n)
    <3>1. n \in 1..n
      BY <1>0, <1>3
    <3> QED BY <3>1, <2>5
  <2>7. SubSeq(path, 1, n) = path
    BY <1>0 DEF n
  <2> QED BY <2>1, <2>6, <2>7 DEF seqs
<1> QED BY <1>2, <1>3

\* What path.resolve makes of a path is a fixed point of it, without any `..`; the
\* paths it leaves alone are the ones without.
THEOREM ResolveIsCanonical ==
    ASSUME NEW path \in Seq(Segments)
    PROVE  /\ Resolve(Resolve(path)) = Resolve(path)
           /\ Resolve(path) = path <=> \A i \in DOMAIN path : path[i] # Up
<1>1. /\ Resolve(path) \in Seq(Segments)
      /\ \A i \in DOMAIN Resolve(path) : Resolve(path)[i] # Up
  BY ResolveHasNoUp
<1>2. Resolve(Resolve(path)) = Resolve(path)
  BY <1>1, ResolveOfPlain
<1>3. (\A i \in DOMAIN path : path[i] # Up) => Resolve(path) = path
  BY ResolveOfPlain
<1>4. Resolve(path) = path => \A i \in DOMAIN path : path[i] # Up
  BY <1>1
<1> QED BY <1>2, <1>3, <1>4

\* The check sees a call as the file system does, as SandboxHolds asks, when nothing in
\* its path is percent-encoded, with any `..` there, and no `..` is in the paths of a
\* move, which canonicalizePathArgs does not look at.
THEOREM OrdinaryCallsArePlain ==
    ASSUME NEW c,
           Args(c).path # NoPath =>
               /\ Args(c).path \in Seq(Segments)
               /\ \A i \in DOMAIN Args(c).path : Decoded[Args(c).path[i]] = <<Args(c).path[i]>>,
           \A path \in {Args(c).source, Args(c).destination} \ {NoPath} :
               path \in Seq(Segments) /\ \A i \in DOMAIN path : path[i] # Up
    PROVE  Plain(c)
<1>1. Args(c).path # NoPath => Resolve(Args(c).path) = Canonical(Args(c).path)
  <2> DEFINE path == Args(c).path
  <2> SUFFICES ASSUME path # NoPath PROVE Resolve(path) = Canonical(path)
    OBVIOUS
  <2>1. path \in Seq(Segments) /\ \A i \in DOMAIN path : Decoded[path[i]] = <<path[i]>>
    OBVIOUS
  <2> HIDE DEF path
  <2>2. FlattenSeq([i \in DOMAIN path |-> Decoded[path[i]]]) = path
    BY <2>1, DecodedPlain
  <2> QED BY <2>2 DEF Canonical
<1>2. \A path \in {Args(c).source, Args(c).destination} \ {NoPath} : Resolve(path) = path
  BY ResolveOfPlain
<1> QED BY <1>1, <1>2 DEF Plain

-----------------------------------------------------------------------------
\* The demonstrations

\* One agent runs, by itself, while the others stay as they are at first.
HttpAlone == ShellIdle /\ FsIdle
ShellAlone == HttpIdle /\ FsIdle
FsAlone == HttpIdle /\ ShellIdle

OneAgentSpec ==
    \/ HttpSpec /\ []HttpAlone
    \/ ShellSpec /\ []ShellAlone
    \/ FsSpec /\ []FsAlone

LEMMA IdleAgentsGo ==
    /\ HttpIdle => HttpDemoGoes
    /\ ShellIdle => ShellDemoGoes
    /\ FsIdle => FsDemoGoes
<1>1. HttpIdle => HttpDemoGoes
  BY DEF HttpIdle, HttpDemoGoes, HttpDemoRuns
<1>2. ShellIdle => ShellDemoGoes
  BY DEF ShellIdle, ShellDemoGoes, ShellDemoRuns
<1>3. FsIdle => FsDemoGoes
  BY DEF FsIdle, FsDemoGoes, FsDemoRuns
<1> QED BY <1>1, <1>2, <1>3

\* The capability admits the steps that the demonstration expects to be allowed, and
\* no other.
LEMMA HttpDemoAdmits ==
    ASSUME httpCap = HttpDemoCap, httpGuard = [caller |-> "me", intact |-> TRUE],
           NEW step \in HttpDemo
    PROVE  /\ step.expect \in {"allowed", "denied"}
           /\ HttpAdmits(step.tool, step.args) <=> step.expect = "allowed"
<1> DEFINE args == step.args
<1>1. args.string = TRUE /\ args.origin = NoUrl /\ args.url \in Urls /\ args.url # NoUrl
  BY HttpDemoAssumption, UrlsAssumption DEF HttpDemo, Step, Url
<1>2. "api" # NoUrl
  <2>1. "api/items" \in Urls
    BY HttpDemoAssumption DEF HttpDemo, Step, Url
  <2> QED BY <2>1, HttpDemoAssumption, UrlsAssumption
<1>3. NormalizeUrl(args).origin =
          IF Form[args.url].parses THEN Form[args.url].origin ELSE NoUrl
  BY <1>1 DEF NormalizeUrl, Parses, HttpDemo, Step, Url
<1>4. HttpAdmits(step.tool, args) <=> step.tool = "http.get" /\ NormalizeUrl(args).origin = "api"
  BY DEF HttpAdmits, HttpDemoCap
<1>5. CASE step.tool = "http.get" /\ args.url \in {"api/items", "api/?q"} /\ step.expect = "allowed"
  BY <1>3, <1>4, <1>5, HttpDemoAssumption
<1>6. CASE step.tool = "http.get" /\ args.url \in {"other", "api@other", "api.other"} /\ step.expect = "denied"
  BY <1>2, <1>3, <1>4, <1>6, HttpDemoAssumption
<1>7. CASE step.tool = "http.post" /\ step.expect = "denied"
  BY <1>4, <1>7
<1> QED BY <1>5, <1>6, <1>7 DEF HttpDemo, Step, Url

LEMMA ShellDemoAdmits ==
    ASSUME shellCap = ShellDemoCap, NEW step \in ShellDemo
    PROVE  /\ step.expect \in {"allowed", "denied"}
           /\ ShellAdmits(step.tool, step.args) <=> step.expect = "allowed"
<1> DEFINE args == step.args
<1>1. ASSUME NEW argv, args = Argv(argv), argv[1] \in Words, argv[2] \in Words, Len(argv) > 1,
             Len(argv) > 0, step.tool = "shell.exec"
      PROVE  ShellAdmits(step.tool, args) <=> argv[1] = "git" /\ argv[2] \in {"status", "diff"}
  <2>1. args.argv = argv /\ argv # NoWord
    BY <1>1, ShellDemoAssumption DEF Argv
  <2>2. NormalizeArgv(args) = [args EXCEPT !.cmd = argv[1], !.sub = argv[2]]
    BY <1>1, <2>1 DEF NormalizeArgv, IsArgv, SubOf
  <2>3. NormalizeArgv(args).cmd = argv[1] /\ NormalizeArgv(args).sub = argv[2]
    BY <2>2, <1>1 DEF Argv
  <2> QED BY <1>1, <2>3 DEF ShellAdmits, ShellDemoCap
<1>2. CASE step = Step("shell.exec", Argv(<<"git", "status">>), "allowed")
  BY <1>1, <1>2, ShellDemoAssumption DEF Step
<1>3. CASE step = Step("shell.exec", Argv(<<"git", "diff", "rm">>), "allowed")
  BY <1>1, <1>3, ShellDemoAssumption DEF Step
<1>4. CASE step = Step("shell.exec", Argv(<<"git", "push">>), "denied")
  BY <1>1, <1>4, ShellDemoAssumption DEF Step
<1>5. CASE step = Step("shell.exec", Argv(<<"rm", "status">>), "denied")
  BY <1>1, <1>5, ShellDemoAssumption DEF Step
<1> QED BY <1>2, <1>3, <1>4, <1>5 DEF ShellDemo

LEMMA FsDemoAdmits ==
    ASSUME fsCap.read = FsDemoCap, NEW step \in FsDemo
    PROVE  /\ step.expect \in {"allowed", "denied"}
           /\ FsAdmits("read", step.tool, step.args) <=> step.expect = "allowed"
<1> DEFINE path == step.args.path
<1>1. /\ path \in {<<"sandbox">>, <<"sandbox", "a">>, <<"shadow", "a">>}
      /\ path # NoPath
  BY FsDemoAssumption DEF FsDemo, Step, Path
<1>2. path \in Seq(Segments) /\ \A i \in DOMAIN path : path[i] \in {"sandbox", "shadow", "a"}
  <2>1. {"sandbox", "shadow", "a"} \subseteq Segments
    BY FsDemoAssumption DEF Segments
  <2>2. CASE path = <<"sandbox">>
    BY <2>1, <2>2
  <2>3. CASE path = <<"sandbox", "a">>
    BY <2>1, <2>3
  <2>4. CASE path = <<"shadow", "a">>
    BY <2>1, <2>4
  <2> QED BY <1>1, <2>2, <2>3, <2>4
<1> HIDE DEF path
<1>3. Canonical(path) = path
  <2>1. \A i \in DOMAIN path : path[i] # Up /\ Decoded[path[i]] = <<path[i]>>
    BY <1>2, FsDemoAssumption
  <2>2. Resolve(path) = path
    BY <1>2, <2>1, ResolveOfPlain
  <2>3. FlattenSeq([i \in DOMAIN path |-> Decoded[path[i]]]) = path
    BY <1>2, <2>1, DecodedPlain
  <2> QED BY <2>2, <2>3 DEF Canonical
<1>4. FsAdmits("read", step.tool, step.args) <=>
          step.tool \in ReadTools /\ IsPrefix(FsDemoCap, path)
  BY <1>1, <1>3 DEF FsAdmits, Inside, path
<1>5. IsPrefix(FsDemoCap, path) <=> path[1] = "sandbox"
  <2>1. FsDemoCap \in Seq(Segments) /\ Len(FsDemoCap) = 1 /\ FsDemoCap[1] = "sandbox"
    BY FsDemoAssumption DEF FsDemoCap, Segments
  <2>2. Len(path) >= 1
    BY <1>1
  <2>3. IsPrefix(FsDemoCap, path) <=>
            Len(FsDemoCap) <= Len(path) /\ \A i \in 1..Len(FsDemoCap) : FsDemoCap[i] = path[i]
    BY <2>1, <1>2, PrefixIs
  <2> QED BY <2>1, <2>2, <2>3
<1> QED BY <1>4, <1>5 DEF FsDemo, Step, Path, ReadTools, path

\* The demonstrations of the agents go as they expect, whatever other calls are made
\* around theirs, for any other urls, words and files (src/bin/demo.ts).
THEOREM DemosGo == OneAgentSpec => []DemosGoAsExpected
<1>1. HttpInv => HttpDemoGoes
  <2> SUFFICES ASSUME HttpInv, NEW c \in Calls, HttpDemoRuns(c),
                      NEW step \in HttpDemo, step.tool = httpCalled[c].tool,
                      step.args = httpCalled[c].args, receipt[c] # "none"
               PROVE  receipt[c] = step.expect
    BY DEF HttpDemoGoes, AsExpected
  <2>1. /\ receipt[c] \in {"allowed", "denied"}
        /\ receipt[c] = "allowed" => HttpAdmits(step.tool, step.args)
        /\ receipt[c] = "denied" => ~HttpAdmits(step.tool, step.args)
    BY DEF HttpInv, HttpCallsOK, GateOK, GateTypeOK
  <2> QED BY <2>1, HttpDemoAdmits DEF HttpDemoRuns
<1>2. ShellInv => ShellDemoGoes
  <2> SUFFICES ASSUME ShellInv, NEW c \in Calls, ShellDemoRuns(c),
                      NEW step \in ShellDemo, step.tool = shellCalled[c].tool,
                      step.args = shellCalled[c].args, receipt[c] # "none"
               PROVE  receipt[c] = step.expect
    BY DEF ShellDemoGoes, AsExpected
  <2>1. /\ receipt[c] \in {"allowed", "denied"}
        /\ receipt[c] = "allowed" => ShellAdmits(step.tool, step.args)
        /\ receipt[c] = "denied" => ~ShellAdmits(step.tool, step.args)
    BY DEF ShellInv, ShellCallsOK, GateOK, GateTypeOK
  <2> QED BY <2>1, ShellDemoAdmits DEF ShellDemoRuns
<1>3. FsInv => FsDemoGoes
  <2> SUFFICES ASSUME FsInv, NEW c \in Calls, FsDemoRuns(c),
                      NEW step \in FsDemo, step.tool = Tool(c),
                      step.args = Args(c), receipt[c] # "none"
               PROVE  receipt[c] = step.expect
    BY DEF FsDemoGoes, AsExpected
  <2>1. /\ receipt[c] \in {"allowed", "denied"}
        /\ receipt[c] = "allowed" => FsAdmits("read", step.tool, step.args)
        /\ receipt[c] = "denied" => ~FsAdmits("read", step.tool, step.args)
    BY DEF FsInv, FsCallsOK, GateOK, GateTypeOK, FsDemoRuns
  <2> QED BY <2>1, FsDemoAdmits DEF FsDemoRuns
<1>4. HttpInv /\ HttpAlone => DemosGoAsExpected
  BY <1>1, IdleAgentsGo DEF HttpAlone, DemosGoAsExpected
<1>5. ShellInv /\ ShellAlone => DemosGoAsExpected
  BY <1>2, IdleAgentsGo DEF ShellAlone, DemosGoAsExpected
<1>6. FsInv /\ FsAlone => DemosGoAsExpected
  BY <1>3, IdleAgentsGo DEF FsAlone, DemosGoAsExpected
<1> QED BY <1>4, <1>5, <1>6, HttpInvariance, ShellInvariance, FsInvariance, PTL DEF OneAgentSpec
=============================================================================
