------------------------------ MODULE HttpAgent ------------------------------
(***************************************************************************)
(* The origin-scoped HTTP agent (examples/mcp-http-agent/src): the issuer's*)
(* check of its allowlist, the context that puts a call's parsed origin    *)
(* next to its url, and the client that fetches.  The guard in between is  *)
(* GatedTool.  A text is one of Urls; what new URL() makes of it, external *)
(* to the agent, is Form.  The expiry in the caveats, 2099, never comes.   *)
(***************************************************************************)
EXTENDS GatedTool, Naturals

CONSTANTS Urls,      \* texts an allowlist or a call may have for a url
          Form,      \* what the URL parser makes of each
          NoUrl,     \* an absent field
          Callers,
          Allowlists, \* the sets of entries given to the issuer
          HttpMenu,  \* the calls made: tool and arguments
          MaxHops    \* bound on the redirects of a request; fetch has 20

VARIABLES
    httpCap,    \* the issued capability, NoUrl before there is one
    httpGuard,  \* the guarded client: its caller, and is the capability intact
    httpCalled, \* the tool and the arguments of each call
    httpLog,    \* the calls in the client's log
    hits        \* the requests that servers got

httpVars == <<httpCap, httpGuard, httpCalled, httpLog, hits>>

Fields == Urls \cup {NoUrl}
HttpTools == {"http.get", "http.post", "http.put", "http.delete"}

\* Arguments: url, which may be something else than a string (its text is what it
\* converts to), an origin the caller put there itself, and a body.
HttpArgs == [url : Fields, string : BOOLEAN, origin : Fields, body : BOOLEAN]

ASSUME HttpMenuAssumption == HttpMenu \subseteq [tool : HttpTools, args : HttpArgs]

\* An origin is itself a text of a url.
ASSUME UrlsAssumption ==
    /\ NoUrl \notin Urls /\ MaxHops \in Nat
    /\ \A list \in Allowlists : list \subseteq Urls
    /\ \A url \in Urls : Form[url].parses => Form[url].origin \in Urls

Parses(url) == url # NoUrl /\ Form[url].parses

-----------------------------------------------------------------------------
\* exactOriginRejectionReason
RejectionReason(s) ==
    IF ~Form[s].ascii THEN "not ASCII"
    ELSE IF ~Form[s].parses THEN "not a URL"
    ELSE IF Form[s].userinfo THEN "userinfo"
    ELSE IF Form[s].path THEN "path"
    ELSE IF Form[s].query THEN "query or fragment"
    ELSE IF Form[s].origin # s THEN "not canonical"
    ELSE IF Form[s].punycode THEN "punycode"
    ELSE "none"

\* isExactOrigin
IsExactOrigin(s) == RejectionReason(s) = "none"

\* issueOriginScopedGetCapability: an entry that is rejected, or an empty list,
\* throws, and there is no capability.
IssueGetCapability(allowed, caller) ==
    /\ httpCap = NoUrl
    /\ allowed # {} /\ \A s \in allowed : IsExactOrigin(s)
    /\ httpCap' = [origins |-> allowed, caller |-> caller]
    /\ UNCHANGED <<gate, httpGuard, httpCalled, httpLog, hits>>

-----------------------------------------------------------------------------
\* Mutant: the call's own fields come last in the merged object.
NormalizeUrl_FieldsLast(args) ==
    IF args.string /\ Parses(args.url) /\ args.origin = NoUrl
    THEN [args EXCEPT !.origin = Form[args.url].origin] ELSE args

\* normalizeArgs: without a url that parses the arguments stay as they are.
NormalizeUrl(args) ==
    IF args.string /\ Parses(args.url)
    THEN [args EXCEPT !.origin = Form[args.url].origin] ELSE args

\* The caveats over the context that createGuardedHttpClient's provider makes.
HttpAdmits(tool, args) ==
    /\ httpGuard.caller = httpCap.caller
    /\ tool = "http.get"
    /\ NormalizeUrl(args).origin \in httpCap.origins

\* A call of the wrapped client.
HttpCall(c, tool, args) ==
    /\ httpCap # NoUrl
    /\ IF httpGuard.intact THEN Decide(c, HttpAdmits(tool, args)) ELSE Throw(c)
    /\ httpCalled' = [httpCalled EXCEPT ![c] = [tool |-> tool, args |-> args]]
    /\ UNCHANGED <<httpCap, httpGuard, httpLog, hits>>

\* buildInit, with the method each tool stands for.
Method(tool) == CASE tool = "http.get" -> "GET" [] tool = "http.post" -> "POST"
                  [] tool = "http.put" -> "PUT" [] OTHER -> "DELETE"

\* fetch, external, rejects at once what does not parse, carries credentials, or
\* is a GET with a body.
Fetchable(tool, args) ==
    /\ Parses(args.url) /\ ~Form[args.url].userinfo
    /\ ~(Method(tool) = "GET" /\ args.body)

Hit(c, hop, tool, origin) == [call |-> c, hop |-> hop, method |-> Method(tool), origin |-> origin]

\* createHttpClient's callTool, with doGet, doBody and doDelete up to their fetch:
\* the call is in the log whatever becomes of it.
HttpSend(c) ==
    LET tool == httpCalled[c].tool
        args == httpCalled[c].args
        sent == Fetchable(tool, args)
    IN /\ Enter(c, IF sent THEN "running" ELSE "settled")
       /\ httpLog' = httpLog \cup {c}
       /\ hits' = IF sent THEN hits \cup {Hit(c, 0, tool, Form[args.url].origin)} ELSE hits
       /\ UNCHANGED <<httpCap, httpGuard, httpCalled>>

\* fetch follows a redirect by itself, wherever the server points.
HttpRedirect(c, url) ==
    LET hops == {h.hop : h \in {x \in hits : x.call = c}}
    IN /\ phase[c] = "running" /\ Parses(url)
       /\ \E hop \in hops :
            /\ \A other \in hops : other <= hop
            /\ hop < MaxHops
            /\ hits' = hits \cup {Hit(c, hop + 1, httpCalled[c].tool, Form[url].origin)}
       /\ UNCHANGED <<gate, httpCap, httpGuard, httpCalled, httpLog>>

\* An answer comes, and toResponse reads it, or the request fails.
HttpSettle(c) == phase[c] = "running" /\ Settle(c) /\ UNCHANGED httpVars

HttpRefuse(c) == Refuse(c) /\ UNCHANGED httpVars

-----------------------------------------------------------------------------
HttpIdle ==
    /\ httpCap = NoUrl
    /\ httpCalled = [c \in Calls |-> NoUrl]
    /\ httpLog = {} /\ hits = {}

HttpInit == GateInit /\ HttpIdle /\ httpGuard \in [caller : Callers, intact : BOOLEAN]

HttpNext ==
    \/ \E allowed \in Allowlists, caller \in Callers : IssueGetCapability(allowed, caller)
    \/ \E c \in Calls :
         \/ \E call \in HttpMenu : HttpCall(c, call.tool, call.args)
         \/ HttpSend(c) \/ HttpRefuse(c) \/ HttpSettle(c)
         \/ \E url \in Urls : HttpRedirect(c, url)

HttpSpec == HttpInit /\ [][HttpNext]_<<gate, httpVars>>

-----------------------------------------------------------------------------
HttpTypeOK ==
    /\ httpCap \in [origins : SUBSET Urls, caller : Callers] \cup {NoUrl}
    /\ httpGuard \in [caller : Callers, intact : BOOLEAN]
    /\ httpCalled \in [Calls -> [tool : HttpTools, args : HttpArgs] \cup {NoUrl}]
    /\ httpLog \subseteq ran
    /\ hits \subseteq [call : httpLog, hop : 0..MaxHops,
                       method : {"GET", "POST", "PUT", "DELETE"}, origin : Urls]

\* What the issuer lets into a list and what the context provider writes are the
\* same spelling: each entry is an origin that a call can match, and whose calls
\* go to that very entry (exactOriginRejectionReason against normalizeArgs).
EntriesAreMatched ==
    httpCap # NoUrl =>
        \A s \in httpCap.origins :
            Fetchable("http.get", [url |-> s, string |-> TRUE, origin |-> NoUrl, body |-> FALSE])
            /\ NormalizeUrl([url |-> s, string |-> TRUE, origin |-> NoUrl,
                             body |-> FALSE]).origin = s

\* The url that was checked is the url that is fetched: a call whose url is a string
\* makes its request, if any, to an origin on the list, for the caller the
\* capability names, whatever origin the call claims; where a server redirects
\* fetch to is not the client's doing.
RequestsStayAtOrigins ==
    \A h \in hits :
        h.hop = 0 /\ httpCalled[h.call].args.string =>
            h.origin \in httpCap.origins /\ httpGuard.caller = httpCap.caller

\* No server gets anything but a GET, at any hop (the capability has no clause for
\* the tools that write).
OnlyGets == \A h \in hits : h.method = "GET"

\* The list is what can be reached, no less and no more: every entry by a GET, and
\* nothing else by anything.
AllowlistIsExact == EntriesAreMatched /\ RequestsStayAtOrigins /\ OnlyGets
=============================================================================
