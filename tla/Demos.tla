-------------------------------- MODULE Demos --------------------------------
(***************************************************************************)
(* The demonstrations beside the agents (their src/bin/demo.ts): each      *)
(* issues one capability and makes a list of calls, and exits with 3 when a*)
(* decision is not the one it expects.  Their calls are among the agents'  *)
(* inputs; a url, word or path is a name that says what is odd about it.   *)
(***************************************************************************)
EXTENDS HttpAgent, ShellAgent, FsAgent

Step(tool, args, expect) == [tool |-> tool, args |-> args, expect |-> expect]

Url(url, body) == [url |-> url, string |-> TRUE, origin |-> NoUrl, body |-> body]

HttpDemoCap == [origins |-> {"api"}, caller |-> "me"]

HttpDemo == {Step("http.get", Url("api/items", FALSE), "allowed"),
             Step("http.get", Url("api/?q", FALSE), "allowed"),
             Step("http.get", Url("other", FALSE), "denied"),
             Step("http.get", Url("api@other", FALSE), "denied"),
             Step("http.get", Url("api.other", FALSE), "denied"),
             Step("http.post", Url("api/items", TRUE), "denied")}

\* The URL parser, external: of the demonstration's urls these two are at its origin,
\* and what looks like it in the others is userinfo or a part of another host.
ASSUME HttpDemoAssumption ==
    /\ {step.args.url : step \in HttpDemo} \subseteq Urls
    /\ \A url \in {"api/items", "api/?q"} : Form[url].parses /\ Form[url].origin = "api"
    /\ \A url \in {"other", "api@other", "api.other"} : Form[url].parses => Form[url].origin # "api"

Argv(argv) == [argv |-> argv, cmd |-> NoWord, sub |-> NoWord]

ShellDemoCap == [cmd |-> "git", subs |-> {"status", "diff"}]

ShellDemo == {Step("shell.exec", Argv(<<"git", "status">>), "allowed"),
              Step("shell.exec", Argv(<<"git", "diff", "rm">>), "allowed"),
              Step("shell.exec", Argv(<<"git", "push">>), "denied"),
              Step("shell.exec", Argv(<<"rm", "status">>), "denied")}

\* The words are strings.
ASSUME ShellDemoAssumption ==
    /\ {"git", "status", "diff", "push", "rm"} \subseteq Words
    /\ \A step \in ShellDemo : step.args.argv # NoWord

FsDemoCap == <<"sandbox">>

Path(path) == [path |-> path, source |-> NoPath, destination |-> NoPath, find |-> "x",
               replace |-> "y", text |-> {"w"}]

FsDemo == {Step("read_file", Path(<<"sandbox", "a">>), "allowed"),
           Step("list_directory", Path(<<"sandbox">>), "allowed"),
           Step("read_file", Path(<<"shadow", "a">>), "denied"),
           Step("write_file", Path(<<"sandbox", "a">>), "denied"),
           Step("delete_path", Path(<<"sandbox", "a">>), "denied")}

\* The names are no `..`, and nothing in them is percent-encoded.
ASSUME FsDemoAssumption ==
    /\ \A segment \in {"sandbox", "shadow", "a"} :
           segment \in DOMAIN Decoded /\ segment # Up /\ Decoded[segment] = <<segment>>
    /\ \A step \in FsDemo : step.args.path # NoPath

\* The loop over the steps, for the one that call c makes.
AsExpected(demo, c, tool, args) ==
    \A step \in demo :
        step.tool = tool /\ step.args = args /\ receipt[c] # "none" => receipt[c] = step.expect

\* The call is made with the demonstration's capability.
HttpDemoRuns(c) ==
    /\ httpCap = HttpDemoCap /\ httpGuard = [caller |-> "me", intact |-> TRUE]
    /\ httpCalled[c] # NoUrl
ShellDemoRuns(c) == shellCap = ShellDemoCap /\ shellCalled[c] # NoWord
FsDemoRuns(c) == fsCap.read = FsDemoCap /\ fsCalled[c] # NoPath /\ fsCalled[c].kind = "read"

HttpDemoGoes ==
    \A c \in Calls : HttpDemoRuns(c) => AsExpected(HttpDemo, c, httpCalled[c].tool, httpCalled[c].args)
ShellDemoGoes ==
    \A c \in Calls : ShellDemoRuns(c) => AsExpected(ShellDemo, c, shellCalled[c].tool, shellCalled[c].args)
FsDemoGoes == \A c \in Calls : FsDemoRuns(c) => AsExpected(FsDemo, c, Tool(c), Args(c))

\* Every step of a demonstration is decided as it expects, whatever other calls are
\* made around it, also with redirects and with both filesystem capabilities issued.
DemosGoAsExpected == HttpDemoGoes /\ ShellDemoGoes /\ FsDemoGoes
=============================================================================
