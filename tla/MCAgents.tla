------------------------------ MODULE MCAgents ------------------------------
(***************************************************************************)
(* The example agents behind one gate, one of them in each behaviour: the  *)
(* shopping agent with four calls, each of the others with two.            *)
(* HTTP: an origin on the list and one that is not; urls with userinfo,    *)
(* with the listed host as a prefix of another, in capitals, in punycode,  *)
(* with a path or a query; one that does not parse.                        *)
(* Shell: git status, diff and others, of every length up to three.        *)
(* Shop: uses of every tool, purchases at, over and under each limit.      *)
(* Filesystem: a sandbox, a sibling with its name as a prefix, and /etc;   *)
(* a sandbox that is not there at first.                                   *)
(***************************************************************************)
EXTENDS Demos, ShoppingAgent, TLC

VARIABLE agent

vars == <<agent, gate, httpVars, shellVars, fsVars, shopVars>>

-----------------------------------------------------------------------------
Shape(origin) ==
    [ascii |-> TRUE, parses |-> TRUE, origin |-> origin, userinfo |-> FALSE, path |-> FALSE,
     query |-> FALSE, punycode |-> FALSE]

MCForm ==
    "api" :> Shape("api") @@ "api/" :> Shape("api") @@ "API" :> Shape("api")
    @@ "api/items" :> [Shape("api") EXCEPT !.path = TRUE]
    @@ "api/?q" :> [Shape("api") EXCEPT !.query = TRUE]
    @@ "other" :> Shape("other")
    @@ "api.other" :> Shape("api.other")
    @@ "api@other" :> [Shape("other") EXCEPT !.userinfo = TRUE]
    @@ "xn--api" :> [Shape("xn--api") EXCEPT !.punycode = TRUE]
    @@ "homograph" :> [Shape("xn--api") EXCEPT !.ascii = FALSE, !.punycode = TRUE]
    @@ "junk" :> [Shape(NoUrl) EXCEPT !.parses = FALSE]

MCUrls == DOMAIN MCForm

MCAllowlists == {{}, {"api"}, {"api", "other"}} \cup {{url} : url \in MCUrls}

CallsOf(demo) == {[tool |-> s.tool, args |-> s.args] : s \in demo}

\* Calls with and without an origin of their own.
MCHttpMenu ==
    [tool : {"http.get"}, args : [url : {"api", "api/?q", "API", "junk"}, string : {TRUE}, origin : {NoUrl}, body : {FALSE}]]
    \cup [tool : {"http.get"}, args : [url : {"other", "api.other", "api@other", "junk", NoUrl}, string : {TRUE}, origin : {"api"}, body : {FALSE}]]
    \cup [tool : HttpTools, args : [url : {"api/items"}, string : {TRUE}, origin : {NoUrl}, body : BOOLEAN]]
    \cup [tool : {"http.get"}, args : [url : {"other"}, string : {FALSE}, origin : {NoUrl, "api"}, body : {FALSE}]]
    \cup CallsOf(HttpDemo)

-----------------------------------------------------------------------------
MCWords == {"git", "status", "diff", "push", "rm", "quoted", ""}

Argvs == {NoWord, <<>>} \cup {<<a>> : a \in {"git", NotString}}
         \cup ({"git", "rm", NotString} \X {"status", "push", "", NotString})
         \cup {<<"git", "diff", "rm">>}

Command(cmd, subs) == [cmd |-> cmd, subs |-> subs]

MCCommands == {Command("git", {"status", "diff"}), Command("rm", {"status"}), Command("git", {}),
               Command("", {"status"}), Command("git", {"", "status"}), Command("quoted", {"rm"}),
               Command("git", {"quoted"})}

MCShellMenu ==
    [tool : {"shell.exec"}, args : [argv : Argvs, cmd : {NoWord}, sub : {NoWord}]]
    \cup [tool : {"shell.exec"}, args : [argv : Argvs, cmd : {"git"}, sub : {"status"}]]
    \cup [tool : {"other"}, args : [argv : {<<"git", "status">>}, cmd : {NoWord}, sub : {NoWord}]]
    \cup CallsOf(ShellDemo)

-----------------------------------------------------------------------------
MCPlaces == {<<>>, <<"etc">>, <<"etc", "a">>, <<"etc", "enc">>, <<"shadow">>, <<"shadow", "a">>,
             <<"sandbox">>, <<"sandbox", "a">>, <<"sandbox", "b">>, <<"sandbox", "b", "a">>,
             <<"new">>, <<"new", "box">>, <<"new", "box", "a">>}

MCTree == [l \in MCPlaces |->
             CASE l \in {<<>>, <<"etc">>, <<"shadow">>, <<"sandbox">>, <<"sandbox", "b">>} -> Dir
               [] l \in {<<"etc", "enc">>, <<"sandbox", "b", "a">>, <<"new">>, <<"new", "box">>,
                       <<"new", "box", "a">>} -> None
               [] OTHER -> File({"x"})]

\* One name decodes to a way from its directory into the sandbox.
MCDecoded == [s \in {"etc", "a", "b", "shadow", "sandbox", "new", "box", "..", "enc"} |->
                IF s = "enc" THEN <<"..", "sandbox", "a">> ELSE <<s>>]

Paths == {<<"sandbox">>, <<"sandbox", "a">>, <<"sandbox", "b", "a">>, <<"sandbox", "b", "..", "a">>,
          <<"sandbox", "..", "etc", "a">>, <<"shadow", "a">>, <<"etc", "enc">>}

MCSandboxes == {<<"sandbox">>, <<"etc", "..", "sandbox">>, <<"etc">>, <<"new", "box">>}

MCTooShort == {<<"etc">>}

NoArgs == Path(NoPath)

On(tools, paths) == [tool : tools, args : {[NoArgs EXCEPT !.path = p] : p \in paths}]

Moves(from, to) == [tool : {"move_file"}, args : {[NoArgs EXCEPT !.source = s, !.destination = d] : s \in from, d \in to}]

MCFsMenu ==
    On({"read_file", "write_file"}, Paths)
    \cup On({"directory_tree", "list_directory", "list_directory_with_sizes"}, {<<"sandbox">>})
    \cup On({"edit_file", "create_directory"}, {<<"sandbox", "a">>, <<"sandbox", "b", "a">>, <<"shadow", "a">>,
                                              <<"new", "box", "a">>})
    \cup On({"get_file_info", "delete_path"}, {<<"sandbox", "a">>})
    \cup On({"read_text_file", "move_file"}, {NoPath})
    \cup Moves({<<"sandbox", "a">>, <<"sandbox", "b">>}, {<<"sandbox", "b", "a">>, <<"sandbox", "..", "shadow", "a">>})
    \cup Moves({<<"etc", "a">>}, {<<"sandbox", "a">>, <<"shadow", "a">>})
    \cup CallsOf(FsDemo)

-----------------------------------------------------------------------------
Ask(tool, query, product, cents, merchant) ==
    [tool |-> tool, input |-> [query |-> query, product |-> product, cents |-> cents, merchant |-> merchant]]

MCCalls == 1..MaxIterations * MaxUses

Buy(product, cents, merchant) == Ask("checkout.purchase", NoValue, product, cents, merchant)

MCUses == {Ask("catalog.search", "cable", "unknown", NoValue, "elsewhere"),
           Ask("bank.wire", NoValue, "unknown", 3000, "amazon.com"),
           Ask("gift_card", NoValue, "unknown", 3000, "amazon.com"),
           Buy("usbc-cable-1m", 5000, "amazon.com"), Buy("usbc-cable-1m", 5100, "amazon.com"),
           Buy("usbc-cable-1m", 1900, "amazon.com"), Buy("usbc-cable-1m", NoValue, "amazon.com"),
           Buy("usbc-cable-1m", 2000, "elsewhere")}

-----------------------------------------------------------------------------
Init == /\ agent \in {"http", "shell", "fs", "shop"}
        /\ GateInit
        /\ HttpIdle /\ ShellIdle /\ FsIdle /\ ShopIdle
        /\ httpGuard \in [caller : Callers, intact : BOOLEAN]
        /\ httpGuard # [caller |-> "me", intact |-> TRUE] =>
               agent = "http" /\ (httpGuard.intact \/ httpGuard.caller = "me")

\* Bound: the calls that agents but the shopping agent make.
TwoCalls == \A c \in Calls : c > 2 => phase'[c] = "idle"

Http == agent = "http" /\ HttpNext /\ TwoCalls /\ UNCHANGED <<agent, shellVars, fsVars, shopVars>>
Shell == agent = "shell" /\ ShellNext /\ TwoCalls /\ UNCHANGED <<agent, httpVars, fsVars, shopVars>>
Fs == agent = "fs" /\ FsNext /\ TwoCalls /\ UNCHANGED <<agent, httpVars, shellVars, shopVars>>
Shop == agent = "shop" /\ ShopNext /\ UNCHANGED <<agent, httpVars, shellVars, fsVars>>

Next == Http \/ Shell \/ Fs \/ Shop

\* The fairness of FsSpec and of ShopSpec.
Proceeds ==
    \/ agent = "fs" /\ FsProceeds /\ UNCHANGED <<agent, httpVars, shellVars, shopVars>>
    \/ agent = "shop" /\ ShopProceeds /\ UNCHANGED <<agent, httpVars, shellVars, fsVars>>

Spec == Init /\ [][Next]_vars /\ WF_vars(Proceeds)

\* What the agents begin ends: the calls of the filesystem and the shopping runs.
RunsEnd == FsCallsSettle /\ RunEnds
=============================================================================
