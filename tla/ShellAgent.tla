----------------------------- MODULE ShellAgent -----------------------------
(***************************************************************************)
(* The allowlisted shell agent (examples/mcp-shell-agent/src): the issuer, *)
(* the context that names the first two words of argv, and the client that *)
(* runs the whole of it.  The guard in between is GatedTool; the expiry in *)
(* the caveats, 2099, never comes.                                         *)
(***************************************************************************)
EXTENDS GatedTool, Naturals, Sequences

CONSTANTS Words,      \* strings, the empty one among them
          Empty,
          Quoted,     \* those with a double quote in them
          Commands,   \* the commands and lists of subcommands given to the issuer
          NotString,  \* an element of argv of another type
          NoWord,     \* an absent field, or an argv that is not an array
          ShellMenu   \* the calls made: tool and arguments

VARIABLES
    shellCap,    \* the issued capability, NoWord before there is one
    shellCalled, \* the tool and the arguments of each call
    shellLog     \* what the client executed: calls and their argv

shellVars == <<shellCap, shellCalled, shellLog>>

ShellFields == Words \cup {NoWord}

ASSUME WordsAssumption ==
    /\ Empty \in Words /\ NotString \notin Words
    /\ \A list \in Commands : list.cmd \in Words /\ list.subs \subseteq Words
    /\ ShellMenu \subseteq [tool : {call.tool : call \in ShellMenu},
                           args : [argv : {call.args.argv : call \in ShellMenu},
                                   cmd : ShellFields, sub : ShellFields]]

\* Arguments: argv, and the fields cmd and sub when the caller sets them itself.
IsArgv(argv) == argv # NoWord /\ Len(argv) > 0

-----------------------------------------------------------------------------
\* The checks of issueShellAllowlistCapability.
WellFormedList(cmd, subs) ==
    /\ subs # {}
    /\ cmd # Empty /\ Empty \notin subs
    /\ (subs \cup {cmd}) \cap Quoted = {}

\* It throws when one fails, and there is no capability.
IssueShellCapability(cmd, subs) ==
    /\ shellCap = NoWord
    /\ WellFormedList(cmd, subs)
    /\ shellCap' = [cmd |-> cmd, subs |-> subs]
    /\ UNCHANGED <<gate, shellCalled, shellLog>>

-----------------------------------------------------------------------------
\* The second word, empty when there is none or it is no string.
SubOf(argv) == IF Len(argv) > 1 /\ argv[2] \in Words THEN argv[2] ELSE Empty

\* Mutant: fields the caller set are kept.
NormalizeArgv_FieldsKept(args) ==
    IF IsArgv(args.argv) /\ args.argv[1] \in Words /\ args.cmd = NoWord
    THEN [args EXCEPT !.cmd = args.argv[1], !.sub = SubOf(args.argv)] ELSE args

\* normalizeArgs: of a missing or odd argv the arguments stay as they are.
NormalizeArgv(args) ==
    IF IsArgv(args.argv) /\ args.argv[1] \in Words
    THEN [args EXCEPT !.cmd = args.argv[1], !.sub = SubOf(args.argv)] ELSE args

\* The caveats over the context of createGuardedShellClient's provider.
ShellAdmits(tool, args) ==
    /\ tool = "shell.exec"
    /\ NormalizeArgv(args).cmd = shellCap.cmd
    /\ NormalizeArgv(args).sub \in shellCap.subs

\* A call of the wrapped client.
ShellCall(c, tool, args) ==
    /\ shellCap # NoWord
    /\ Decide(c, ShellAdmits(tool, args))
    /\ shellCalled' = [shellCalled EXCEPT ![c] = [tool |-> tool, args |-> args]]
    /\ UNCHANGED <<shellCap, shellLog>>

\* createShellClient's callTool: another tool, or no argv, throws before the log.
ShellExec(c) ==
    LET tool == shellCalled[c].tool
        argv == shellCalled[c].args.argv
    IN /\ Enter(c, "settled")
       /\ shellLog' = IF tool = "shell.exec" /\ IsArgv(argv)
                      THEN shellLog \cup {[call |-> c, argv |-> argv]} ELSE shellLog
       /\ UNCHANGED <<shellCap, shellCalled>>

ShellRefuse(c) == Refuse(c) /\ UNCHANGED shellVars

-----------------------------------------------------------------------------
ShellIdle ==
    /\ shellCap = NoWord
    /\ shellCalled = [c \in Calls |-> NoWord]
    /\ shellLog = {}

ShellInit == GateInit /\ ShellIdle

ShellNext ==
    \/ \E list \in Commands : IssueShellCapability(list.cmd, list.subs)
    \/ \E c \in Calls :
         \/ \E call \in ShellMenu : ShellCall(c, call.tool, call.args)
         \/ ShellExec(c) \/ ShellRefuse(c)

ShellSpec == ShellInit /\ [][ShellNext]_<<gate, shellVars>>

-----------------------------------------------------------------------------
ShellTypeOK ==
    /\ shellCap \in [cmd : Words, subs : SUBSET Words] \cup {NoWord}
    /\ \A c \in Calls : shellCalled[c] \in ShellMenu \cup {NoWord}
    /\ shellLog \subseteq [call : ran, argv : {m.args.argv : m \in ShellMenu} \ {NoWord, <<>>}]

\* What was checked is what is executed: of a command whose first word is a string,
\* the first two words are the ones on the list, neither is empty, and there are at
\* least two, whatever cmd and sub the call claims.
ExecutedIsListed ==
    \A e \in shellLog :
        e.argv[1] \in Words =>
            /\ Len(e.argv) > 1
            /\ e.argv[1] = shellCap.cmd /\ e.argv[2] \in shellCap.subs
            /\ {e.argv[1], e.argv[2]} \cap (Quoted \cup {Empty}) = {}
=============================================================================
