------------------------------- MODULE FsAgent -------------------------------
(***************************************************************************)
(* The sandboxed filesystem agent (examples/mcp-fs-agent/src): the issuers,*)
(* the context that makes a call's path canonical, and the client, which   *)
(* awaits the file system between its steps while other calls run.  The    *)
(* guard in between is GatedTool.  A path is an absolute sequence of       *)
(* segments; there are no links, which the agent leaves to the operator.   *)
(***************************************************************************)
EXTENDS GatedTool, SequencesExt

CONSTANTS Places,   \* the locations of the file system, as resolved paths
          Tree,     \* what is there at first
          Up,       \* the segment ".."
          Decoded,  \* what percent-decoding makes of each segment
          Sandboxes, \* paths given to the issuers
          TooShort, \* those under eight characters or without a separator
          FsMenu,   \* the calls made: tool and arguments
          NoPath

VARIABLES
    fsCap,    \* the resolved prefix of each capability issued, to read and to write
    files,    \* what is at each location
    fsCalled, \* the guarded client, the tool and the arguments of each call
    fsLog,    \* the calls in the client's log
    job,      \* what each running call awaits and has gathered
    serial,   \* history: the files if each call had run at once
    crossed   \* history: calls whose changes may disturb each other's ran at the same time

fsVars == <<fsCap, files, fsCalled, fsLog, job, serial, crossed>>

ReadTools == {"read_file", "read_text_file", "list_directory", "list_directory_with_sizes",
              "directory_tree", "get_file_info"}
WriteTools == {"write_file", "edit_file", "create_directory"}
Kinds == {"read", "write"}
FsTools == ReadTools \cup WriteTools \cup {"move_file", "delete_path"}

Dir == [kind |-> "dir"]
None == [kind |-> "none"]
File(text) == [kind |-> "file", text |-> text]
TextOf(node) == IF node.kind = "file" THEN node.text ELSE {}

-----------------------------------------------------------------------------
\* path.resolve, of a path that is absolute.
Resolve(path) ==
    FoldLeft(LAMBDA at, seg : IF seg = Up THEN SubSeq(at, 1, Len(at) - 1)
                              ELSE Append(at, seg), <<>>, path)

\* canonicalizePathArgs, which looks at `path` only.
Canonical(path) == Resolve(FlattenSeq([i \in DOMAIN path |-> Decoded[path[i]]]))

\* Mutant: the prefix is compared without its separator.
Inside_NoSeparator(root, path) ==
    path # NoPath /\ (IsPrefix(root, path) \/ (path # <<>> /\ path[1] = "shadow"))

\* insideClause: the prefix itself, or the prefix and a separator at the start.
Inside(root, path) == path # NoPath /\ IsPrefix(root, path)

\* issueSandboxReadCapability and issueSandboxWriteCapability; buildSandboxClauses
\* throws for a prefix that is not path-like.
IssueSandbox(kind, prefix) ==
    /\ fsCap[kind] = NoPath
    /\ prefix \notin TooShort
    /\ fsCap' = [fsCap EXCEPT ![kind] = Resolve(prefix)]
    /\ UNCHANGED <<gate, files, fsCalled, fsLog, job, serial, crossed>>

\* The predicates of both capabilities over the context of createGuardedFsClient.
FsAdmits(kind, tool, args) ==
    \/ /\ tool \in (IF kind = "read" THEN ReadTools ELSE WriteTools)
       /\ args.path # NoPath /\ Inside(fsCap[kind], Canonical(args.path))
    \/ /\ kind = "write" /\ tool = "move_file"
       /\ Inside(fsCap.write, args.source) /\ Inside(fsCap.write, args.destination)

\* A call of the client wrapped with one of the capabilities.
FsCall(c, kind, tool, args) ==
    /\ fsCap[kind] # NoPath
    /\ Decide(c, FsAdmits(kind, tool, args))
    /\ fsCalled' = [fsCalled EXCEPT ![c] = [kind |-> kind, tool |-> tool, args |-> args]]
    /\ UNCHANGED <<fsCap, files, fsLog, job, serial, crossed>>

-----------------------------------------------------------------------------
\* The file system.  Looking a path up walks through directories that exist; as there
\* are no links, the walk comes to where the path resolves to.
Lookup(fs, path) ==
    LET way(i) == Resolve(SubSeq(path, 1, i))
    IN IF /\ \A i \in 0..Len(path) - 1 : way(i) \in Places /\ fs[way(i)] = Dir
          /\ Resolve(path) \in Places
       THEN Resolve(path) ELSE NoPath

Children(fs, at) ==
    {l \in Places : Len(l) = Len(at) + 1 /\ IsPrefix(at, l) /\ fs[l] # None}

Openable(fs, at) == at # NoPath /\ fs[at] # Dir

\* mkdir with recursive: every prefix that is missing, unless a file is in the way.
MakeDirs(fs, at) ==
    IF at \notin Places \/ \E l \in Places : IsPrefix(l, at) /\ fs[l].kind = "file" THEN fs
    ELSE [l \in Places |-> IF IsPrefix(l, at) THEN Dir ELSE fs[l]]

\* Where a rename puts what is at l.
Moved(from, to, l) ==
    IF IsPrefix(from, l) THEN to \o SubSeq(l, Len(from) + 1, Len(l)) ELSE l

\* rename: a file over a file, a directory over nothing or an empty directory, and
\* never into itself.
MayMove(fs, from, to) ==
    /\ from # NoPath /\ to # NoPath /\ fs[from] # None /\ from # to
    /\ ~IsPrefix(from, to) /\ Children(fs, to) = {}
    /\ fs[to] \in {None} \/ fs[to].kind = fs[from].kind
    /\ \A l \in Places : IsPrefix(from, l) /\ fs[l] # None => Moved(from, to, l) \in Places

Rename(fs, from, to) ==
    [l \in Places |->
        IF IsPrefix(to, l)
        THEN LET old == from \o SubSeq(l, Len(to) + 1, Len(l))
             IN IF old \in Places THEN fs[old] ELSE None
        ELSE IF IsPrefix(from, l) THEN None ELSE fs[l]]

\* rm with recursive and force.
RemoveAll(fs, at) == [l \in Places |-> IF at # NoPath /\ IsPrefix(at, l) THEN None ELSE fs[l]]

\* editFile's loop: every occurrence of a literal is replaced.
Edited(text, args) ==
    IF args.find \in text THEN (text \ {args.find}) \cup {args.replace} ELSE text

\* The tools that change files, as if at once.
AtOnce(fs, tool, args) ==
    LET at == IF args.path = NoPath THEN NoPath ELSE Lookup(fs, args.path)
    IN CASE tool = "write_file" /\ Openable(fs, at) -> [fs EXCEPT ![at] = File(args.text)]
         [] tool = "edit_file" /\ Openable(fs, at) /\ fs[at] # None ->
                [fs EXCEPT ![at] = File(Edited(@.text, args))]
         [] tool = "create_directory" -> MakeDirs(fs, Resolve(args.path))
         [] tool = "delete_path" -> RemoveAll(fs, at)
         [] tool = "move_file" /\ MayMove(fs, Lookup(fs, args.source), Lookup(fs, args.destination)) ->
                Rename(fs, Lookup(fs, args.source), Lookup(fs, args.destination))
         [] OTHER -> fs

-----------------------------------------------------------------------------
\* What a call that reached the client does first.
FirstStep(tool) ==
    CASE tool = "edit_file" -> "read"
      [] tool = "write_file" -> "truncate"
      [] tool \in {"directory_tree", "list_directory_with_sizes"} -> "list"
      [] OTHER -> "once"

NoJob == [step |-> "none", at |-> NoPath, text |-> {}, pending |-> {}, seen |-> {}]

Args(c) == fsCalled[c].args
Tool(c) == fsCalled[c].tool
Mutates(c) == Tool(c) \notin ReadTools
Rewrites(c) == Tool(c) \in {"write_file", "edit_file"}

\* Calls that change the same file, or of which one makes, moves or removes
\* directories; others that change files have nothing to do with each other.
Clash(c, d) ==
    /\ Mutates(c) /\ Mutates(d)
    /\ Rewrites(c) /\ Rewrites(d) => Resolve(Args(c).path) = Resolve(Args(d).path)

\* createFsClient's callTool: the call is logged, and dispatched up to its first await.
FsStart(c) ==
    /\ Enter(c, "running")
    /\ fsLog' = fsLog \cup {c}
    /\ job' = [job EXCEPT ![c].step = FirstStep(Tool(c)), ![c].text = Args(c).text]
    /\ serial' = AtOnce(serial, Tool(c), Args(c))
    /\ crossed' = (crossed \/ \E d \in Calls : phase[d] = "running" /\ Clash(c, d))
    /\ UNCHANGED <<fsCap, files, fsCalled>>

At(c, step) == phase[c] = "running" /\ job[c].step = step

\* What a tool that needs the file system once shows of it.
Shown(c) ==
    LET at == IF Args(c).path = NoPath THEN NoPath ELSE Lookup(files, Args(c).path)
    IN IF Mutates(c) \/ at = NoPath THEN {}
       ELSE IF Tool(c) # "list_directory" THEN {at}
       ELSE IF files[at] = Dir THEN Children(files, at) ELSE {}

\* An open file is where its directory entry went, or nowhere once replaced.
Followed(c, d) ==
    LET from == Lookup(files, Args(c).source)
        to == Lookup(files, Args(c).destination)
    IN IF Tool(c) = "move_file" /\ job[d].at # NoPath /\ MayMove(files, from, to)
       THEN IF job[d].at = to THEN NoPath ELSE Moved(from, to, job[d].at)
       ELSE job[d].at

\* readFile, listDirectory, getFileInfo, createDirectory, moveFile, deletePath: one
\* operation, whose failure is the call's.
FsOnce(c) ==
    /\ At(c, "once")
    /\ Settle(c)
    /\ files' = AtOnce(files, Tool(c), Args(c))
    /\ job' = [d \in Calls |-> IF d = c THEN [NoJob EXCEPT !.seen = Shown(c)]
                               ELSE [job[d] EXCEPT !.at = Followed(c, d)]]
    /\ UNCHANGED <<fsCap, fsCalled, fsLog, serial, crossed>>

\* editFile reads the file; it has the new text when it has what was in it.
FsRead(c) ==
    LET at == Lookup(files, Args(c).path)
        found == at # NoPath /\ files[at].kind = "file"
    IN /\ At(c, "read")
       /\ IF found
          THEN /\ job' = [job EXCEPT ![c].step = "truncate", ![c].text = Edited(files[at].text, Args(c))]
               /\ UNCHANGED gate
          ELSE Settle(c) /\ UNCHANGED job
       /\ UNCHANGED <<fsCap, files, fsCalled, fsLog, serial, crossed>>

\* Mutant: the new text is put in a temporary file first, the same one for every call.
FsTruncate_OneTemp(c) ==
    LET at == Lookup(files, Args(c).path)
    IN /\ At(c, "truncate")
       /\ IF Openable(files, at)
          THEN /\ files' = [files EXCEPT ![at] = File({})]
               /\ job' = [d \in Calls |->
                            IF d = c THEN [job[c] EXCEPT !.step = "fill", !.at = at]
                            ELSE IF At(d, "fill") THEN [job[d] EXCEPT !.text = job[c].text]
                            ELSE job[d]]
               /\ UNCHANGED gate
          ELSE Settle(c) /\ UNCHANGED <<files, job>>
       /\ UNCHANGED <<fsCap, fsCalled, fsLog, serial, crossed>>

\* fs.writeFile, called by writeFile and editFile: the file is emptied or made,
FsTruncate(c) ==
    LET at == Lookup(files, Args(c).path)
    IN /\ At(c, "truncate")
       /\ IF Openable(files, at)
          THEN /\ files' = [files EXCEPT ![at] = File({})]
               /\ job' = [job EXCEPT ![c].step = "fill", ![c].at = at]
               /\ UNCHANGED gate
          ELSE Settle(c) /\ UNCHANGED <<files, job>>
       /\ UNCHANGED <<fsCap, fsCalled, fsLog, serial, crossed>>

\* and then filled from its start: of what another call has put there in between, the
\* part beyond the end of the text stays.
FsFill(c) ==
    LET at == job[c].at
    IN /\ At(c, "fill")
       /\ Settle(c)
       /\ \/ at = NoPath /\ UNCHANGED files
          \/ /\ at # NoPath
             /\ \E rest \in SUBSET TextOf(files[at]) :
                    files' = [files EXCEPT ![at] = File(job[c].text \cup rest)]
       /\ UNCHANGED <<fsCap, fsCalled, fsLog, job, serial, crossed>>

\* The readdir of listDirectoryWithSizes, or walk's first stat: a tree of a file is
\* the file, a listing of one fails.
FsList(c) ==
    LET at == Lookup(files, Args(c).path)
        tree == Tool(c) = "directory_tree"
    IN /\ At(c, "list")
       /\ IF at # NoPath /\ (files[at] = Dir \/ (tree /\ files[at] # None))
          THEN /\ job' = [job EXCEPT ![c].step = "stat",
                                     ![c].pending = IF tree THEN {at} ELSE Children(files, at)]
               /\ UNCHANGED gate
          ELSE Settle(c) /\ UNCHANGED job
       /\ UNCHANGED <<fsCap, files, fsCalled, fsLog, serial, crossed>>

\* One entry is looked at.  walk goes on to what is in a directory, and fails as a
\* whole when an entry is gone; the listing of sizes does neither.
FsStat(c, l) ==
    LET tree == Tool(c) = "directory_tree"
        below == IF tree /\ files[l] = Dir THEN Children(files, l) ELSE {}
    IN /\ At(c, "stat") /\ l \in job[c].pending
       /\ ~(tree /\ files[l] = None)
       /\ job' = [job EXCEPT ![c].pending = (@ \ {l}) \cup below, ![c].seen = @ \cup {l}]
       /\ UNCHANGED <<gate, fsCap, files, fsCalled, fsLog, serial, crossed>>

\* Mutant: an entry that is gone is waited for.
FsListed_Waits(c) ==
    /\ At(c, "stat")
    /\ job[c].pending = {}
    /\ Settle(c)
    /\ UNCHANGED fsVars

FsListed(c) ==
    /\ At(c, "stat")
    /\ \/ job[c].pending = {}
       \/ Tool(c) = "directory_tree" /\ \E l \in job[c].pending : files[l] = None
    /\ Settle(c)
    /\ UNCHANGED fsVars

FsRefuse(c) == Refuse(c) /\ UNCHANGED fsVars

FsStep(c) ==
    \/ FsStart(c) \/ FsRefuse(c)
    \/ FsOnce(c) \/ FsRead(c) \/ FsTruncate(c) \/ FsFill(c) \/ FsList(c) \/ FsListed(c)
    \/ \E l \in Places : FsStat(c, l)

FsProceeds == \E c \in Calls : FsStep(c)

-----------------------------------------------------------------------------
FsIdle ==
    /\ fsCap = [kind \in Kinds |-> NoPath]
    /\ files = Tree /\ serial = Tree
    /\ fsCalled = [c \in Calls |-> NoPath]
    /\ fsLog = {}
    /\ job = [c \in Calls |-> NoJob]
    /\ crossed = FALSE

FsInit == GateInit /\ FsIdle

FsNext ==
    \/ \E kind \in Kinds, prefix \in Sandboxes : IssueSandbox(kind, prefix)
    \/ \E c \in Calls :
         \/ \E kind \in Kinds, call \in FsMenu : FsCall(c, kind, call.tool, call.args)
         \/ FsStep(c)

\* The file system answers each operation, and the event loop gets to some answer;
\* which one is left open.
FsSpec == FsInit /\ [][FsNext]_<<gate, fsVars>> /\ WF_<<gate, fsVars>>(FsProceeds)

-----------------------------------------------------------------------------
FsWords == UNION {{m.args.find, m.args.replace} \cup m.args.text : m \in FsMenu}

IsNode(node) == node \in {Dir, None} \/ (node = File(node.text) /\ node.text \subseteq FsWords)

ASSUME PlacesAssumption ==
    /\ Places \subseteq Seq(DOMAIN Decoded) /\ NoPath \notin Places
    /\ \A prefix \in Sandboxes : Resolve(prefix) \in Places
    /\ Tree = [l \in Places |-> Tree[l]] /\ \A l \in Places : IsNode(Tree[l])
    /\ FsMenu \subseteq [tool : {call.tool : call \in FsMenu}, args : {call.args : call \in FsMenu}]

FsTypeOK ==
    /\ fsCap \in [Kinds -> Places \cup {NoPath}]
    /\ DOMAIN files = Places /\ DOMAIN serial = Places
    /\ \A l \in Places : IsNode(files[l]) /\ IsNode(serial[l])
    /\ \A c \in Calls : fsCalled[c] = NoPath \/ (fsCalled[c].kind \in Kinds
                            /\ [tool |-> Tool(c), args |-> Args(c)] \in FsMenu)
    /\ fsLog \subseteq ran
    /\ \A c \in Calls :
        /\ job[c].step \in {"none", "once", "read", "truncate", "fill", "list", "stat"}
        /\ job[c].at \in Seq(DOMAIN Decoded) \cup {NoPath}
        /\ job[c].pending \cup job[c].seen \subseteq Places

\* A call that the check sees as the file system does: decoding does not change where
\* its path leads, and the paths of a move, which are not made canonical, are.
Plain(c) ==
    /\ Args(c).path # NoPath => Resolve(Args(c).path) = Canonical(Args(c).path)
    /\ \A path \in {Args(c).source, Args(c).destination} \ {NoPath} : Resolve(path) = path

\* However calls interleave, the files that change are inside the sandbox of the
\* write capability, and what is there stays but for a move: `..`, a sibling with the
\* prefix in its name, the tool names and the read capability do not lead there, for
\* calls the check sees as the file system does (canonicalizePathArgs, insideClause).
\* Outside, the directories on the way to a sandbox that is not there yet are made.
ChangesAreGranted ==
    \A l \in Places :
        files'[l] # files[l] /\ (\A c \in fsLog : Plain(c)) =>
            /\ fsCap.write # NoPath
            /\ \/ IsPrefix(fsCap.write, l)
               \/ IsPrefix(l, fsCap.write) /\ files[l] = None /\ files'[l] = Dir
            /\ files'[l] = None => \E c \in Calls : phase[c] = "running" /\ Tool(c) = "move_file"

\* What a call shows is inside the sandbox of the read capability.
ShownIsInside ==
    \A c \in Calls :
        job[c].seen # {} /\ Plain(c) =>
            fsCalled[c].kind = "read" /\ \A l \in job[c].seen : IsPrefix(fsCap.read, l)

\* No step shows or changes anything outside its sandbox.
StaysInSandbox == [][ShownIsInside' /\ ChangesAreGranted]_<<files, job>>

\* The steps of the tools add up to one operation each, also of calls at work on
\* different files at the same time: when all are done, the files are what the calls
\* make of them one after the other, unless two overlapped that rewrite the same file
\* or one of which makes or moves directories.  (Two edits of one file that overlap
\* lose an update: editFile writes what it read.)
SerialUnlessCrossed ==
    ~crossed /\ (\A c \in Calls : phase[c] # "running") => files = serial

\* Every call that reaches the client settles, also a walk over a tree that others
\* are changing: as there are finitely many calls, again and again none is running.
FsCallsSettle == []<>(\A c \in fsLog : phase[c] = "settled")
=============================================================================
