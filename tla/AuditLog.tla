------------------------------ MODULE AuditLog ------------------------------
(***************************************************************************)
(* The receipt log (crates/capnagent-core/src/audit.rs, AuditLog): handles *)
(* opened for appending on one NDJSON file, perhaps by several processes,  *)
(* and iter, which reads it back.  An append is two writes, the JSON and   *)
(* the newline; the file system appends each write as a whole where the    *)
(* file ends at that moment, or, when it fails, a part of it or nothing.   *)
(* A line is what stands between two newlines: whole receipts and torn     *)
(* parts of them, of which only a receipt alone parses.                    *)
(***************************************************************************)
EXTENDS SequencesExt

CONSTANTS Handles,   \* open AuditLogs, each used by one thread
          Receipts,  \* the signed receipts, all different
          Nothing,
          MaxTears   \* bound on the failed writes and crashes

VARIABLES file,     \* what is on disk: receipts, Torn parts and Newlines
          pc,       \* what each handle is about to write
          current,  \* the receipt it is appending
          appended, \* history: the receipts whose append was begun
          author,   \* history: the handle each was appended through
          acked,    \* history: the receipts whose append returned Ok
          tears     \* history: how often an append did not finish

vars == <<file, pc, current, appended, author, acked, tears>>

Newline == "\n"
Torn == "torn"

ASSUME ReceiptsAssumption == Receipts \cap {Nothing, Newline, Torn} = {}
ASSUME TearsAssumption == MaxTears \in Nat

-----------------------------------------------------------------------------
\* The line that each item of the file but a Newline is on: how many newlines
\* come before it.
LineOf(i) == Cardinality({j \in 1..(i - 1) : file[j] = Newline})

\* The item at i is all there is on its line.
Alone(i) == \A j \in DOMAIN file : j # i /\ LineOf(j) = LineOf(i) => file[j] = Newline

\* AuditLog::iter: its Ok items are at these places, in their order; blank lines are
\* skipped and what does not parse is an Err that does not stop the iteration.
Parsed == {i \in DOMAIN file : file[i] \in Receipts /\ Alone(i)}

Readable == {file[i] : i \in Parsed}

-----------------------------------------------------------------------------
\* open(): what the file has stays, writes go to its end.
Init == /\ file = <<>>
        /\ pc = [h \in Handles |-> "idle"]
        /\ current = [h \in Handles |-> Nothing]
        /\ appended = <<>>
        /\ author = [r \in Receipts |-> Nothing]
        /\ acked = {}
        /\ tears = 0

\* append(receipt) begins: the JSON is written as one write_all.
WriteJson(h, r) ==
    /\ pc[h] = "idle"
    /\ r \notin ToSet(appended)
    /\ file' = Append(file, r)
    /\ appended' = Append(appended, r)
    /\ author' = [author EXCEPT ![r] = h]
    /\ current' = [current EXCEPT ![h] = r]
    /\ pc' = [pc EXCEPT ![h] = "newline"]
    /\ UNCHANGED <<acked, tears>>

\* Mutant: append returns after the JSON.
WriteNewline_Left(h) ==
    /\ pc[h] = "newline"
    /\ acked' = acked \cup {current[h]}
    /\ current' = [current EXCEPT ![h] = Nothing]
    /\ pc' = [pc EXCEPT ![h] = "idle"]
    /\ UNCHANGED <<file, appended, author, tears>>

\* The newline is written and append returns Ok.
WriteNewline(h) ==
    /\ pc[h] = "newline"
    /\ file' = Append(file, Newline)
    /\ acked' = acked \cup {current[h]}
    /\ current' = [current EXCEPT ![h] = Nothing]
    /\ pc' = [pc EXCEPT ![h] = "idle"]
    /\ UNCHANGED <<appended, author, tears>>

\* The disk is full or the process dies while the JSON is written: a part of it
\* or nothing is on disk, and append returns Err or never returns.
JsonFails(h, r) ==
    /\ pc[h] = "idle"
    /\ r \notin ToSet(appended)
    /\ tears < MaxTears
    /\ file' \in {file, Append(file, Torn)}
    /\ appended' = Append(appended, r)
    /\ author' = [author EXCEPT ![r] = h]
    /\ tears' = tears + 1
    /\ UNCHANGED <<pc, current, acked>>

\* Mutant: append meets the error by starting over on a line of its own.
NewlineFails_Restarts(h) ==
    /\ pc[h] = "newline"
    /\ tears < MaxTears
    /\ tears' = tears + 1
    /\ file' = file \o <<Newline, current[h], Newline>>
    /\ current' = [current EXCEPT ![h] = Nothing]
    /\ pc' = [pc EXCEPT ![h] = "idle"]
    /\ UNCHANGED <<appended, author, acked>>

\* The same at the second write: the receipt stays without its newline, or has it
\* and the process dies before append returns.  The handle, or one opened after
\* a restart, goes on appending where the file ends.
NewlineFails(h) ==
    /\ pc[h] = "newline"
    /\ tears < MaxTears
    /\ tears' = tears + 1
    /\ file' \in {file, Append(file, Newline)}
    /\ current' = [current EXCEPT ![h] = Nothing]
    /\ pc' = [pc EXCEPT ![h] = "idle"]
    /\ UNCHANGED <<appended, author, acked>>

Next == \E h \in Handles :
            \/ \E r \in Receipts : WriteJson(h, r) \/ JsonFails(h, r)
            \/ WriteNewline(h)
            \/ NewlineFails(h)

Spec == Init /\ [][Next]_vars

-----------------------------------------------------------------------------
TypeOK ==
    /\ file \in Seq(Receipts \cup {Torn, Newline})
    /\ pc \in [Handles -> {"idle", "newline"}]
    /\ \A h \in Handles : current[h] = Nothing <=> pc[h] = "idle"
    /\ appended \in Seq(Receipts)
    /\ author \in [Receipts -> Handles \cup {Nothing}]
    /\ acked \subseteq ToSet(appended)
    /\ tears \in 0..MaxTears

\* Whatever handles, crashes and failed writes do to the file, iter yields
\* receipts that were appended, in the order they were, each at most once.
ReadsInAppendOrder ==
    \A i, j \in Parsed :
        i < j => \E m, n \in DOMAIN appended :
                     m < n /\ appended[m] = file[i] /\ appended[n] = file[j]

\* Once append has returned Ok and the receipt can be read, it stays readable:
\* no later append, crash or error, through any handle, can touch its line.
KeepsReadable == acked \cap Readable \subseteq Readable'

AckedLinesAreFinal == [][KeepsReadable]_vars

\* An acknowledged receipt that cannot be read shares its line with the trace of
\* an append that did not finish, or with another handle's receipt: one writer
\* whose writes all succeed loses nothing.
LossHasCause ==
    \A i \in DOMAIN file :
        file[i] \in acked \ Readable =>
            \E j \in DOMAIN file :
                /\ LineOf(j) = LineOf(i)
                /\ \/ file[j] = Torn
                   \/ file[j] \in Receipts \ acked
                   \/ file[j] \in acked /\ author[file[j]] # author[file[i]]

\* audit.rs: a partially written line is the only corruption, so an append that
\* returned Ok is read back.
AckedIsReadable == acked \subseteq Readable
=============================================================================
