--------------------------- MODULE AuditLogProofs ---------------------------
(***************************************************************************)
(* The receipt log for any number of handles, receipts and failures.  The  *)
(* file only grows.  What makes an acknowledged line final, and a loss     *)
(* visible, is where the newlines are: after an acknowledged receipt comes *)
(* one before anything else of its handle.                                 *)
(***************************************************************************)
EXTENDS AuditLog, FiniteSetTheorems, TLAPS

Items == Receipts \cup {Torn, Newline}

IsReceipt(i) == file[i] \in Receipts

\* Receipts are in the file in the order their appends began.
WrittenInOrder ==
    \A i, j \in DOMAIN file :
        i < j /\ IsReceipt(i) /\ IsReceipt(j) =>
            \E m, n \in DOMAIN appended :
                m < n /\ appended[m] = file[i] /\ appended[n] = file[j]

WrittenIsAppended == \A i \in DOMAIN file : IsReceipt(i) => file[i] \in ToSet(appended)

\* A handle that owes a newline owes it to the last receipt it wrote.
OwesItsLast ==
    \A h \in Handles : pc[h] = "newline" =>
        /\ current[h] \in ToSet(appended) /\ author[current[h]] = h
        /\ \A i, j \in DOMAIN file :
              file[i] = current[h] /\ IsReceipt(j) /\ author[file[j]] = h => j <= i

\* Between an acknowledged receipt and the next of its handle there is a newline.
AckedIsClosed ==
    \A i \in DOMAIN file : file[i] \in acked =>
        \E k \in DOMAIN file :
            /\ i < k /\ file[k] = Newline
            /\ \A j \in DOMAIN file :
                  i < j /\ IsReceipt(j) /\ author[file[j]] = author[file[i]] => k < j

Types == TypeOK /\ current \in [Handles -> Receipts \cup {Nothing}]

IInv == Types /\ WrittenInOrder /\ WrittenIsAppended /\ OwesItsLast /\ AckedIsClosed

-----------------------------------------------------------------------------
\* Sequences and lines

\* The number of newlines before a place.
Lines(s, i) == Cardinality({j \in 1..(i - 1) : s[j] = Newline})

LEMMA Appended ==
    ASSUME NEW S, NEW s \in Seq(S), NEW x \in S
    PROVE  /\ Append(s, x) \in Seq(S)
           /\ DOMAIN s = 1..Len(s) /\ Len(s) \in Nat
           /\ DOMAIN Append(s, x) = 1..(Len(s) + 1)
           /\ Append(s, x)[Len(s) + 1] = x
           /\ \A i \in DOMAIN s : i \in DOMAIN Append(s, x) /\ Append(s, x)[i] = s[i]
           /\ \A i \in DOMAIN Append(s, x) : i \in DOMAIN s \/ i = Len(s) + 1
           /\ ToSet(Append(s, x)) = ToSet(s) \cup {x}
<1>1. /\ Append(s, x) \in Seq(S) /\ DOMAIN s = 1..Len(s) /\ Len(s) \in Nat
      /\ DOMAIN Append(s, x) = 1..(Len(s) + 1) /\ Append(s, x)[Len(s) + 1] = x
      /\ \A i \in DOMAIN s : Append(s, x)[i] = s[i]
  OBVIOUS
<1>2. \A i \in DOMAIN s : i \in DOMAIN Append(s, x)
  BY <1>1
<1>3. \A i \in DOMAIN Append(s, x) : i \in DOMAIN s \/ i = Len(s) + 1
  BY <1>1
<1>4. Len(s) + 1 \in DOMAIN Append(s, x)
  BY <1>1
<1>5. ToSet(Append(s, x)) = ToSet(s) \cup {x}
  BY <1>1, <1>2, <1>3, <1>4 DEF ToSet
<1> QED BY <1>1, <1>2, <1>3, <1>5

\* A newline puts what comes after it on a later line.
LEMMA NewlineSeparates ==
    ASSUME NEW s, NEW i \in Nat, NEW k \in Nat, NEW j \in Nat,
           1 <= i, i < k, k < j, s[k] = Newline
    PROVE  Lines(s, i) # Lines(s, j)
<1> DEFINE before == {m \in 1..(i - 1) : s[m] = Newline}
           later == {m \in 1..(j - 1) : s[m] = Newline}
<1>1. before \subseteq later /\ k \in later /\ k \notin before
  OBVIOUS
<1>2. IsFiniteSet(1..(j - 1))
  BY FS_Interval
<1>3. IsFiniteSet(later)
  BY <1>2, FS_Subset
<1>4. Cardinality(before) = Cardinality(later) => before = later
  BY <1>1, <1>3, FS_Subset
<1> QED BY <1>1, <1>4 DEF Lines

\* The lines of a part of the file do not depend on what comes after it.
LEMMA LinesStay ==
    ASSUME NEW s, NEW t, NEW n \in Nat, NEW i \in 1..n,
           \A m \in 1..n : t[m] = s[m]
    PROVE  Lines(t, i) = Lines(s, i)
<1>1. \A m \in 1..(i - 1) : m \in 1..n
  OBVIOUS
<1>2. {m \in 1..(i - 1) : t[m] = Newline} = {m \in 1..(i - 1) : s[m] = Newline}
  BY <1>1
<1> QED BY <1>2 DEF Lines

-----------------------------------------------------------------------------
\* What every step does to the file: at most one item comes to its end.
Grown(x) == file' = Append(file, x)

Grows == file' = file \/ \E x \in Items : Grown(x)

LEMMA StepsGrow ==
    ASSUME Types, [Next]_vars
    PROVE  Grows
<1>1. ASSUME NEW h \in Handles, NEW r \in Receipts, WriteJson(h, r) PROVE Grows
  BY <1>1 DEF WriteJson, Grows, Grown, Items
<1>2. ASSUME NEW h \in Handles, NEW r \in Receipts, JsonFails(h, r) PROVE Grows
  BY <1>2 DEF JsonFails, Grows, Grown, Items
<1>3. ASSUME NEW h \in Handles, WriteNewline(h) PROVE Grows
  BY <1>3 DEF WriteNewline, Grows, Grown, Items
<1>4. ASSUME NEW h \in Handles, NewlineFails(h) PROVE Grows
  BY <1>4 DEF NewlineFails, Grows, Grown, Items
<1> QED BY <1>1, <1>2, <1>3, <1>4 DEF Next, vars, Grows

LEMMA FilePrefix ==
    ASSUME Types, Grows
    PROVE  /\ file \in Seq(Items) /\ file' \in Seq(Items)
           /\ DOMAIN file = 1..Len(file) /\ Len(file) \in Nat
           /\ DOMAIN file' \subseteq 1..(Len(file) + 1)
           /\ \A i \in DOMAIN file : i \in DOMAIN file' /\ file'[i] = file[i]
<1>1. file \in Seq(Items)
  BY DEF Types, TypeOK, Items
<1>2. CASE file' = file
  BY <1>1, <1>2
<1>3. CASE \E x \in Items : Grown(x)
  BY <1>1, <1>3, Appended DEF Grown
<1> QED BY <1>2, <1>3 DEF Grows

-----------------------------------------------------------------------------
\* One step

\* The lines of what is written are where they were.
LEMMA LineOfStays ==
    ASSUME Types, Grows, NEW i \in DOMAIN file
    PROVE  LineOf(i)' = LineOf(i)
<1>1. /\ Len(file) \in Nat /\ i \in 1..Len(file)
      /\ \A m \in 1..Len(file) : file'[m] = file[m]
  BY FilePrefix
<1>2. Lines(file', i) = Lines(file, i)
  BY <1>1, LinesStay
<1> QED BY <1>2 DEF LineOf, Lines

\* What closes a line is not touched by what comes later.
LEMMA StepIsFinal ==
    ASSUME IInv, [Next]_vars
    PROVE  KeepsReadable
<1>1. Types /\ Grows
  BY StepsGrow DEF IInv
<1>2. /\ DOMAIN file = 1..Len(file) /\ Len(file) \in Nat
      /\ DOMAIN file' \subseteq 1..(Len(file) + 1)
      /\ \A i \in DOMAIN file : i \in DOMAIN file' /\ file'[i] = file[i]
  BY <1>1, FilePrefix
<1> SUFFICES ASSUME NEW r \in acked, r \in Readable
             PROVE  r \in Readable'
  BY DEF KeepsReadable
<1>3. PICK i \in Parsed : file[i] = r
  BY DEF Readable
<1>4. i \in DOMAIN file /\ i \in DOMAIN file' /\ file'[i] = r /\ r \in Receipts /\ Alone(i)
  BY <1>2, <1>3 DEF Parsed
<1>5. ASSUME NEW j \in DOMAIN file', j # i, LineOf(j)' = LineOf(i)'
      PROVE  file'[j] = Newline
  <2>1. CASE j \in DOMAIN file
    <3>1. LineOf(j) = LineOf(i)
      BY <1>1, <1>4, <1>5, <2>1, LineOfStays
    <3> QED BY <1>2, <1>4, <1>5, <2>1, <3>1 DEF Alone
  <2>2. CASE j \notin DOMAIN file
    <3>1. PICK k \in DOMAIN file : i < k /\ file[k] = Newline
      BY <1>3, <1>4 DEF IInv, AckedIsClosed
    <3>2. j = Len(file) + 1
      BY <1>2, <2>2
    <3>3. i \in Nat /\ k \in Nat /\ j \in Nat /\ 1 <= i /\ k < j /\ file'[k] = Newline
      BY <1>2, <1>4, <3>1, <3>2
    <3>4. Lines(file', i) # Lines(file', j)
      BY <3>1, <3>3, NewlineSeparates
    <3> QED BY <1>5, <3>4 DEF LineOf, Lines
  <2> QED BY <2>1, <2>2
<1>6. Alone(i)'
  BY <1>5 DEF Alone
<1>7. i \in Parsed'
  BY <1>4, <1>6 DEF Parsed
<1> QED BY <1>4, <1>7 DEF Readable

\* The receipts on one line that are acknowledged are of different handles.
LEMMA LossIsCaused ==
    ASSUME IInv
    PROVE  LossHasCause
<1>1. file \in Seq(Items) /\ DOMAIN file = 1..Len(file) /\ Len(file) \in Nat
  BY DEF IInv, Types, TypeOK, Items
<1>2. acked \subseteq Receipts
  BY DEF IInv, Types, TypeOK, ToSet
<1>3. ASSUME NEW i \in DOMAIN file, NEW j \in DOMAIN file, i < j,
             file[i] \in acked, file[j] \in Receipts, author[file[j]] = author[file[i]]
      PROVE  LineOf(i) # LineOf(j)
  <2>1. PICK k \in DOMAIN file : i < k /\ file[k] = Newline /\ k < j
    BY <1>3 DEF IInv, AckedIsClosed, IsReceipt
  <2>2. i \in Nat /\ j \in Nat /\ k \in Nat /\ 1 <= i
    BY <1>1
  <2>3. Lines(file, i) # Lines(file, j)
    BY <2>1, <2>2, NewlineSeparates
  <2> QED BY <2>3 DEF LineOf, Lines
<1> SUFFICES ASSUME NEW i \in DOMAIN file, file[i] \in acked \ Readable
             PROVE  \E j \in DOMAIN file :
                        /\ LineOf(j) = LineOf(i)
                        /\ \/ file[j] = Torn
                           \/ file[j] \in Receipts \ acked
                           \/ file[j] \in acked /\ author[file[j]] # author[file[i]]
  BY DEF LossHasCause
<1>4. ~Alone(i)
  BY <1>2 DEF Readable, Parsed
<1>5. PICK j \in DOMAIN file : j # i /\ LineOf(j) = LineOf(i) /\ file[j] # Newline
  BY <1>4 DEF Alone
<1>6. file[j] = Torn \/ file[j] \in Receipts
  BY <1>1, <1>5 DEF Items
<1>7. CASE file[j] \in acked
  <2>1. i < j \/ j < i
    BY <1>1, <1>5
  <2>2. author[file[j]] # author[file[i]]
    BY <1>2, <1>3, <1>5, <1>7, <2>1
  <2> QED BY <1>5, <1>7, <2>2
<1> QED BY <1>5, <1>6, <1>7

-----------------------------------------------------------------------------
\* The invariant is inductive

LEMMA StateTypes ==
    ASSUME IInv
    PROVE  /\ file \in Seq(Items) /\ DOMAIN file = 1..Len(file) /\ Len(file) \in Nat
           /\ appended \in Seq(Receipts) /\ acked \subseteq ToSet(appended)
           /\ author \in [Receipts -> Handles \cup {Nothing}]
           /\ current \in [Handles -> Receipts \cup {Nothing}]
           /\ pc \in [Handles -> {"idle", "newline"}]
           /\ ToSet(appended) \subseteq Receipts
  BY DEF IInv, Types, TypeOK, Items, ToSet

\* A new receipt is the last one of the file and of what was appended.
LEMMA NewIsLast ==
    ASSUME IInv, NEW r \in Receipts, r \notin ToSet(appended), appended' = Append(appended, r)
    PROVE  /\ appended' \in Seq(Receipts)
           /\ ToSet(appended') = ToSet(appended) \cup {r}
           /\ \A i \in DOMAIN file : file[i] # r
           /\ \A m \in DOMAIN appended : m \in DOMAIN appended' /\ appended'[m] = appended[m]
           /\ \A t \in ToSet(appended) :
                 \E m, n \in DOMAIN appended' : m < n /\ appended'[m] = t /\ appended'[n] = r
<1>1. /\ appended' \in Seq(Receipts) /\ ToSet(appended') = ToSet(appended) \cup {r}
      /\ \A m \in DOMAIN appended : m \in DOMAIN appended' /\ appended'[m] = appended[m]
      /\ DOMAIN appended = 1..Len(appended) /\ Len(appended) \in Nat
      /\ DOMAIN appended' = 1..(Len(appended) + 1) /\ appended'[Len(appended) + 1] = r
  BY StateTypes, Appended
<1>2. \A i \in DOMAIN file : file[i] # r
  BY DEF IInv, WrittenIsAppended, IsReceipt
<1>3. ASSUME NEW t \in ToSet(appended)
      PROVE  \E m, n \in DOMAIN appended' : m < n /\ appended'[m] = t /\ appended'[n] = r
  <2>1. PICK m \in DOMAIN appended : appended[m] = t
    BY DEF ToSet
  <2>2. m \in DOMAIN appended' /\ appended'[m] = t /\ m < Len(appended) + 1
    BY <1>1, <2>1
  <2>3. Len(appended) + 1 \in DOMAIN appended'
    BY <1>1
  <2> QED BY <1>1, <2>2, <2>3
<1> QED BY <1>1, <1>2, <1>3

LEMMA WriteJsonKeeps ==
    ASSUME IInv, NEW h \in Handles, NEW r \in Receipts, WriteJson(h, r)
    PROVE  IInv'
<1>1. /\ pc[h] = "idle" /\ r \notin ToSet(appended)
      /\ file' = Append(file, r) /\ appended' = Append(appended, r)
      /\ author' = [author EXCEPT ![r] = h] /\ current' = [current EXCEPT ![h] = r]
      /\ pc' = [pc EXCEPT ![h] = "newline"] /\ acked' = acked /\ tears' = tears
  BY DEF WriteJson
<1>2. /\ file \in Seq(Items) /\ DOMAIN file = 1..Len(file) /\ Len(file) \in Nat
      /\ acked \subseteq ToSet(appended) /\ ToSet(appended) \subseteq Receipts
      /\ author \in [Receipts -> Handles \cup {Nothing}]
      /\ current \in [Handles -> Receipts \cup {Nothing}]
      /\ pc \in [Handles -> {"idle", "newline"}]
  BY StateTypes
<1>3. /\ file' \in Seq(Items) /\ DOMAIN file' = 1..(Len(file) + 1) /\ file'[Len(file) + 1] = r
      /\ \A i \in DOMAIN file : i \in DOMAIN file' /\ file'[i] = file[i]
      /\ \A i \in DOMAIN file' : i \in DOMAIN file \/ i = Len(file) + 1
  <2>1. r \in Items
    BY DEF Items
  <2> QED BY <1>1, <1>2, <2>1, Appended
<1>4. /\ appended' \in Seq(Receipts) /\ ToSet(appended') = ToSet(appended) \cup {r}
      /\ \A i \in DOMAIN file : file[i] # r
      /\ \A m \in DOMAIN appended : m \in DOMAIN appended' /\ appended'[m] = appended[m]
      /\ \A t \in ToSet(appended) :
            \E m, n \in DOMAIN appended' : m < n /\ appended'[m] = t /\ appended'[n] = r
  BY <1>1, NewIsLast
<1>5. \A i \in DOMAIN file : IsReceipt(i)' = IsReceipt(i) /\ (IsReceipt(i) => author'[file'[i]] = author[file[i]])
  BY <1>1, <1>2, <1>3, <1>4 DEF IsReceipt
<1>6. Types'
  <2>1. current' \in [Handles -> Receipts \cup {Nothing}] /\ pc' \in [Handles -> {"idle", "newline"}]
        /\ author' \in [Receipts -> Handles \cup {Nothing}]
    BY <1>1, <1>2
  <2>2. \A g \in Handles : current'[g] = Nothing <=> pc'[g] = "idle"
    BY <1>1, <1>2, ReceiptsAssumption DEF IInv, Types, TypeOK
  <2> QED BY <1>1, <1>2, <1>3, <1>4, <2>1, <2>2 DEF IInv, Types, TypeOK, Items
<1>7. WrittenInOrder'
  <2> SUFFICES ASSUME NEW i \in DOMAIN file', NEW j \in DOMAIN file', i < j,
                      file'[i] \in Receipts, file'[j] \in Receipts
               PROVE  \E m, n \in DOMAIN appended' :
                          m < n /\ appended'[m] = file'[i] /\ appended'[n] = file'[j]
    BY DEF WrittenInOrder, IsReceipt
  <2>1. i \in DOMAIN file
    BY <1>2, <1>3
  <2>2. CASE j \in DOMAIN file
    BY <1>3, <1>4, <2>1, <2>2 DEF IInv, WrittenInOrder, IsReceipt
  <2>3. CASE j = Len(file) + 1
    <3>1. file[i] \in ToSet(appended)
      BY <1>3, <2>1 DEF IInv, WrittenIsAppended, IsReceipt
    <3> QED BY <1>3, <1>4, <2>1, <2>3, <3>1
  <2> QED BY <1>3, <2>2, <2>3
<1>8. WrittenIsAppended'
  BY <1>3, <1>4 DEF IInv, WrittenIsAppended, IsReceipt
<1>9. OwesItsLast'
  <2> SUFFICES ASSUME NEW g \in Handles, pc'[g] = "newline"
               PROVE  /\ current'[g] \in ToSet(appended') /\ author'[current'[g]] = g
                      /\ \A i, j \in DOMAIN file' :
                            file'[i] = current'[g] /\ file'[j] \in Receipts
                            /\ author'[file'[j]] = g => j <= i
    BY DEF OwesItsLast, IsReceipt
  <2>1. CASE g = h
    <3>1. current'[g] = r /\ author'[r] = h
      BY <1>1, <1>2, <2>1
    <3>2. ASSUME NEW i \in DOMAIN file', file'[i] = r PROVE i = Len(file) + 1
      BY <1>3, <1>4, <3>2
    <3>3. \A i, j \in DOMAIN file' : file'[i] = r => j <= i
      BY <1>2, <1>3, <3>2
    <3> QED BY <1>4, <2>1, <3>1, <3>3
  <2>2. CASE g # h
    <3>1. /\ pc[g] = "newline" /\ current'[g] = current[g]
          /\ current[g] \in ToSet(appended) /\ author[current[g]] = g
      BY <1>1, <1>2, <2>2 DEF IInv, OwesItsLast
    <3>2. current[g] # r /\ author'[current[g]] = g /\ author'[r] = h
      BY <1>1, <1>2, <3>1
    <3>3. ASSUME NEW i \in DOMAIN file', NEW j \in DOMAIN file', file'[i] = current[g],
                 file'[j] \in Receipts, author'[file'[j]] = g
          PROVE  j <= i
      <4>1. i \in DOMAIN file /\ j \in DOMAIN file
        BY <1>3, <2>2, <3>2, <3>3
      <4>2. file[i] = current[g] /\ IsReceipt(j) /\ author[file[j]] = g
        BY <1>3, <1>5, <3>3, <4>1 DEF IsReceipt
      <4> QED BY <3>1, <4>1, <4>2 DEF IInv, OwesItsLast
    <3> QED BY <1>4, <3>1, <3>2, <3>3
  <2> QED BY <2>1, <2>2
<1>10. AckedIsClosed'
  <2> SUFFICES ASSUME NEW i \in DOMAIN file', file'[i] \in acked'
               PROVE  \E k \in DOMAIN file' :
                          /\ i < k /\ file'[k] = Newline
                          /\ \A j \in DOMAIN file' :
                                i < j /\ file'[j] \in Receipts
                                /\ author'[file'[j]] = author'[file'[i]] => k < j
    BY DEF AckedIsClosed, IsReceipt
  <2>1. i \in DOMAIN file /\ file[i] \in acked /\ IsReceipt(i)
    BY <1>1, <1>2, <1>3 DEF IsReceipt
  <2>2. PICK k \in DOMAIN file :
            /\ i < k /\ file[k] = Newline
            /\ \A j \in DOMAIN file :
                  i < j /\ IsReceipt(j) /\ author[file[j]] = author[file[i]] => k < j
    BY <2>1 DEF IInv, AckedIsClosed
  <2>3. ASSUME NEW j \in DOMAIN file', i < j, file'[j] \in Receipts,
               author'[file'[j]] = author'[file'[i]]
        PROVE  k < j
    <3>1. CASE j \in DOMAIN file
      BY <1>3, <1>5, <2>1, <2>2, <2>3, <3>1 DEF IsReceipt
    <3>2. CASE j = Len(file) + 1
      BY <1>2, <3>2
    <3> QED BY <1>3, <3>1, <3>2
  <2> QED BY <1>3, <2>2, <2>3
<1> QED BY <1>6, <1>7, <1>8, <1>9, <1>10 DEF IInv

\* A part of a receipt or a newline leaves the receipts of the file where they are.
LEMMA NoReceiptWritten ==
    ASSUME IInv, NEW x \in {Torn, Newline}, file' \in {file, Append(file, x)}
    PROVE  /\ file' \in Seq(Items)
           /\ \A i \in DOMAIN file : i \in DOMAIN file' /\ file'[i] = file[i]
           /\ \A i \in DOMAIN file' : file'[i] \in Receipts => i \in DOMAIN file /\ IsReceipt(i)
<1>1. x \in Items /\ x \notin Receipts
  BY ReceiptsAssumption DEF Items
<1>2. file \in Seq(Items)
  BY StateTypes
<1>3. CASE file' = file
  BY <1>2, <1>3 DEF IsReceipt
<1>4. CASE file' = Append(file, x)
  <2>1. /\ file' \in Seq(Items) /\ file'[Len(file) + 1] = x
        /\ \A i \in DOMAIN file : i \in DOMAIN file' /\ file'[i] = file[i]
        /\ \A i \in DOMAIN file' : i \in DOMAIN file \/ i = Len(file) + 1
    BY <1>1, <1>2, <1>4, Appended
  <2> QED BY <1>1, <2>1 DEF IsReceipt
<1> QED BY <1>3, <1>4

LEMMA JsonFailsKeeps ==
    ASSUME IInv, NEW h \in Handles, NEW r \in Receipts, JsonFails(h, r)
    PROVE  IInv'
<1>1. /\ pc[h] = "idle" /\ r \notin ToSet(appended) /\ tears < MaxTears
      /\ file' \in {file, Append(file, Torn)} /\ appended' = Append(appended, r)
      /\ author' = [author EXCEPT ![r] = h] /\ tears' = tears + 1
      /\ pc' = pc /\ current' = current /\ acked' = acked
  BY DEF JsonFails
<1>2. /\ file \in Seq(Items) /\ DOMAIN file = 1..Len(file) /\ Len(file) \in Nat
      /\ acked \subseteq ToSet(appended) /\ ToSet(appended) \subseteq Receipts
      /\ author \in [Receipts -> Handles \cup {Nothing}]
      /\ current \in [Handles -> Receipts \cup {Nothing}]
      /\ pc \in [Handles -> {"idle", "newline"}]
  BY StateTypes
<1>3. /\ file' \in Seq(Items)
      /\ \A i \in DOMAIN file : i \in DOMAIN file' /\ file'[i] = file[i]
      /\ \A i \in DOMAIN file' : file'[i] \in Receipts => i \in DOMAIN file /\ IsReceipt(i)
  BY <1>1, NoReceiptWritten
<1>4. /\ appended' \in Seq(Receipts) /\ ToSet(appended') = ToSet(appended) \cup {r}
      /\ \A i \in DOMAIN file : file[i] # r
      /\ \A m \in DOMAIN appended : m \in DOMAIN appended' /\ appended'[m] = appended[m]
  BY <1>1, NewIsLast
<1>5. \A i \in DOMAIN file : IsReceipt(i) => author'[file'[i]] = author[file[i]]
  BY <1>1, <1>2, <1>3, <1>4 DEF IsReceipt
<1>6. Types'
  <2>1. tears' \in 0..MaxTears
    BY <1>1, TearsAssumption DEF IInv, Types, TypeOK
  <2>2. author' \in [Receipts -> Handles \cup {Nothing}]
    BY <1>1, <1>2
  <2> QED BY <1>1, <1>2, <1>3, <1>4, <2>1, <2>2 DEF IInv, Types, TypeOK, Items
<1>7. WrittenInOrder'
  BY <1>3, <1>4 DEF IInv, WrittenInOrder, IsReceipt
<1>8. WrittenIsAppended'
  BY <1>3, <1>4 DEF IInv, WrittenIsAppended, IsReceipt
<1>9. OwesItsLast'
  <2> SUFFICES ASSUME NEW g \in Handles, pc[g] = "newline"
               PROVE  /\ current[g] \in ToSet(appended') /\ author'[current[g]] = g
                      /\ \A i, j \in DOMAIN file' :
                            file'[i] = current[g] /\ file'[j] \in Receipts
                            /\ author'[file'[j]] = g => j <= i
    BY <1>1 DEF OwesItsLast, IsReceipt
  <2>1. current[g] \in ToSet(appended) /\ author[current[g]] = g
    BY DEF IInv, OwesItsLast
  <2>2. current[g] # r /\ author'[current[g]] = g
    BY <1>1, <1>2, <2>1
  <2>3. ASSUME NEW i \in DOMAIN file', NEW j \in DOMAIN file', file'[i] = current[g],
               file'[j] \in Receipts, author'[file'[j]] = g
        PROVE  j <= i
    <3>1. /\ i \in DOMAIN file /\ j \in DOMAIN file /\ file[i] = current[g]
          /\ IsReceipt(j) /\ author[file[j]] = g
      BY <1>2, <1>3, <1>5, <2>1, <2>3
    <3> QED BY <3>1 DEF IInv, OwesItsLast
  <2> QED BY <1>4, <2>1, <2>2, <2>3
<1>10. AckedIsClosed'
  BY <1>1, <1>2, <1>3, <1>5 DEF IInv, AckedIsClosed, IsReceipt
<1> QED BY <1>6, <1>7, <1>8, <1>9, <1>10 DEF IInv

\* A handle that has done with its receipt owes nothing, and the others what they did.
LEMMA DoneKeeps ==
    ASSUME IInv, NEW h \in Handles, file' \in {file, Append(file, Newline)},
           appended' = appended, author' = author,
           current' = [current EXCEPT ![h] = Nothing], pc' = [pc EXCEPT ![h] = "idle"],
           acked' \subseteq ToSet(appended), tears' \in 0..MaxTears
    PROVE  Types' /\ WrittenInOrder' /\ WrittenIsAppended' /\ OwesItsLast'
<1>1. /\ file \in Seq(Items) /\ DOMAIN file = 1..Len(file) /\ Len(file) \in Nat
      /\ acked \subseteq ToSet(appended) /\ ToSet(appended) \subseteq Receipts
      /\ author \in [Receipts -> Handles \cup {Nothing}]
      /\ current \in [Handles -> Receipts \cup {Nothing}]
      /\ pc \in [Handles -> {"idle", "newline"}]
  BY StateTypes
<1>2. /\ file' \in Seq(Items)
      /\ \A i \in DOMAIN file : i \in DOMAIN file' /\ file'[i] = file[i]
      /\ \A i \in DOMAIN file' : file'[i] \in Receipts => i \in DOMAIN file /\ IsReceipt(i)
  BY NoReceiptWritten
<1>3. Types'
  <2>1. current' \in [Handles -> Receipts \cup {Nothing}] /\ pc' \in [Handles -> {"idle", "newline"}]
    BY <1>1
  <2>2. \A g \in Handles : current'[g] = Nothing <=> pc'[g] = "idle"
    BY <1>1 DEF IInv, Types, TypeOK
  <2> QED BY <1>1, <1>2, <2>1, <2>2 DEF IInv, Types, TypeOK, Items
<1>4. WrittenInOrder' /\ WrittenIsAppended'
  BY <1>2 DEF IInv, WrittenInOrder, WrittenIsAppended, IsReceipt
<1>5. OwesItsLast'
  <2> SUFFICES ASSUME NEW g \in Handles, pc'[g] = "newline"
               PROVE  /\ current'[g] \in ToSet(appended) /\ author[current'[g]] = g
                      /\ \A i, j \in DOMAIN file' :
                            file'[i] = current'[g] /\ file'[j] \in Receipts
                            /\ author[file'[j]] = g => j <= i
    BY DEF OwesItsLast, IsReceipt
  <2>1. g # h /\ pc[g] = "newline" /\ current'[g] = current[g]
    BY <1>1
  <2>2. current[g] \in Receipts
    BY <1>1, <2>1 DEF IInv, OwesItsLast
  <2> QED BY <1>2, <2>1, <2>2 DEF IInv, OwesItsLast, IsReceipt
<1> QED BY <1>3, <1>4, <1>5

LEMMA WriteNewlineKeeps ==
    ASSUME IInv, NEW h \in Handles, WriteNewline(h)
    PROVE  IInv'
<1>1. /\ pc[h] = "newline" /\ file' = Append(file, Newline)
      /\ acked' = acked \cup {current[h]}
      /\ current' = [current EXCEPT ![h] = Nothing] /\ pc' = [pc EXCEPT ![h] = "idle"]
      /\ appended' = appended /\ author' = author /\ tears' = tears
  BY DEF WriteNewline
<1>2. /\ file \in Seq(Items) /\ DOMAIN file = 1..Len(file) /\ Len(file) \in Nat
      /\ acked \subseteq ToSet(appended) /\ ToSet(appended) \subseteq Receipts
      /\ author \in [Receipts -> Handles \cup {Nothing}]
      /\ current \in [Handles -> Receipts \cup {Nothing}]
      /\ pc \in [Handles -> {"idle", "newline"}]
  BY StateTypes
<1>3. current[h] \in ToSet(appended) /\ author[current[h]] = h
  BY <1>1 DEF IInv, OwesItsLast
<1>4. /\ DOMAIN file' = 1..(Len(file) + 1) /\ file'[Len(file) + 1] = Newline
      /\ Newline \notin Receipts
  BY <1>1, <1>2, Appended, ReceiptsAssumption DEF Items
<1>5. /\ \A i \in DOMAIN file : i \in DOMAIN file' /\ file'[i] = file[i]
      /\ \A i \in DOMAIN file' : file'[i] \in Receipts => i \in DOMAIN file /\ IsReceipt(i)
  BY <1>1, NoReceiptWritten
<1>6. Types' /\ WrittenInOrder' /\ WrittenIsAppended' /\ OwesItsLast'
  <2>1. acked' \subseteq ToSet(appended) /\ tears' \in 0..MaxTears
    BY <1>1, <1>2, <1>3 DEF IInv, Types, TypeOK
  <2> QED BY <1>1, <2>1, DoneKeeps
<1>7. AckedIsClosed'
  <2> SUFFICES ASSUME NEW i \in DOMAIN file', file'[i] \in acked'
               PROVE  \E k \in DOMAIN file' :
                          /\ i < k /\ file'[k] = Newline
                          /\ \A j \in DOMAIN file' :
                                i < j /\ file'[j] \in Receipts
                                /\ author[file'[j]] = author[file'[i]] => k < j
    BY <1>1 DEF AckedIsClosed, IsReceipt
  <2>1. i \in DOMAIN file /\ file'[i] = file[i] /\ IsReceipt(i)
    BY <1>1, <1>2, <1>3, <1>5
  <2>2. CASE file[i] \in acked
    <3>1. PICK k \in DOMAIN file :
              /\ i < k /\ file[k] = Newline
              /\ \A j \in DOMAIN file :
                    i < j /\ IsReceipt(j) /\ author[file[j]] = author[file[i]] => k < j
      BY <2>1, <2>2 DEF IInv, AckedIsClosed
    <3> QED BY <1>5, <2>1, <3>1
  <2>3. CASE file[i] = current[h]
    <3>1. \A j \in DOMAIN file : IsReceipt(j) /\ author[file[j]] = h => j <= i
      BY <1>1, <2>1, <2>3 DEF IInv, OwesItsLast
    <3>2. i < Len(file) + 1 /\ Len(file) + 1 \in DOMAIN file'
      BY <1>2, <1>4, <2>1
    <3>3. ASSUME NEW j \in DOMAIN file', i < j, file'[j] \in Receipts,
                 author[file'[j]] = author[file'[i]]
          PROVE  FALSE
      <4>1. j \in DOMAIN file /\ j <= i
        BY <1>3, <1>5, <2>1, <2>3, <3>1, <3>3
      <4> QED BY <1>2, <2>1, <3>3, <4>1
    <3> QED BY <1>4, <3>2, <3>3
  <2> QED BY <1>1, <2>1, <2>2, <2>3
<1> QED BY <1>6, <1>7 DEF IInv

LEMMA NewlineFailsKeeps ==
    ASSUME IInv, NEW h \in Handles, NewlineFails(h)
    PROVE  IInv'
<1>1. /\ tears < MaxTears /\ tears' = tears + 1
      /\ file' \in {file, Append(file, Newline)}
      /\ current' = [current EXCEPT ![h] = Nothing] /\ pc' = [pc EXCEPT ![h] = "idle"]
      /\ appended' = appended /\ author' = author /\ acked' = acked
  BY DEF NewlineFails
<1>2. acked' \subseteq ToSet(appended) /\ tears' \in 0..MaxTears
  BY <1>1, TearsAssumption DEF IInv, Types, TypeOK
<1>3. Types' /\ WrittenInOrder' /\ WrittenIsAppended' /\ OwesItsLast'
  BY <1>1, <1>2, DoneKeeps
<1>4. /\ \A i \in DOMAIN file : i \in DOMAIN file' /\ file'[i] = file[i]
      /\ \A i \in DOMAIN file' : file'[i] \in Receipts => i \in DOMAIN file /\ IsReceipt(i)
  BY <1>1, NoReceiptWritten
<1>5. AckedIsClosed'
  <2>1. acked \subseteq Receipts
    BY StateTypes
  <2> QED BY <1>1, <1>4, <2>1 DEF IInv, AckedIsClosed, IsReceipt
<1> QED BY <1>3, <1>5 DEF IInv

LEMMA InitHolds == Init => IInv
<1> SUFFICES ASSUME Init PROVE IInv
  OBVIOUS
<1>1. /\ file = <<>> /\ appended = <<>> /\ acked = {} /\ tears = 0
      /\ pc = [h \in Handles |-> "idle"] /\ current = [h \in Handles |-> Nothing]
      /\ author = [r \in Receipts |-> Nothing]
  BY DEF Init
<1>2. DOMAIN file = {}
  BY <1>1
<1>3. Types
  BY <1>1, TearsAssumption DEF Types, TypeOK
<1>4. WrittenInOrder /\ WrittenIsAppended /\ OwesItsLast /\ AckedIsClosed
  BY <1>1, <1>2 DEF WrittenInOrder, WrittenIsAppended, OwesItsLast, AckedIsClosed
<1> QED BY <1>3, <1>4 DEF IInv

LEMMA StepKeeps == IInv /\ [Next]_vars => IInv'
<1> SUFFICES ASSUME IInv, [Next]_vars PROVE IInv'
  OBVIOUS
<1>1. CASE UNCHANGED vars
  BY <1>1 DEF vars, IInv, Types, TypeOK, WrittenInOrder, WrittenIsAppended, OwesItsLast,
              AckedIsClosed, IsReceipt
<1> QED BY <1>1, WriteJsonKeeps, JsonFailsKeeps, WriteNewlineKeeps, NewlineFailsKeeps DEF Next

LEMMA Invariance == Spec => []IInv
  BY InitHolds, StepKeeps, PTL DEF Spec

-----------------------------------------------------------------------------
\* The properties

\* The file holds receipts, parts of them and newlines; a handle writes the newline
\* of a receipt it has begun.
THEOREM TypeCorrect == Spec => []TypeOK
<1>1. IInv => TypeOK
  BY DEF IInv, Types
<1> QED BY <1>1, Invariance, PTL

\* What iter yields is in the order the appends began, through any handles and
\* failures (append, iter).
THEOREM ReadsAreInOrder == Spec => []ReadsInAppendOrder
<1>1. IInv => ReadsInAppendOrder
  BY DEF IInv, WrittenInOrder, IsReceipt, ReadsInAppendOrder, Parsed
<1> QED BY <1>1, Invariance, PTL

\* An acknowledged receipt that can be read stays readable, whatever other handles,
\* errors and crashes write after it.
THEOREM AckedAreFinal == Spec => AckedLinesAreFinal
<1>1. IInv /\ [Next]_vars => [KeepsReadable]_vars
  BY StepIsFinal
<1> QED BY <1>1, Invariance, PTL DEF Spec, AckedLinesAreFinal

\* An acknowledged receipt is lost only to a torn line, or one that another handle
\* wrote into: a single writer whose writes succeed loses nothing.
THEOREM LossesHaveCauses == Spec => []LossHasCause
<1>1. IInv => LossHasCause
  BY LossIsCaused
<1> QED BY <1>1, Invariance, PTL
=============================================================================
