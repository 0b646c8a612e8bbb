------------------------- MODULE AuditLedgerProofs -------------------------
(***************************************************************************)
(* Theorems about AuditLedger, for every number of entries, threads,       *)
(* archives, salts and faults.  Those about the chain are about a ledger   *)
(* that one process writes: with two processes they are false.             *)
(***************************************************************************)
EXTENDS AuditLedger, TLAPS

(* ---------------------------------------------------------------------- *)
(* Types.                                                                  *)
LEMMA AddLineType ==
  ASSUME NEW f \in Seq(Lines), NEW l \in Lines
  PROVE  AddLine(f, l) \in Seq(Lines)
  <1>1. CASE f # << >> /\ ~f[Len(f)].ended
    <2>1. Len(f) \in 1 .. Len(f) /\ f[Len(f)] \in Lines
      BY <1>1
    <2>2. [f[Len(f)] EXCEPT !.parses = FALSE, !.ended = l.ended] \in Lines
      BY <2>1 DEF Lines
    <2> QED
      BY <1>1, <2>1, <2>2 DEF AddLine
  <1>2. CASE ~(f # << >> /\ ~f[Len(f)].ended)
    BY <1>2 DEF AddLine
  <1> QED
    BY <1>1, <1>2

(* The line a process appends, whole or cut off. *)
LEMMA NewLineType ==
  ASSUME TypeOK, NEW p \in Procs
  PROVE  /\ NewLine(p) \in Lines
         /\ NewLine(p).prev = prev[p]
         /\ \A b \in BOOLEAN :
              /\ [NewLine(p) EXCEPT !.parses = b, !.ended = FALSE] \in Lines
              /\ [NewLine(p) EXCEPT !.parses = b, !.ended = FALSE].prev = prev[p]
  <1> DEFINE l == NewLine(p)
  <1>1. l \in Lines /\ l.prev = prev[p]
    BY DEF TypeOK, NewLine, Lines
  <1> HIDE DEF l
  <1>2. \A b \in BOOLEAN : /\ [l EXCEPT !.parses = b, !.ended = FALSE] \in Lines
                           /\ [l EXCEPT !.parses = b, !.ended = FALSE].prev = prev[p]
    BY <1>1 DEF Lines
  <1> QED
    BY <1>1, <1>2 DEF l

(* What an append may link to.                                             *)
LEMMA LastHashType ==
  ASSUME NEW f \in Seq(Lines)
  PROVE  LastHash(f) \in Hashes
  <1>1. CASE f = << >>
    BY <1>1 DEF LastHash, Genesis, Hashes
  <1>2. CASE f # << >>
    <2>1. f[Len(f)] \in Lines
      BY <1>2
    <2> QED
      BY <1>2, <2>1 DEF LastHash, Lines, Hashes, Corrupted
  <1> QED
    BY <1>1, <1>2

(* Every reader answers with an answer.                                    *)
LEMMA ReportType ==
  ASSUME NEW k \in Kinds, NEW f \in Seq(Lines), NEW s \in Salts
  PROVE  Report(k, f, s) \in Answers
  BY DEF Report, Answers

(* What a read leaves in the caches of process p, and what it returns. *)
LEMMA CacheTypes ==
  ASSUME TypeOK, NEW p \in Procs, NEW st \in Nat
  PROVE  /\ LinesRead(p, st) \in Seq(Lines)
         /\ EntriesAfterRead(p, st) \in Snapshots
         /\ MemoAfterRead(p, st) \in Memos
  <1> USE DEF TypeOK
  <1>1. entries[p] \in Snapshots
    OBVIOUS
  <1>2. LinesRead(p, st) \in Seq(Lines)
    BY <1>1 DEF LinesRead, Snapshots
  <1>3. EntriesAfterRead(p, st) \in Snapshots
    BY <1>1 DEF EntriesAfterRead, Snapshots
  <1>4. MemoAfterRead(p, st) \in Memos
    BY DEF MemoAfterRead, NoMemo, Memos
  <1> QED
    BY <1>2, <1>3, <1>4

(* Storing an answer keeps a cache legal.                                  *)
LEMMA RememberType ==
  ASSUME NEW m \in Memos, NEW k \in Kinds,
         NEW st \in Nat, NEW answer \in Answers
  PROVE  Remember(m, k, st, answer) \in Memos
  <1>1. [stat |-> st, answer |-> answer] \in [stat : Nat, answer : Answers]
    OBVIOUS
  <1> QED
    BY <1>1 DEF Remember, Memos

(* So does the holder of a lock that verifies.                             *)
LEMMA VerdictType ==
  ASSUME TypeOK, NEW p \in Procs
  PROVE  Verdict(p) \in Answers
  <1>1. CASE Hits(p, "verify", stat) # {}
    <2>1. \A m \in Hits(p, "verify", stat) : m.answer \in Answers
      BY DEF Hits, TypeOK, Kinds, Memos
    <2> QED
      BY <1>1, <2>1 DEF Verdict
  <1>2. CASE Hits(p, "verify", stat) = {}
    BY <1>2, CacheTypes, ReportType DEF Verdict, TypeOK, Kinds
  <1> QED
    BY <1>1, <1>2

CacheTypeOK ==
  /\ entries \in [Procs -> Snapshots]
  /\ memo \in [Procs -> Memos]

(* What its verification leaves in the caches.                             *)
LEMMA VerifyTypes ==
  ASSUME TypeOK, NEW p \in Procs, CachesAfterVerify(p)
  PROVE  CacheTypeOK'
  <1>1. CASE Hits(p, "verify", stat) # {}
    BY <1>1 DEF CachesAfterVerify, CacheTypeOK, TypeOK, caches
  <1>2. CASE Hits(p, "verify", stat) = {}
    <2> DEFINE e == EntriesAfterRead(p, stat)
               m == IF Parses(LinesRead(p, stat))
                    THEN Remember(MemoAfterRead(p, stat), "verify", stat, Verdict(p))
                    ELSE MemoAfterRead(p, stat)
    <2>1. stat \in Nat /\ "verify" \in Kinds
      BY DEF TypeOK, Kinds
    <2>2. e \in Snapshots
      BY <2>1, CacheTypes
    <2>3. m \in Memos
      BY <2>1, CacheTypes, RememberType, VerdictType
    <2>4. entries' = [entries EXCEPT ![p] = e] /\ memo' = [memo EXCEPT ![p] = m]
      BY <1>2 DEF CachesAfterVerify
    <2> HIDE DEF e, m
    <2> QED
      BY <2>2, <2>3, <2>4 DEF CacheTypeOK, TypeOK
  <1> QED
    BY <1>1, <1>2

(* Dropping the caches keeps their types.                                  *)
LEMMA ForgetTypes ==
  ASSUME TypeOK, NEW p \in Procs, Forget(p)
  PROVE  CacheTypeOK'
  BY DEF Forget, CacheTypeOK, TypeOK, NoEntries, NoMemo, Snapshots, Memos

(* The types a write to the file can disturb. *)
WriteTypeOK ==
  /\ file \in Seq(Lines)
  /\ stat \in Nat
  /\ reader \in [Readers -> Calls]

(* A write of legal lines keeps them.                                      *)
LEMMA WriteTypes ==
  ASSUME TypeOK, NEW f \in Seq(Lines), WriteFile(f)
  PROVE  WriteTypeOK'
  <1> USE HomeAssumption DEF TypeOK, WriteFile, WriteTypeOK
  <1>1. ASSUME NEW r \in Readers
        PROVE  Report(reader[r].kind, f, salt[Home[r]]) \in Answers
    BY ReportType DEF Calls
  <1>2. file' \in Seq(Lines) /\ stat' \in Nat
    OBVIOUS
  <1>3. ASSUME NEW r \in Readers
        PROVE  reader'[r] \in Calls
    <2> DEFINE a == Report(reader[r].kind, f, salt[Home[r]])
    <2>1. a \in Answers /\ reader[r] \in Calls
      BY <1>1
    <2>2. reader'[r] = IF reader[r].at \in {"idle", "done"} THEN reader[r]
                       ELSE [reader[r] EXCEPT !.could = @ \cup {a}]
      OBVIOUS
    <2> HIDE DEF a
    <2>3. [reader[r] EXCEPT !.could = @ \cup {a}] \in Calls
      BY ONLY <2>1 DEF Calls
    <2> QED
      BY <2>1, <2>2, <2>3
  <1>4. reader' = [r \in Readers |-> reader'[r]]
    OBVIOUS
  <1> QED
    BY <1>2, <1>3, <1>4

(* What a reader does to its own record. *)
LEMMA CallTypes ==
  ASSUME NEW c \in Calls, NEW a \in Answers, NEW n \in Nat
  PROVE  /\ [c EXCEPT !.at = "missed"] \in Calls
         /\ [c EXCEPT !.at = "stated", !.fresh = n] \in Calls
         /\ [c EXCEPT !.at = "report", !.fresh = 0, !.answer = a] \in Calls
         /\ [c EXCEPT !.at = "done", !.answer = a, !.stat = 0, !.fresh = 0] \in Calls
  BY DEF Calls

(* A reader that moves keeps the type of the readers.                      *)
LEMMA MoveType ==
  ASSUME TypeOK, NEW r \in Readers, NEW c \in Calls, reader' = [reader EXCEPT ![r] = c]
  PROVE  reader' \in [Readers -> Calls]
  BY DEF TypeOK

(* So does one that returns its answer.                                    *)
LEMMA ReturnType ==
  ASSUME TypeOK, NEW r \in Readers, NEW a \in Answers, Return(r, a)
  PROVE  reader' \in [Readers -> Calls]
  <1>1. reader[r] \in Calls
    BY DEF TypeOK
  <1>2. reader' = [reader EXCEPT ![r] = [reader[r] EXCEPT !.at = "done", !.answer = a,
                                          !.stat = 0, !.fresh = 0]]
    BY DEF Return, TypeOK
  <1> QED
    BY <1>1, <1>2, CallTypes, MoveType

(* Types hold in the empty ledger.                                         *)
LEMMA TypeInit == Init => TypeOK
  BY BoundAssumption
  DEF Init, TypeOK, Hashes, Genesis, NoEntries, Snapshots, NoMemo, Memos, Idle, Calls, Kinds,
      NoAnswer, Answers

(* Faults are counted up to their bound.                                   *)
LEMMA FaultType ==
  ASSUME TypeOK, NEW k, Fault(k)
  PROVE  faults' \in 0 .. MaxFaults
  BY BoundAssumption DEF TypeOK, Fault

(* Every step keeps the types.                                             *)
LEMMA TypeStep == TypeOK /\ [Next]_vars => TypeOK'
  <1> SUFFICES ASSUME TypeOK, [Next]_vars PROVE TypeOK'
    OBVIOUS
  <1> USE HomeAssumption DEF shared, caches, vars
  <1>1. ASSUME NEW p \in Procs, Write(p) PROVE TypeOK'
    <2> DEFINE l == NewLine(p)
    <2>1. l \in Lines
      BY NewLineType
    <2>2. \A b \in BOOLEAN : [l EXCEPT !.parses = b, !.ended = FALSE] \in Lines
      BY NewLineType
    <2> HIDE DEF l
    <2>3. CASE LogBegin(p)
      <3>1. LastHash(file) \in Hashes
        BY LastHashType DEF TypeOK
      <3> QED
        BY <2>3, <3>1 DEF TypeOK, LogBegin, ReadLast, Goto
    <2>4. CASE LogAppend(p)
      <3>1. AddLine(file, l) \in Seq(Lines)
        BY <2>1, AddLineType DEF TypeOK
      <3>2. WriteTypeOK'
        BY <2>4, <3>1, WriteTypes DEF LogAppend, l
      <3>3. CacheTypeOK'
        BY <2>4, ForgetTypes DEF LogAppend
      <3>4. used' \in Nat /\ prev' \in [Procs -> Hashes]
        BY <2>4 DEF TypeOK, LogAppend, Hashes, Genesis
      <3>5. \E place \in {"free", "verify"} : at' = [at EXCEPT ![p] = place]
        BY <2>4 DEF LogAppend, Goto
      <3>6. UNCHANGED <<archive, now, salt, faults>>
        BY <2>4 DEF LogAppend
      <3> QED
        BY <3>2, <3>3, <3>4, <3>5, <3>6 DEF TypeOK, WriteTypeOK, CacheTypeOK
    <2>5. CASE LogTorn(p)
      <3>1. PICK b \in BOOLEAN :
              WriteFile(AddLine(file, [l EXCEPT !.parses = b, !.ended = FALSE]))
        BY <2>5 DEF LogTorn, l
      <3>2. AddLine(file, [l EXCEPT !.parses = b, !.ended = FALSE]) \in Seq(Lines)
        BY <2>2, AddLineType DEF TypeOK
      <3>3. WriteTypeOK'
        BY <3>1, <3>2, WriteTypes
      <3>4. faults' \in 0 .. MaxFaults
        BY <2>5, FaultType DEF LogTorn
      <3> QED
        BY <2>5, <3>3, <3>4 DEF TypeOK, LogTorn, Goto, WriteTypeOK, Hashes, Genesis
    <2> QED
      BY <1>1, <2>3, <2>4, <2>5 DEF Write
  <1>2. ASSUME NEW p \in Procs, Reseal(p) PROVE TypeOK'
    <2>1. CASE ResealCheck(p)
      <3>1. CacheTypeOK'
        BY <2>1, VerifyTypes DEF ResealCheck
      <3> QED
        BY <2>1, <3>1 DEF TypeOK, ResealCheck, Goto, CacheTypeOK
    <2>2. CASE ResealArchive(p)
      <3>1. LastHash(file) \in Hashes
        BY LastHashType DEF TypeOK
      <3> QED
        BY <2>2, <3>1 DEF TypeOK, ResealArchive, Goto
    <2>3. CASE ResealTruncate(p)
      <3>1. << >> \in Seq(Lines)
        OBVIOUS
      <3>2. WriteTypeOK'
        BY <2>3, <3>1, WriteTypes DEF ResealTruncate
      <3> QED
        BY <2>3, <3>2 DEF TypeOK, ResealTruncate, Goto, WriteTypeOK
    <2>4. CASE ResealRecord(p)
      <3>1. LastHash(file) \in Hashes
        BY LastHashType DEF TypeOK
      <3> QED
        BY <2>4, <3>1 DEF TypeOK, ResealRecord, ReadLast, Goto
    <2>5. CASE ResealReport(p)
      <3>1. CacheTypeOK'
        BY <2>5, VerifyTypes DEF ResealReport
      <3> QED
        BY <2>5, <3>1 DEF TypeOK, ResealReport, Goto, CacheTypeOK
    <2> QED
      BY <1>2, <2>1, <2>2, <2>3, <2>4, <2>5 DEF Reseal
  <1>3. ASSUME NEW p \in Procs, Restart(p) PROVE TypeOK'
    <2>1. CacheTypeOK'
      BY <1>3, ForgetTypes DEF Restart
    <2>2. Idle \in Calls
      BY DEF Idle, Calls, Kinds, NoAnswer, Answers
    <2>3. reader' \in [Readers -> Calls]
      BY <1>3, <2>2 DEF TypeOK, Restart
    <2>4. faults' \in 0 .. MaxFaults
      BY <1>3, FaultType DEF Restart
    <2>5. salt' \in [Procs -> Salts]
      BY <1>3 DEF TypeOK, Restart
    <2>6. /\ at' = [at EXCEPT ![p] = "free"]
          /\ prev' = [prev EXCEPT ![p] = Genesis]
          /\ UNCHANGED <<shared, archive, now>>
      BY <1>3 DEF Restart, Goto
    <2> QED
      BY <2>1, <2>3, <2>4, <2>5, <2>6 DEF TypeOK, CacheTypeOK, Hashes, Genesis
  <1>4. ASSUME NEW r \in Readers, Read(r) PROVE TypeOK'
    <2> DEFINE c == reader[r]
               p == Home[r]
    <2>1. c \in Calls /\ p \in Procs
      BY DEF TypeOK
    <2>2. CASE Ask(r)
      <3>1. PICK k \in Kinds :
              reader' = [reader EXCEPT ![r] =
                [at |-> IF k = "entries" THEN "missed" ELSE "asked", kind |-> k,
                 stat |-> stat, fresh |-> 0, answer |-> NoAnswer,
                 could |-> {Report(k, file, salt[Home[r]])}]]
        BY <2>2 DEF Ask
      <3>2. Report(k, file, salt[Home[r]]) \in Answers
        BY ReportType DEF TypeOK
      <3>3. reader'[r] \in Calls
        BY <3>1, <3>2 DEF TypeOK, Calls, NoAnswer, Answers
      <3>4. reader' \in [Readers -> Calls]
        BY <3>1, <3>3 DEF TypeOK
      <3> QED
        BY <2>2, <3>4 DEF TypeOK, Ask
    <2>3. CASE LookUp(r)
      <3>1. ASSUME NEW m \in Hits(p, c.kind, c.stat) PROVE m.answer \in Answers
        BY <2>1, <3>1 DEF Hits, TypeOK, Memos, Calls
      <3>2. reader' \in [Readers -> Calls]
        <4>1. CASE reader' = [reader EXCEPT ![r].at = "missed"]
          <5>1. reader' = [reader EXCEPT ![r] = [c EXCEPT !.at = "missed"]]
            BY <4>1 DEF TypeOK
          <5>2. c.answer \in Answers
            BY <2>1 DEF Calls
          <5>3. [c EXCEPT !.at = "missed"] \in Calls
            BY <2>1, <5>2, CallTypes
          <5> HIDE DEF c
          <5> QED
            BY <5>1, <5>3, MoveType
        <4>2. CASE \E m \in Hits(p, c.kind, c.stat) : Return(r, m.answer)
          BY <4>2, <3>1, ReturnType
        <4> QED
          BY <2>3, <4>1, <4>2 DEF LookUp
      <3> QED
        BY <2>3, <3>2 DEF TypeOK, LookUp
    <2>4. CASE Restat(r)
      <3>1. reader' \in [Readers -> Calls]
        <4>1. reader' = [reader EXCEPT ![r] = [c EXCEPT !.at = "stated", !.fresh = stat]]
          BY <2>4 DEF TypeOK, Restat
        <4>2. [c EXCEPT !.at = "stated", !.fresh = stat] \in Calls
          BY <2>1, CallTypes DEF TypeOK, Calls
        <4> QED
          BY <4>1, <4>2, MoveType
      <3> QED
        BY <2>4, <3>1 DEF TypeOK, Restat
    <2>5. CASE ReadLines(r)
      <3> DEFINE lines == LinesRead(p, c.fresh)
      <3>1. c.kind \in Kinds /\ c.fresh \in Nat
        BY <2>1 DEF Calls
      <3>2. lines \in Seq(Lines)
        BY <2>1, <3>1, CacheTypes
      <3>3. Report(c.kind, lines, salt[p]) \in Answers
        BY <2>1, <3>1, <3>2, ReportType DEF TypeOK
      <3>4. reader' \in [Readers -> Calls]
        <4> HIDE DEF lines
        <4>1. CASE Return(r, Report(c.kind, lines, salt[p]))
          BY <3>3, <4>1, ReturnType
        <4>2. CASE reader' = [reader EXCEPT ![r] = [@ EXCEPT !.at = "report", !.fresh = 0,
                                !.answer = Report(c.kind, lines, salt[p])]]
          <5> DEFINE a == Report(c.kind, lines, salt[p])
          <5>1. reader' = [reader EXCEPT ![r] = [c EXCEPT !.at = "report", !.fresh = 0,
                                                          !.answer = a]]
            BY <4>2 DEF TypeOK
          <5> HIDE DEF a
          <5>2. [c EXCEPT !.at = "report", !.fresh = 0, !.answer = a] \in Calls
            BY <2>1, <3>3, CallTypes DEF a
          <5> QED
            BY <5>1, <5>2, MoveType
        <4> QED
          BY <2>5, <4>1, <4>2 DEF ReadLines, lines
      <3>5. /\ EntriesAfterRead(p, c.fresh) \in Snapshots
            /\ MemoAfterRead(p, c.fresh) \in Memos
        BY <2>1, <3>1, CacheTypes
      <3>6. /\ entries' = [entries EXCEPT ![p] = EntriesAfterRead(p, c.fresh)]
            /\ memo' = [memo EXCEPT ![p] = MemoAfterRead(p, c.fresh)]
            /\ UNCHANGED <<shared, archive, now, salt, at, prev, faults>>
        BY <2>5 DEF ReadLines
      <3> HIDE DEF p, c
      <3> QED
        BY <3>4, <3>5, <3>6 DEF TypeOK
    <2>6. CASE Store(r)
      <3>1. c.kind \in Kinds /\ c.stat \in Nat /\ c.answer \in Answers
        BY <2>1 DEF Calls
      <3>2. Remember(memo[p], c.kind, c.stat, c.answer) \in Memos
        BY <2>1, <3>1, RememberType DEF TypeOK
      <3>3. memo' = [memo EXCEPT ![p] = Remember(memo[p], c.kind, c.stat, c.answer)]
        BY <2>6 DEF Store, StoreUnder, TypeOK
      <3>4. reader' \in [Readers -> Calls]
        BY <2>6, <3>1, ReturnType DEF Store, StoreUnder
      <3>5. memo' \in [Procs -> Memos]
        BY <3>2, <3>3 DEF TypeOK
      <3> QED
        BY <2>6, <3>4, <3>5 DEF TypeOK, Store, StoreUnder
    <2> QED
      BY <1>4, <2>2, <2>3, <2>4, <2>5, <2>6 DEF Read
  <1>5. CASE Tamper
    <2>1. PICK i \in 1 .. Len(file) : WriteFile([file EXCEPT ![i].salt = NoSalt])
      BY <1>5 DEF Tamper
    <2>2. file[i] \in Lines
      BY DEF TypeOK
    <2>3. [file[i] EXCEPT !.salt = NoSalt] \in Lines
      BY <2>2 DEF Lines
    <2>4. [file EXCEPT ![i].salt = NoSalt] \in Seq(Lines)
      BY <2>3 DEF TypeOK
    <2>5. WriteTypeOK'
      BY <2>1, <2>4, WriteTypes
    <2>6. faults' \in 0 .. MaxFaults
      BY <1>5, FaultType DEF Tamper
    <2> QED
      BY <1>5, <2>5, <2>6 DEF TypeOK, Tamper, WriteTypeOK
  <1>6. CASE UNCHANGED vars
    BY <1>6 DEF TypeOK
  <1> QED
    BY <1>1, <1>2, <1>3, <1>4, <1>5, <1>6 DEF Next

(* Every variable of the ledger, its caches and its readers keeps its      *)
(* type; in particular no append ever links to anything but a hash,        *)
(* GENESIS or CORRUPTED.                                                   *)
THEOREM TypeCorrect == Spec => []TypeOK
  BY TypeInit, TypeStep, PTL DEF Spec

(* ---------------------------------------------------------------------- *)
(* The chain of a ledger that one process writes.  Whoever holds the lock  *)
(* of that process is the only writer, so the last hash it has read stays  *)
(* the last hash until it appends, and the copy it has archived stays the  *)
(* copy of what it truncates.                                              *)
OneProcess == \A p, q \in Procs : p = q

Links(f) ==
  \A i \in 1 .. Len(f) :
    f[i].parses => f[i].prev = IF i = 1 THEN Genesis
                               ELSE IF f[i-1].parses THEN f[i-1].hash ELSE Corrupted

HolderInv ==
  \A p \in Procs :
    /\ at[p] \in {"log", "append"} => prev[p] = LastHash(file)
    /\ at[p] \in {"record", "append"} => file = << >>
    /\ at[p] = "truncate" => \E s \in Seconds : SameLines(archive[s], file)

ChainInv == Links(file) /\ HolderInv

(* An append that uses the last hash keeps the links, even where its text  *)
(* runs into a line that was cut off.                                      *)
LEMMA AppendKeepsLinks ==
  ASSUME NEW f \in Seq(Lines), NEW l \in Lines, Links(f), l.prev = LastHash(f)
  PROVE  Links(AddLine(f, l))
  <1> DEFINE g == AddLine(f, l)
  <1>1. CASE f # << >> /\ ~f[Len(f)].ended
    <2>1. /\ g = [f EXCEPT ![Len(f)] = [f[Len(f)] EXCEPT !.parses = FALSE, !.ended = l.ended]]
          /\ Len(f) \in 1 .. Len(f)
          /\ f[Len(f)] \in Lines
      BY <1>1 DEF AddLine
    <2>2. /\ Len(g) = Len(f)
          /\ ~g[Len(f)].parses
          /\ \A i \in 1 .. Len(f) : i # Len(f) => g[i] = f[i]
      BY <2>1 DEF Lines
    <2> HIDE DEF g
    <2>3. Links(g)
      BY <2>1, <2>2 DEF Links
    <2> QED
      BY <2>3 DEF g
  <1>2. CASE f = << >>
    BY <1>2 DEF AddLine, Links, LastHash
  <1>3. CASE f # << >> /\ f[Len(f)].ended
    <2>1. g = Append(f, l) /\ Len(f) \in 1 .. Len(f)
      BY <1>3 DEF AddLine
    <2>2. /\ Len(g) = Len(f) + 1
          /\ g[Len(f) + 1] = l
          /\ \A i \in 1 .. Len(f) : g[i] = f[i]
      BY <2>1
    <2>3. l.prev = IF f[Len(f)].parses THEN f[Len(f)].hash ELSE Corrupted
      BY <1>3 DEF LastHash
    <2> HIDE DEF g
    <2>4. ASSUME NEW i \in 1 .. Len(g), g[i].parses
          PROVE  g[i].prev = IF i = 1 THEN Genesis
                             ELSE IF g[i-1].parses THEN g[i-1].hash ELSE Corrupted
      <3>1. CASE i = Len(f) + 1
        BY <2>1, <2>2, <2>3, <3>1
      <3>2. CASE i # Len(f) + 1
        <4>1. i \in 1 .. Len(f) /\ (i # 1 => i - 1 \in 1 .. Len(f))
          BY <2>2, <3>2
        <4> QED
          BY <2>2, <2>4, <4>1 DEF Links
      <3> QED
        BY <3>1, <3>2
    <2> QED
      BY <2>4 DEF Links, g
  <1> QED
    BY <1>1, <1>2, <1>3

(* Altering the content of an entry leaves its place in the chain.         *)
LEMMA AlterKeepsLinks ==
  ASSUME NEW f \in Seq(Lines), NEW i \in 1 .. Len(f), NEW g,
         g = [f EXCEPT ![i].salt = NoSalt]
  PROVE  /\ Links(f) => Links(g)
         /\ LastHash(g) = LastHash(f)
         /\ \A h \in Seq(Lines) : SameLines(h, f) => SameLines(h, g)
  <1>1. /\ Len(g) = Len(f) /\ (g = << >> <=> f = << >>)
        /\ \A k \in 1 .. Len(f) : /\ g[k].prev = f[k].prev
                                  /\ g[k].hash = f[k].hash
                                  /\ g[k].parses = f[k].parses
    <2>1. \A k \in 1 .. Len(f) : f[k] \in Lines
      OBVIOUS
    <2> QED
      BY <2>1 DEF Lines
  <1>2. f # << >> => Len(f) \in 1 .. Len(f)
    OBVIOUS
  <1>3. Links(f) => Links(g)
    BY <1>1 DEF Links
  <1>4. LastHash(g) = LastHash(f)
    BY <1>1, <1>2 DEF LastHash
  <1>5. \A h \in Seq(Lines) : SameLines(h, f) => SameLines(h, g)
    BY <1>1 DEF SameLines
  <1> QED
    BY <1>3, <1>4, <1>5

(* The empty ledger is linked.                                             *)
LEMMA ChainInit == Init => ChainInv
  BY DEF Init, ChainInv, Links, HolderInv

(* Every step of a single process keeps the ledger linked.                 *)
LEMMA ChainStep == OneProcess /\ TypeOK /\ ChainInv /\ [Next]_vars => ChainInv'
  <1> SUFFICES ASSUME OneProcess, TypeOK, ChainInv, [Next]_vars PROVE ChainInv'
    OBVIOUS
  <1> USE DEF shared, vars
  <1>1. ASSUME NEW p \in Procs, Write(p) PROVE ChainInv'
    <2> DEFINE l == NewLine(p)
    <2>1. l \in Lines /\ l.prev = prev[p]
      BY NewLineType
    <2>2. \A b \in BOOLEAN : /\ [l EXCEPT !.parses = b, !.ended = FALSE] \in Lines
                             /\ [l EXCEPT !.parses = b, !.ended = FALSE].prev = prev[p]
      BY NewLineType
    <2> HIDE DEF l
    <2>3. CASE LogBegin(p)
      BY <2>3 DEF LogBegin, ReadLast, Goto, ChainInv, HolderInv, OneProcess, TypeOK
    <2>4. CASE LogAppend(p)
      <3>1. file' = AddLine(file, l) /\ prev[p] = LastHash(file)
        BY <2>4 DEF LogAppend, WriteFile, ChainInv, HolderInv, l
      <3>2. Links(file')
        BY <2>1, <3>1, AppendKeepsLinks DEF TypeOK, ChainInv
      <3>3. at'[p] \in {"free", "verify"}
        BY <2>4 DEF LogAppend, Goto, TypeOK
      <3> QED
        BY <3>2, <3>3 DEF ChainInv, HolderInv, OneProcess
    <2>5. CASE LogTorn(p)
      <3>1. PICK b \in BOOLEAN :
              file' = AddLine(file, [l EXCEPT !.parses = b, !.ended = FALSE])
        BY <2>5 DEF LogTorn, WriteFile, l
      <3>2. prev[p] = LastHash(file)
        BY <2>5 DEF LogTorn, ChainInv, HolderInv
      <3>3. Links(file')
        BY <2>2, <3>1, <3>2, AppendKeepsLinks DEF TypeOK, ChainInv
      <3>4. at'[p] = "free"
        BY <2>5 DEF LogTorn, Goto, TypeOK
      <3> QED
        BY <3>3, <3>4 DEF ChainInv, HolderInv, OneProcess
    <2> QED
      BY <1>1, <2>3, <2>4, <2>5 DEF Write
  <1>2. ASSUME NEW p \in Procs, Reseal(p) PROVE ChainInv'
    <2>1. CASE ResealCheck(p)
      BY <2>1 DEF ResealCheck, Goto, ChainInv, HolderInv, OneProcess, TypeOK
    <2>2. CASE ResealArchive(p)
      <3>1. \E s \in Seconds : SameLines(archive'[s], file)
        BY <2>2 DEF ResealArchive, SameLines, TypeOK
      <3>2. at'[p] = "truncate" /\ file' = file
        BY <2>2 DEF ResealArchive, Goto, TypeOK
      <3> QED
        BY <3>1, <3>2 DEF ChainInv, HolderInv, OneProcess
    <2>3. CASE ResealTruncate(p)
      <3>1. at'[p] = "record" /\ file' = << >>
        BY <2>3 DEF ResealTruncate, WriteFile, Goto, TypeOK
      <3> QED
        BY <3>1 DEF ChainInv, Links, HolderInv, OneProcess
    <2>4. CASE ResealRecord(p)
      BY <2>4 DEF ResealRecord, ReadLast, Goto, ChainInv, HolderInv, OneProcess, TypeOK
    <2>5. CASE ResealReport(p)
      BY <2>5 DEF ResealReport, Goto, ChainInv, HolderInv, OneProcess, TypeOK
    <2> QED
      BY <1>2, <2>1, <2>2, <2>3, <2>4, <2>5 DEF Reseal
  <1>3. ASSUME NEW p \in Procs, Restart(p) PROVE ChainInv'
    BY <1>3 DEF Restart, Goto, ChainInv, HolderInv, OneProcess, TypeOK
  <1>4. ASSUME NEW r \in Readers, Read(r) PROVE ChainInv'
    <2>1. UNCHANGED <<file, archive, at, prev>>
      BY <1>4 DEF Read, Ask, LookUp, Restat, ReadLines, Store, StoreUnder
    <2> QED
      BY <2>1 DEF ChainInv, HolderInv
  <1>5. CASE Tamper
    <2>1. PICK i \in 1 .. Len(file) : file' = [file EXCEPT ![i].salt = NoSalt]
      BY <1>5 DEF Tamper, WriteFile
    <2>2. UNCHANGED <<archive, at, prev>>
      BY <1>5 DEF Tamper
    <2>3. /\ Links(file')
          /\ LastHash(file') = LastHash(file)
          /\ \A h \in Seq(Lines) : SameLines(h, file) => SameLines(h, file')
      <3>1. file \in Seq(Lines) /\ Links(file)
        BY DEF TypeOK, ChainInv
      <3>2. \A g : g = [file EXCEPT ![i].salt = NoSalt] =>
              /\ Links(g)
              /\ LastHash(g) = LastHash(file)
              /\ \A h \in Seq(Lines) : SameLines(h, file) => SameLines(h, g)
        BY <3>1, AlterKeepsLinks
      <3> QED
        BY <2>1, <3>2
    <2>4. \A s \in Seconds : archive[s] \in Seq(Lines)
      BY DEF TypeOK
    <2>5. file # << >>
      OBVIOUS
    <2> QED
      BY <2>2, <2>3, <2>4, <2>5 DEF ChainInv, HolderInv
  <1>6. CASE UNCHANGED vars
    BY <1>6 DEF ChainInv, HolderInv
  <1> QED
    BY <1>1, <1>2, <1>3, <1>4, <1>5, <1>6 DEF Next

(* A ledger that one process writes is linked entry by entry, whatever is  *)
(* cut off, altered or resealed.                                           *)
THEOREM LinksAreIntact == ASSUME OneProcess PROVE Spec => []LinksIntact
  <1>1. Init => TypeOK /\ ChainInv
    BY TypeInit, ChainInit
  <1>2. TypeOK /\ ChainInv /\ [Next]_vars => (TypeOK /\ ChainInv)'
    BY TypeStep, ChainStep
  <1>3. ChainInv => LinksIntact
    BY DEF ChainInv, Links, LinksIntact
  <1> QED
    BY <1>1, <1>2, <1>3, PTL DEF Spec

(* ---------------------------------------------------------------------- *)
(* Without faults every line is whole and sealed with the one salt.        *)
SealInv ==
  faults = 0 =>
    \A i \in 1 .. Len(file) :
      /\ file[i].parses /\ file[i].ended
      /\ \A p \in Procs : file[i].salt = salt[p]

(* The empty ledger is sealed.                                             *)
LEMMA SealInit == Init => SealInv
  BY DEF Init, SealInv

(* Every step without a fault keeps the ledger sealed.                     *)
LEMMA SealStep == OneProcess /\ TypeOK /\ SealInv /\ [Next]_vars => SealInv'
  <1> SUFFICES ASSUME OneProcess, TypeOK, SealInv, [Next]_vars, faults' = 0 PROVE SealInv'
    BY DEF SealInv
  <1> USE DEF shared, vars
  <1>1. ASSUME NEW k, Fault(k) PROVE FALSE
    BY <1>1 DEF Fault, TypeOK
  <1>2. ASSUME NEW p \in Procs, Write(p) PROVE SealInv'
    <2>1. CASE LogBegin(p)
      BY <2>1 DEF LogBegin, ReadLast, SealInv
    <2>2. CASE LogAppend(p)
      <3>1. file' = AddLine(file, NewLine(p)) /\ UNCHANGED <<salt, faults>>
        BY <2>2 DEF LogAppend, WriteFile
      <3>2. \A i \in 1 .. Len(file) :
              file[i].parses /\ file[i].ended /\ \A q \in Procs : file[i].salt = salt[q]
        BY <3>1 DEF SealInv
      <3>3. file' = Append(file, NewLine(p))
        BY <3>1, <3>2 DEF AddLine, TypeOK
      <3> DEFINE n == Len(file)
                 l == NewLine(p)
      <3>4. /\ n \in Nat /\ Len(file') = n + 1 /\ file'[n + 1] = l
            /\ \A i \in 1 .. n : file'[i] = file[i]
        <4> HIDE DEF l
        <4> QED
          BY <3>3 DEF TypeOK, l
      <3>5. l.parses /\ l.ended /\ \A q \in Procs : l.salt = salt[q]
        BY DEF NewLine, OneProcess
      <3>6. \A i \in 1 .. Len(file') : i \in 1 .. n \/ i = n + 1
        BY <3>4
      <3> HIDE DEF n, l
      <3>7. \A i \in 1 .. n :
              file[i].parses /\ file[i].ended /\ \A q \in Procs : file[i].salt = salt[q]
        BY <3>2 DEF n
      <3> QED
        BY <3>1, <3>4, <3>5, <3>6, <3>7 DEF SealInv
    <2>3. CASE LogTorn(p)
      BY <1>1, <2>3 DEF LogTorn
    <2> QED
      BY <1>2, <2>1, <2>2, <2>3 DEF Write
  <1>3. ASSUME NEW p \in Procs, Reseal(p) PROVE SealInv'
    <2>1. CASE ResealTruncate(p)
      BY <2>1 DEF ResealTruncate, WriteFile, SealInv
    <2>2. CASE ~ResealTruncate(p)
      BY <1>3, <2>2
      DEF Reseal, ResealCheck, ResealArchive, ResealRecord, ReadLast, ResealReport, SealInv
    <2> QED
      BY <2>1, <2>2
  <1>4. ASSUME NEW p \in Procs, Restart(p) PROVE SealInv'
    BY <1>1, <1>4 DEF Restart
  <1>5. ASSUME NEW r \in Readers, Read(r) PROVE SealInv'
    <2>1. UNCHANGED <<file, salt, faults>>
      BY <1>5 DEF Read, Ask, LookUp, Restat, ReadLines, Store, StoreUnder
    <2> QED
      BY <2>1 DEF SealInv
  <1>6. CASE Tamper
    BY <1>1, <1>6 DEF Tamper
  <1>7. CASE UNCHANGED vars
    BY <1>7 DEF SealInv
  <1> QED
    BY <1>2, <1>3, <1>4, <1>5, <1>6, <1>7 DEF Next

(* A ledger that one process writes passes verify_chain as long as nothing *)
(* but log and reseal calls happens to it.                                 *)
THEOREM ChainAlwaysVerifies == ASSUME OneProcess PROVE Spec => []ChainVerifies
  <1>1. Init => TypeOK /\ ChainInv /\ SealInv
    BY TypeInit, ChainInit, SealInit
  <1>2. TypeOK /\ ChainInv /\ SealInv /\ [Next]_vars => (TypeOK /\ ChainInv /\ SealInv)'
    BY TypeStep, ChainStep, SealStep
  <1>3. TypeOK /\ ChainInv /\ SealInv => ChainVerifies
    <2> SUFFICES ASSUME TypeOK, ChainInv, SealInv, faults = 0, NEW p \in Procs
                 PROVE  Verifies(file, salt[p])
      BY DEF ChainVerifies
    <2>1. \A i \in 1 .. Len(file) : file[i].parses /\ file[i].salt = salt[p]
      BY DEF SealInv
    <2>2. \A i \in 1 .. Len(file) : i # 1 => i - 1 \in 1 .. Len(file)
      BY DEF TypeOK
    <2> QED
      BY <2>1, <2>2 DEF Verifies, Parses, ChainInv, Links
  <1> QED
    BY <1>1, <1>2, <1>3, PTL DEF Spec

(* ---------------------------------------------------------------------- *)
(* The steps of a reseal.                                                  *)
ResealSteps ==
  /\ Len(file') < Len(file) => \E s \in Seconds : SameLines(archive[s], file)
  /\ \A p \in Procs : at[p] = "append" /\ at'[p] = "verify" => Verifies(file', salt[p])

(* Only a truncation makes the file shorter. *)
LEMMA AddLineGrows ==
  ASSUME NEW f \in Seq(Lines), NEW l \in Lines
  PROVE  Len(f) \in Nat /\ Len(AddLine(f, l)) \in Nat /\ Len(AddLine(f, l)) >= Len(f)
  BY DEF AddLine

(* Every step obeys the rules of a reseal.                                 *)
LEMMA ResealStep == OneProcess /\ TypeOK /\ ChainInv /\ [Next]_vars => ResealSteps
  <1> SUFFICES ASSUME OneProcess, TypeOK, ChainInv, [Next]_vars PROVE ResealSteps
    OBVIOUS
  <1> USE DEF shared, vars
  <1>1. ASSUME NEW p \in Procs, Write(p) PROVE ResealSteps
    <2> DEFINE l == NewLine(p)
    <2>1. l \in Lines /\ \A b \in BOOLEAN : [l EXCEPT !.parses = b, !.ended = FALSE] \in Lines
      BY NewLineType
    <2>2. CASE LogBegin(p)
      BY <2>2 DEF LogBegin, ReadLast, Goto, ResealSteps, OneProcess, TypeOK
    <2>3. CASE LogAppend(p)
      <3>1. file' = AddLine(file, l)
        BY <2>3 DEF LogAppend, WriteFile
      <3>2. Len(file') >= Len(file)
        <4> HIDE DEF l
        <4> QED
          BY <2>1, <3>1, AddLineGrows DEF TypeOK
      <3>3. ASSUME at[p] = "append" PROVE Verifies(file', salt[p])
        <4>1. file = << >> /\ prev[p] = Genesis
          BY <3>3 DEF ChainInv, HolderInv, LastHash
        <4>2. file' = << l >>
          BY <3>1, <4>1 DEF AddLine
        <4> QED
          BY <4>1, <4>2 DEF Verifies, Parses, NewLine
      <3>4. Len(file') \in Nat /\ Len(file) \in Nat
        <4> HIDE DEF l
        <4> QED
          BY <2>1, <3>1, AddLineGrows DEF TypeOK
      <3> QED
        BY <3>2, <3>3, <3>4 DEF ResealSteps, OneProcess
    <2>4. CASE LogTorn(p)
      <3> HIDE DEF l
      <3>1. PICK b \in BOOLEAN :
              file' = AddLine(file, [l EXCEPT !.parses = b, !.ended = FALSE])
        BY <2>4 DEF LogTorn, WriteFile, l
      <3>2. Len(file') >= Len(file) /\ Len(file') \in Nat /\ Len(file) \in Nat
        BY <2>1, <3>1, AddLineGrows DEF TypeOK
      <3>3. at'[p] = "free"
        BY <2>4 DEF LogTorn, Goto, TypeOK
      <3> QED
        BY <3>2, <3>3 DEF ResealSteps, OneProcess
    <2> QED
      BY <1>1, <2>2, <2>3, <2>4 DEF Write
  <1>2. ASSUME NEW p \in Procs, Reseal(p) PROVE ResealSteps
    <2>1. CASE ResealTruncate(p)
      BY <2>1 DEF ResealTruncate, Goto, ChainInv, HolderInv, ResealSteps, OneProcess, TypeOK
    <2>2. CASE ~ResealTruncate(p)
      BY <1>2, <2>2
      DEF Reseal, ResealCheck, ResealArchive, ResealRecord, ReadLast, ResealReport, Goto,
          ResealSteps, OneProcess, TypeOK
    <2> QED
      BY <2>1, <2>2
  <1>3. ASSUME NEW p \in Procs, Restart(p) PROVE ResealSteps
    BY <1>3 DEF Restart, Goto, ResealSteps, OneProcess, TypeOK
  <1>4. ASSUME NEW r \in Readers, Read(r) PROVE ResealSteps
    <2>1. UNCHANGED <<file, at>>
      BY <1>4 DEF Read, Ask, LookUp, Restat, ReadLines, Store, StoreUnder
    <2> QED
      BY <2>1 DEF ResealSteps, TypeOK
  <1>5. CASE Tamper
    BY <1>5 DEF Tamper, WriteFile, ResealSteps, TypeOK
  <1>6. CASE UNCHANGED vars
    BY <1>6 DEF ResealSteps, TypeOK
  <1> QED
    BY <1>1, <1>2, <1>3, <1>4, <1>5, <1>6 DEF Next

(* Every behaviour obeys the rules of a reseal.                            *)
LEMMA ResealAlways == ASSUME OneProcess PROVE Spec => [][ResealSteps]_vars
  <1>1. Init => TypeOK /\ ChainInv
    BY TypeInit, ChainInit
  <1>2. TypeOK /\ ChainInv /\ [Next]_vars => (TypeOK /\ ChainInv)'
    BY TypeStep, ChainStep
  <1>3. TypeOK /\ ChainInv /\ [Next]_vars => [ResealSteps]_vars
    BY ResealStep
  <1> QED
    BY <1>1, <1>2, <1>3, PTL DEF Spec

(* In a single process a reseal archives every line it removes from the    *)
(* active ledger.                                                          *)
THEOREM EvidenceIsKept == ASSUME OneProcess PROVE Spec => EvidenceKept
  <1>1. [ResealSteps]_vars
          => [Len(file') < Len(file) => \E s \in Seconds : SameLines(archive[s], file)]_vars
    BY DEF ResealSteps
  <1> QED
    BY <1>1, ResealAlways, PTL DEF EvidenceKept

(* In a single process the chain a reseal leaves passes verify_chain.      *)
THEOREM ResealLeavesCleanChain == ASSUME OneProcess PROVE Spec => ResealStartsClean
  <1>1. [ResealSteps]_vars
          => [\A p \in Procs : at[p] = "append" /\ at'[p] = "verify"
                => Verifies(file', salt[p])]_vars
    BY DEF ResealSteps
  <1> QED
    BY <1>1, ResealAlways, PTL DEF ResealStartsClean

(* ---------------------------------------------------------------------- *)
(* What the readers answer.  A reader in a call has in could what the file *)
(* has said since the stat it took, so it may trust a cache entry or an    *)
(* answer stored under that stat or a later one; what is stored under the  *)
(* present stat is what the file says now.                                 *)
InCall(r) == reader[r].at \in {"asked", "missed", "stated", "report"}

Present(r) == Report(reader[r].kind, file, salt[Home[r]])

CallOK(r) ==
  /\ InCall(r) =>
       /\ reader[r].stat <= stat
       /\ Present(r) \in reader[r].could
       /\ reader[r].stat = stat => reader[r].could = {Present(r)}
  /\ reader[r].at = "stated" => reader[r].stat <= reader[r].fresh /\ reader[r].fresh <= stat
  /\ reader[r].at \in {"report", "done"} => reader[r].answer \in reader[r].could

(* Two callers of one process who ask the same: the one who asked later    *)
(* may answer less.                                                        *)
LaterKnowsLess(r, q) ==
  InCall(r) /\ InCall(q) /\ Home[r] = Home[q] /\ reader[r].kind = reader[q].kind
    /\ reader[r].stat <= reader[q].stat
  => reader[q].could \subseteq reader[r].could

EntriesOK(p, e) ==
  /\ e.stat <= stat
  /\ e.stat = stat => e.lines = file
  /\ \A r \in Readers :
       InCall(r) /\ Home[r] = p /\ reader[r].stat <= e.stat
         => Report(reader[r].kind, e.lines, salt[p]) \in reader[r].could

AnswerOK(p, k, m) ==
  /\ m.stat <= stat
  /\ m.stat = stat => m.answer = Report(k, file, salt[p])
  /\ \A r \in Readers :
       InCall(r) /\ Home[r] = p /\ reader[r].kind = k /\ reader[r].stat <= m.stat
         => m.answer \in reader[r].could

CallsInv == \A r \in Readers : CallOK(r) /\ \A q \in Readers : LaterKnowsLess(r, q)
CachesInv ==
  \A p \in Procs :
    /\ EntriesOK(p, entries[p])
    /\ \A k \in Kinds : \A m \in memo[p][k] : AnswerOK(p, k, m)

ReadsInv == CallsInv /\ CachesInv

(* The empty ledger has nothing cached and nobody asking.                  *)
LEMMA ReadsInit == Init => ReadsInv
  BY DEF Init, ReadsInv, CallsInv, CachesInv, CallOK, LaterKnowsLess, InCall, EntriesOK, AnswerOK,
         Idle, NoEntries, NoMemo, Kinds

(* What a write does to the record of a reader. *)
LEMMA WriteToReader ==
  ASSUME TypeOK, NEW f, WriteFile(f), NEW r \in Readers
  PROVE  /\ reader'[r].at = reader[r].at
         /\ reader'[r].kind = reader[r].kind
         /\ reader'[r].stat = reader[r].stat
         /\ reader'[r].fresh = reader[r].fresh
         /\ reader'[r].answer = reader[r].answer
         /\ reader'[r].could = IF InCall(r)
              THEN reader[r].could \cup {Report(reader[r].kind, f, salt[Home[r]])}
              ELSE reader[r].could
  <1>1. reader[r] \in Calls
    BY DEF TypeOK
  <1> DEFINE a == Report(reader[r].kind, f, salt[Home[r]])
  <1>2. reader'[r] = IF reader[r].at \in {"idle", "done"} THEN reader[r]
                     ELSE [reader[r] EXCEPT !.could = @ \cup {a}]
    BY DEF WriteFile
  <1> HIDE DEF a
  <1>3. InCall(r) <=> reader[r].at \notin {"idle", "done"}
    BY <1>1 DEF InCall, Calls
  <1>4. reader'[r].could = IF InCall(r) THEN reader[r].could \cup {a} ELSE reader[r].could
    BY <1>1, <1>2, <1>3 DEF Calls
  <1> QED
    BY <1>1, <1>2, <1>4 DEF Calls, a

(* A write makes every cached answer older than the file.                  *)
LEMMA WriteKeepsReads ==
  ASSUME TypeOK, ReadsInv, NEW f, WriteFile(f), UNCHANGED salt,
         UNCHANGED caches \/ \E p \in Procs : Forget(p)
  PROVE  ReadsInv'
  <1> DEFINE new(r) == Report(reader[r].kind, f, salt[Home[r]])
  <1>1. file' = f /\ stat' = stat + 1 /\ stat \in Nat
    BY DEF WriteFile, TypeOK
  <1>2. ASSUME NEW r \in Readers
        PROVE  /\ reader'[r].at = reader[r].at
               /\ reader'[r].kind = reader[r].kind
               /\ reader'[r].answer = reader[r].answer
               /\ reader'[r].could = IF InCall(r) THEN reader[r].could \cup {new(r)}
                                     ELSE reader[r].could
    BY <1>1, WriteToReader
  <1>3. ASSUME NEW r \in Readers
        PROVE  /\ reader'[r].stat = reader[r].stat /\ reader[r].stat \in Nat
               /\ reader'[r].fresh = reader[r].fresh /\ reader[r].fresh \in Nat
    BY <1>1, WriteToReader DEF TypeOK, Calls
  <1>4. ASSUME NEW r \in Readers
        PROVE  /\ InCall(r)' <=> InCall(r)
               /\ Present(r)' = new(r)
               /\ reader[r].could \subseteq reader'[r].could
               /\ InCall(r) => new(r) \in reader'[r].could
    BY <1>1, <1>2 DEF InCall, Present
  <1>5. ASSUME NEW r \in Readers
        PROVE  CallOK(r)'
    <2> HIDE DEF new
    <2>1. CallOK(r)
      BY DEF ReadsInv, CallsInv
    <2>2. /\ reader'[r].at = reader[r].at
          /\ reader'[r].answer = reader[r].answer
          /\ reader[r].could \subseteq reader'[r].could
      BY <1>2, <1>4
    <2>3. /\ InCall(r)' <=> InCall(r)
          /\ Present(r)' = new(r)
          /\ InCall(r) => new(r) \in reader'[r].could
      BY <1>4
    <2>4. /\ reader'[r].stat = reader[r].stat /\ reader[r].stat \in Nat
          /\ reader'[r].fresh = reader[r].fresh /\ reader[r].fresh \in Nat
      BY <1>3
    <2>5. InCall(r)' => /\ reader'[r].stat <= stat' /\ reader'[r].stat # stat'
                       /\ Present(r)' \in reader'[r].could
      BY <1>1, <2>1, <2>3, <2>4 DEF CallOK
    <2>6. reader'[r].at = "stated" => reader'[r].stat <= reader'[r].fresh /\ reader'[r].fresh <= stat'
      BY <1>1, <2>1, <2>2, <2>4 DEF CallOK
    <2>7. reader'[r].at \in {"report", "done"} => reader'[r].answer \in reader'[r].could
      BY <2>1, <2>2 DEF CallOK
    <2> QED
      BY <2>5, <2>6, <2>7 DEF CallOK
  <1>6. ASSUME NEW r \in Readers, NEW q \in Readers
        PROVE  LaterKnowsLess(r, q)'
    <2>1. LaterKnowsLess(r, q)
      BY DEF ReadsInv, CallsInv
    <2>2. Home[r] = Home[q] /\ reader[r].kind = reader[q].kind => new(r) = new(q)
      OBVIOUS
    <2>3. /\ reader'[r].kind = reader[r].kind /\ reader'[r].stat = reader[r].stat
          /\ InCall(r)' <=> InCall(r)
          /\ reader[r].could \subseteq reader'[r].could
          /\ InCall(r) => new(r) \in reader'[r].could
      BY <1>2, <1>3, <1>4
    <2>4. /\ reader'[q].kind = reader[q].kind /\ reader'[q].stat = reader[q].stat
          /\ InCall(q)' <=> InCall(q)
          /\ InCall(q) => reader'[q].could = reader[q].could \cup {new(q)}
      BY <1>2, <1>3, <1>4
    <2> HIDE DEF new
    <2> QED
      BY <2>1, <2>2, <2>3, <2>4 DEF LaterKnowsLess
  <1>7. ASSUME NEW p \in Procs
        PROVE  /\ EntriesOK(p, entries[p])'
               /\ \A k \in Kinds : \A m \in memo'[p][k] : AnswerOK(p, k, m)'
    <2> HIDE DEF new
    <2>1. /\ EntriesOK(p, entries[p])
          /\ \A k \in Kinds : \A m \in memo[p][k] : AnswerOK(p, k, m)
      BY DEF ReadsInv, CachesInv
    <2>2. \/ entries'[p] = entries[p] /\ memo'[p] = memo[p]
          \/ entries'[p] = NoEntries /\ memo'[p] = NoMemo
      BY DEF caches, Forget, TypeOK
    <2>3. entries[p].stat \in Int /\ memo[p] \in Memos
      BY DEF TypeOK, Snapshots
    <2>4. CASE entries'[p] = entries[p] /\ memo'[p] = memo[p]
      <3>1. EntriesOK(p, entries[p])'
        <4>1. entries'[p].stat <= stat' /\ entries'[p].stat # stat'
          BY <1>1, <2>1, <2>3, <2>4 DEF EntriesOK
        <4>2. ASSUME NEW r \in Readers, InCall(r)', Home[r] = p,
                     reader'[r].stat <= entries'[p].stat
              PROVE  Report(reader'[r].kind, entries'[p].lines, salt'[p]) \in reader'[r].could
          BY <1>2, <1>3, <1>4, <2>1, <2>4, <4>2 DEF EntriesOK
        <4> QED
          BY <4>1, <4>2 DEF EntriesOK
      <3>2. ASSUME NEW k \in Kinds, NEW m \in memo[p][k]
            PROVE  AnswerOK(p, k, m)'
        <4>1. AnswerOK(p, k, m) /\ m.stat \in Nat
          BY <2>1, <2>3 DEF Memos
        <4>2. m.stat <= stat' /\ m.stat # stat'
          BY <1>1, <4>1 DEF AnswerOK
        <4>3. ASSUME NEW r \in Readers, InCall(r)', Home[r] = p, reader'[r].kind = k,
                     reader'[r].stat <= m.stat
              PROVE  m.answer \in reader'[r].could
          BY <1>2, <1>3, <1>4, <4>1, <4>3 DEF AnswerOK
        <4> QED
          BY <4>2, <4>3 DEF AnswerOK
      <3> QED
        BY <2>4, <3>1, <3>2
    <2>5. CASE entries'[p] = NoEntries /\ memo'[p] = NoMemo
      <3>1. EntriesOK(p, entries[p])'
        <4>1. \A r \in Readers : ~(reader'[r].stat <= -1)
          BY <1>3
        <4> QED
          BY <1>1, <2>5, <4>1 DEF EntriesOK, NoEntries
      <3> QED
        BY <2>5, <3>1 DEF NoMemo
    <2> QED
      BY <2>2, <2>4, <2>5
  <1> QED
    BY <1>5, <1>6, <1>7 DEF ReadsInv, CallsInv, CachesInv

(* What the lock holder or a reader finds under the present stat is what   *)
(* the file says.                                                          *)
LEMMA PresentLines ==
  ASSUME ReadsInv, NEW p \in Procs
  PROVE  LinesRead(p, stat) = file
  BY DEF ReadsInv, CachesInv, EntriesOK, LinesRead, Cached

(* What verify_chain answers under the lock is what the file says: a         *)
(* remembered answer that is met again was reached of the same lines.        *)
LEMMA VerdictExact ==
  ASSUME ReadsInv, NEW p \in Procs
  PROVE  Verdict(p) = Report("verify", file, salt[p])
  <1>1. CASE Hits(p, "verify", stat) # {}
    <2>1. \A m \in Hits(p, "verify", stat) : m.answer = Report("verify", file, salt[p])
      BY DEF Hits, ReadsInv, CachesInv, AnswerOK, Kinds
    <2> QED
      BY <1>1, <2>1 DEF Verdict
  <1>2. CASE Hits(p, "verify", stat) = {}
    BY <1>2, PresentLines DEF Verdict
  <1> QED
    BY <1>1, <1>2

(* What a reader reads under a stat it has taken is no older than it.      *)
LEMMA ReadKeepsCaches ==
  ASSUME TypeOK, ReadsInv, NEW p \in Procs, NEW st \in Nat, st <= stat
  PROVE  /\ EntriesOK(p, EntriesAfterRead(p, st))
         /\ \A k \in Kinds : \A m \in MemoAfterRead(p, st)[k] : AnswerOK(p, k, m)
  <1>1. EntriesOK(p, entries[p])
    BY DEF ReadsInv, CachesInv
  <1>2. EntriesOK(p, [stat |-> st, lines |-> file])
    BY DEF EntriesOK, ReadsInv, CallsInv, CallOK, Present
  <1>3. EntriesOK(p, EntriesAfterRead(p, st))
    BY <1>1, <1>2 DEF EntriesAfterRead
  <1>4. ASSUME NEW k \in Kinds, NEW m \in MemoAfterRead(p, st)[k]
        PROVE  AnswerOK(p, k, m)
    BY <1>4 DEF MemoAfterRead, NoMemo, ReadsInv, CachesInv
  <1> QED
    BY <1>3, <1>4

(* A step that leaves the file alone, lets callers finish or go on, and    *)
(* puts only such entries and answers in the caches of one process.        *)
LEMMA CachesChange ==
  ASSUME ReadsInv, UNCHANGED <<file, stat, salt>>,
         NEW p \in Procs,
         \A q \in Procs : q # p => entries'[q] = entries[q] /\ memo'[q] = memo[q],
         EntriesOK(p, entries'[p]),
         \A k \in Kinds : \A m \in memo'[p][k] : AnswerOK(p, k, m),
         \A r \in Readers : /\ reader'[r].kind = reader[r].kind
                            /\ reader'[r].could = reader[r].could
                            /\ reader'[r].at \in {"asked", "missed", "stated", "report"}
                                 => InCall(r) /\ reader'[r].stat = reader[r].stat,
         \A r \in Readers : CallOK(r)'
  PROVE  ReadsInv'
  <1>1. ASSUME NEW r \in Readers, NEW q \in Readers
        PROVE  LaterKnowsLess(r, q)'
    BY DEF LaterKnowsLess, InCall, ReadsInv, CallsInv
  <1>2. ASSUME NEW q \in Procs
        PROVE  EntriesOK(q, entries'[q]) /\ \A k \in Kinds : \A m \in memo'[q][k] : AnswerOK(q, k, m)
    BY DEF ReadsInv, CachesInv
  <1>3. ASSUME NEW q \in Procs
        PROVE  EntriesOK(q, entries[q])'
    BY <1>2 DEF EntriesOK, InCall
  <1>4. ASSUME NEW q \in Procs, NEW k \in Kinds, NEW m \in memo'[q][k]
        PROVE  AnswerOK(q, k, m)'
    BY <1>2, <1>4 DEF AnswerOK, InCall
  <1> QED
    BY <1>1, <1>3, <1>4 DEF ReadsInv, CallsInv, CachesInv

(* A verification by the holder of the lock leaves the caches true.        *)
LEMMA VerifyKeepsReads ==
  ASSUME TypeOK, ReadsInv, NEW p \in Procs, CachesAfterVerify(p),
         UNCHANGED <<file, stat, salt, reader>>
  PROVE  ReadsInv'
  <1>1. \A r \in Readers : CallOK(r)'
    BY DEF CallOK, InCall, Present, ReadsInv, CallsInv
  <1>2. /\ EntriesOK(p, entries'[p])
        /\ \A k \in Kinds : \A m \in memo'[p][k] : AnswerOK(p, k, m)
        /\ \A q \in Procs : q # p => entries'[q] = entries[q] /\ memo'[q] = memo[q]
    <2>1. CASE Hits(p, "verify", stat) # {}
      BY <2>1 DEF CachesAfterVerify, caches, ReadsInv, CachesInv
    <2>2. CASE Hits(p, "verify", stat) = {}
      <3> DEFINE a == MemoAfterRead(p, stat)
                 m0 == [stat |-> stat, answer |-> Report("verify", file, salt[p])]
      <3>1. /\ EntriesOK(p, EntriesAfterRead(p, stat))
            /\ \A k \in Kinds : \A m \in a[k] : AnswerOK(p, k, m)
        BY ReadKeepsCaches DEF TypeOK
      <3>2. a \in Memos
        BY CacheTypes DEF TypeOK
      <3>3. AnswerOK(p, "verify", m0)
        BY DEF AnswerOK, ReadsInv, CallsInv, CallOK, Present, TypeOK
      <3>4. \A k \in Kinds : \A m \in Remember(a, "verify", stat, Verdict(p))[k] :
              m \in a[k] \/ (k = "verify" /\ m = m0)
        BY <3>2, VerdictExact DEF Remember, Memos
      <3> HIDE DEF a, m0
      <3>5. /\ entries' = [entries EXCEPT ![p] = EntriesAfterRead(p, stat)]
            /\ \/ memo' = [memo EXCEPT ![p] = a]
               \/ memo' = [memo EXCEPT ![p] = Remember(a, "verify", stat, Verdict(p))]
        BY <2>2 DEF CachesAfterVerify, a
      <3>6. \A k \in Kinds : \A m \in memo'[p][k] : AnswerOK(p, k, m)
        BY <3>1, <3>3, <3>4, <3>5 DEF TypeOK
      <3> QED
        BY <3>1, <3>5, <3>6 DEF TypeOK
    <2> QED
      BY <2>1, <2>2
  <1> QED
    BY <1>1, <1>2, CachesChange DEF InCall

(* A restart empties the caches and ends the calls of its process.         *)
LEMMA RestartKeepsReads ==
  ASSUME TypeOK, ReadsInv, NEW p \in Procs, Restart(p)
  PROVE  ReadsInv'
  <1> USE HomeAssumption
  <1>1. /\ UNCHANGED <<file, stat>>
        /\ \A q \in Procs : q # p => /\ salt'[q] = salt[q] /\ entries'[q] = entries[q]
                                     /\ memo'[q] = memo[q]
        /\ entries'[p] = NoEntries /\ memo'[p] = NoMemo
        /\ \A r \in Readers : reader'[r] = IF Home[r] = p THEN Idle ELSE reader[r]
    BY DEF Restart, Forget, TypeOK, shared
  <1>2. stat \in Nat /\ \A r \in Readers : reader[r].stat \in Nat
    BY DEF TypeOK, Calls
  <1>3. ASSUME NEW r \in Readers PROVE CallOK(r)'
    BY <1>1 DEF CallOK, InCall, Present, Idle, ReadsInv, CallsInv
  <1>4. ASSUME NEW r \in Readers, NEW q \in Readers PROVE LaterKnowsLess(r, q)'
    BY <1>1 DEF LaterKnowsLess, InCall, Idle, ReadsInv, CallsInv
  <1>5. ASSUME NEW q \in Procs PROVE EntriesOK(q, entries[q])'
    <2>1. CASE q = p
      BY <1>1, <1>2, <2>1 DEF EntriesOK, InCall, NoEntries, Idle
    <2>2. CASE q # p
      BY <1>1, <2>2 DEF EntriesOK, InCall, Idle, ReadsInv, CachesInv
    <2> QED
      BY <2>1, <2>2
  <1>6. ASSUME NEW q \in Procs, NEW k \in Kinds, NEW m \in memo'[q][k] PROVE AnswerOK(q, k, m)'
    <2>1. q # p /\ m \in memo[q][k]
      BY <1>1, <1>6 DEF NoMemo
    <2> QED
      BY <1>1, <2>1 DEF AnswerOK, InCall, Idle, ReadsInv, CachesInv
  <1> QED
    BY <1>3, <1>4, <1>5, <1>6 DEF ReadsInv, CallsInv, CachesInv

(* A caller that moves on, with the same question and no new answer.       *)
LEMMA MoveKeepsReads ==
  ASSUME TypeOK, ReadsInv, UNCHANGED <<file, stat, salt, caches>>, NEW r \in Readers,
         NEW c, reader' = [reader EXCEPT ![r] = c],
         c.kind = reader[r].kind, c.could = reader[r].could,
         c.at \in {"asked", "missed", "stated", "report"}
           => InCall(r) /\ c.stat = reader[r].stat,
         c.at = "stated" => c.stat <= c.fresh /\ c.fresh <= stat,
         c.at \in {"report", "done"} => c.answer \in c.could
  PROVE  ReadsInv'
  <1> USE HomeAssumption
  <1>1. /\ reader'[r] = c
        /\ \A q \in Readers : q # r => reader'[q] = reader[q]
    BY DEF TypeOK
  <1>2. ASSUME NEW q \in Readers PROVE CallOK(q)'
    <2>1. CallOK(q)
      BY DEF ReadsInv, CallsInv
    <2>2. CASE q = r
      BY <1>1, <2>1, <2>2 DEF CallOK, InCall, Present
    <2>3. CASE q # r
      BY <1>1, <2>1, <2>3 DEF CallOK, InCall, Present
    <2> QED
      BY <2>2, <2>3
  <1>3. Home[r] \in Procs
    OBVIOUS
  <1>4. \A q \in Procs : entries'[q] = entries[q] /\ memo'[q] = memo[q]
    BY DEF caches
  <1>5. /\ EntriesOK(Home[r], entries'[Home[r]])
        /\ \A k \in Kinds : \A m \in memo'[Home[r]][k] : AnswerOK(Home[r], k, m)
    BY <1>3, <1>4 DEF ReadsInv, CachesInv
  <1>6. \A q \in Readers : /\ reader'[q].kind = reader[q].kind
                           /\ reader'[q].could = reader[q].could
                           /\ reader'[q].at \in {"asked", "missed", "stated", "report"}
                                => InCall(q) /\ reader'[q].stat = reader[q].stat
    BY <1>1 DEF InCall
  <1> QED
    BY <1>2, <1>3, <1>4, <1>5, <1>6, CachesChange

(* Every step of a reader: what it answers was true during the call.       *)
LEMMA ReadKeepsReads ==
  ASSUME TypeOK, ReadsInv, NEW r \in Readers, Read(r)
  PROVE  ReadsInv'
  <1> USE HomeAssumption
  <1> DEFINE c == reader[r]
             p == Home[r]
  <1>1. c \in Calls /\ p \in Procs
    BY DEF TypeOK
  <1>2. CallOK(r)
    BY DEF ReadsInv, CallsInv
  <1>3. CASE Ask(r)
    <2>1. PICK k \in Kinds :
            reader' = [reader EXCEPT ![r] =
              [at |-> IF k = "entries" THEN "missed" ELSE "asked", kind |-> k,
               stat |-> stat, fresh |-> 0, answer |-> NoAnswer,
               could |-> {Report(k, file, salt[Home[r]])}]]
      BY <1>3 DEF Ask
    <2>2. UNCHANGED <<file, stat, salt, caches>>
      BY <1>3 DEF Ask, shared
    <2> DEFINE a == Report(k, file, salt[p])
    <2>3. /\ reader'[r].at \in {"asked", "missed"} /\ reader'[r].kind = k
          /\ reader'[r].stat = stat /\ reader'[r].could = {a}
          /\ \A q \in Readers : q # r => reader'[q] = reader[q]
      BY <2>1 DEF TypeOK
    <2>4. \A q \in Readers :
            /\ CallOK(q)
            /\ InCall(q) => reader[q].stat \in Nat /\ reader[q].stat <= stat
      BY DEF ReadsInv, CallsInv, CallOK, TypeOK, Calls
    <2>5. stat \in Nat
      BY DEF TypeOK
    <2>6. ASSUME NEW q \in Readers PROVE CallOK(q)'
      <3>1. CASE q = r
        BY <2>2, <2>3, <2>5, <3>1 DEF CallOK, InCall, Present
      <3>2. CASE q # r
        BY <2>2, <2>3, <2>4, <3>2 DEF CallOK, InCall, Present
      <3> QED
        BY <3>1, <3>2
    <2>7. ASSUME NEW q \in Readers, NEW s \in Readers PROVE LaterKnowsLess(q, s)'
      <3>1. LaterKnowsLess(q, s)
        BY DEF ReadsInv, CallsInv
      <3> HIDE DEF c, p
      <3>2. CASE q = r /\ s # r
        <4>1. InCall(s) /\ Home[q] = Home[s] /\ k = reader[s].kind /\ stat <= reader[s].stat
                => reader[s].could = {a}
          BY <2>4, <2>5, <3>2 DEF CallOK, Present, p
        <4> QED
          BY <2>3, <3>2, <4>1 DEF LaterKnowsLess, InCall
      <3>3. CASE s = r /\ q # r
        <4>1. InCall(q) /\ Home[q] = Home[s] /\ k = reader[q].kind => a \in reader[q].could
          BY <2>4, <3>3 DEF CallOK, Present, p
        <4> QED
          BY <2>3, <3>3, <4>1 DEF LaterKnowsLess, InCall
      <3>4. CASE q = s
        BY <3>4 DEF LaterKnowsLess
      <3>5. CASE q # r /\ s # r
        BY <2>3, <3>1, <3>5 DEF LaterKnowsLess, InCall
      <3> QED
        BY <3>2, <3>3, <3>4, <3>5
    <2>8. ASSUME NEW q \in Procs PROVE EntriesOK(q, entries[q])'
      <3>1. EntriesOK(q, entries[q]) /\ entries[q].stat \in Int
        BY DEF ReadsInv, CachesInv, TypeOK, Snapshots
      <3>2. entries'[q] = entries[q]
        BY <2>2 DEF caches
      <3>3. stat <= entries[q].stat => entries[q].lines = file
        BY <2>5, <3>1 DEF EntriesOK
      <3> QED
        BY <2>2, <2>3, <3>1, <3>2, <3>3 DEF EntriesOK, InCall
    <2>9. ASSUME NEW q \in Procs, NEW j \in Kinds, NEW m \in memo'[q][j]
          PROVE  AnswerOK(q, j, m)'
      <3>1. m \in memo[q][j]
        BY <2>2 DEF caches
      <3>2. AnswerOK(q, j, m) /\ m.stat \in Nat
        BY <3>1 DEF ReadsInv, CachesInv, TypeOK, Memos
      <3>3. stat <= m.stat => m.answer = Report(j, file, salt[q])
        BY <2>5, <3>2 DEF AnswerOK
      <3> QED
        BY <2>2, <2>3, <3>2, <3>3 DEF AnswerOK, InCall
    <2> QED
      BY <2>6, <2>7, <2>8, <2>9 DEF ReadsInv, CallsInv, CachesInv
  <1>4. CASE LookUp(r)
    <2>1. CASE reader' = [reader EXCEPT ![r].at = "missed"]
      <3>1. reader' = [reader EXCEPT ![r] = [c EXCEPT !.at = "missed"]]
        BY <2>1 DEF TypeOK
      <3>2. InCall(r)
        BY <1>4 DEF LookUp, InCall
      <3> DEFINE d == [c EXCEPT !.at = "missed"]
      <3>3. d.kind = c.kind /\ d.could = c.could /\ d.stat = c.stat /\ d.at = "missed"
        BY <1>1 DEF Calls
      <3>4. UNCHANGED <<file, stat, salt, caches>>
        BY <1>4 DEF LookUp, shared
      <3> HIDE DEF d, c
      <3>5. reader' = [reader EXCEPT ![r] = d]
        BY <3>1 DEF d
      <3> QED
        BY <3>2, <3>3, <3>4, <3>5, MoveKeepsReads DEF c
    <2>2. CASE \E m \in Hits(p, c.kind, c.stat) : Return(r, m.answer)
      <3>1. PICK m \in Hits(p, c.kind, c.stat) : Return(r, m.answer)
        BY <2>2
      <3>2. InCall(r) /\ c.kind \in Kinds /\ c.stat \in Nat
        BY <1>1, <1>4 DEF LookUp, InCall, Calls
      <3>3. m.answer \in c.could
        <4>1. m \in memo[p][c.kind] /\ m.stat = c.stat
          BY DEF Hits
        <4>2. AnswerOK(p, c.kind, m)
          BY <1>1, <3>2, <4>1 DEF ReadsInv, CachesInv
        <4> QED
          BY <3>2, <4>1, <4>2 DEF AnswerOK
      <3> DEFINE d == [c EXCEPT !.at = "done", !.answer = m.answer, !.stat = 0, !.fresh = 0]
      <3>4. d.kind = c.kind /\ d.could = c.could /\ d.answer = m.answer /\ d.at = "done"
        BY <1>1 DEF Calls
      <3>5. UNCHANGED <<file, stat, salt, caches>>
        BY <1>4 DEF LookUp, shared
      <3>6. reader' = [reader EXCEPT ![r] = d]
        BY <3>1 DEF Return, TypeOK
      <3> HIDE DEF d, c
      <3> QED
        BY <3>3, <3>4, <3>5, <3>6, MoveKeepsReads DEF c
    <2> QED
      BY <1>4, <2>1, <2>2 DEF LookUp
  <1>5. CASE Restat(r)
    <2> DEFINE d == [c EXCEPT !.at = "stated", !.fresh = stat]
    <2>1. d.kind = c.kind /\ d.could = c.could /\ d.stat = c.stat /\ d.fresh = stat /\ d.at = "stated"
      BY <1>1 DEF Calls
    <2>2. UNCHANGED <<file, stat, salt, caches>>
      BY <1>5 DEF Restat, shared
    <2>3. reader' = [reader EXCEPT ![r] = d]
      BY <1>5 DEF Restat, TypeOK
    <2>4. InCall(r) /\ c.stat <= stat /\ stat <= stat
      BY <1>2, <1>5 DEF Restat, InCall, CallOK, TypeOK
    <2> HIDE DEF d, c
    <2> QED
      BY <2>1, <2>2, <2>3, <2>4, MoveKeepsReads DEF c
  <1>6. CASE ReadLines(r)
    <2> DEFINE lines == LinesRead(p, c.fresh)
               a == Report(c.kind, lines, salt[p])
    <2>1. /\ c.at = "stated" /\ InCall(r) /\ c.fresh \in Nat /\ c.fresh <= stat
          /\ c.stat <= c.fresh
      BY <1>1, <1>2, <1>6 DEF ReadLines, InCall, CallOK, Calls
    <2>2. a \in c.could
      <3>1. CASE Cached(p, c.fresh)
        <4>1. EntriesOK(p, entries[p])
          BY <1>1 DEF ReadsInv, CachesInv
        <4>2. lines = entries[p].lines /\ entries[p].stat = c.fresh
          BY <3>1 DEF LinesRead, Cached
        <4> QED
          BY <2>1, <4>1, <4>2 DEF EntriesOK
      <3>2. CASE ~Cached(p, c.fresh)
        BY <1>2, <2>1, <3>2 DEF CallOK, Present, LinesRead
      <3> QED
        BY <3>1, <3>2
    <2> HIDE DEF lines, a
    <2>3. /\ EntriesOK(p, EntriesAfterRead(p, c.fresh))
          /\ \A k \in Kinds : \A m \in MemoAfterRead(p, c.fresh)[k] : AnswerOK(p, k, m)
      BY <1>1, <2>1, ReadKeepsCaches
    <2>4. /\ entries' = [entries EXCEPT ![p] = EntriesAfterRead(p, c.fresh)]
          /\ memo' = [memo EXCEPT ![p] = MemoAfterRead(p, c.fresh)]
          /\ UNCHANGED <<file, stat, salt>>
      BY <1>6 DEF ReadLines, shared
    <2>5. PICK d : /\ reader' = [reader EXCEPT ![r] = d]
                   /\ d.kind = c.kind /\ d.could = c.could /\ d.answer = a
                   /\ \/ d.at = "report" /\ d.stat = c.stat
                      \/ d.at = "done"
      <3>1. CASE Return(r, a)
        <4> DEFINE d == [c EXCEPT !.at = "done", !.answer = a, !.stat = 0, !.fresh = 0]
        <4>1. d.kind = c.kind /\ d.could = c.could /\ d.answer = a /\ d.at = "done"
          BY <1>1 DEF Calls
        <4>2. reader' = [reader EXCEPT ![r] = d]
          BY <3>1 DEF Return, TypeOK
        <4> HIDE DEF d, c
        <4> QED
          BY <4>1, <4>2
      <3>2. CASE reader' = [reader EXCEPT ![r] = [@ EXCEPT !.at = "report", !.fresh = 0,
                                                          !.answer = a]]
        <4> DEFINE d == [c EXCEPT !.at = "report", !.fresh = 0, !.answer = a]
        <4>1. /\ d.kind = c.kind /\ d.could = c.could /\ d.answer = a /\ d.at = "report"
              /\ d.stat = c.stat
          BY <1>1 DEF Calls
        <4>2. reader' = [reader EXCEPT ![r] = d]
          BY <3>2 DEF TypeOK
        <4> HIDE DEF d, c
        <4> QED
          BY <4>1, <4>2
      <3> QED
        BY <1>6, <3>1, <3>2 DEF ReadLines, a, lines
    <2> HIDE DEF c, p
    <2>6. /\ reader'[r] = d
          /\ \A q \in Readers : q # r => reader'[q] = reader[q]
      BY <2>5 DEF TypeOK
    <2>7. ASSUME NEW q \in Readers PROVE CallOK(q)'
      <3>1. CallOK(q)
        BY DEF ReadsInv, CallsInv
      <3>2. CASE q = r
        BY <2>1, <2>2, <2>4, <2>5, <2>6, <3>1, <3>2 DEF CallOK, InCall, Present, c
      <3>3. CASE q # r
        BY <2>4, <2>6, <3>1, <3>3 DEF CallOK, InCall, Present
      <3> QED
        BY <3>2, <3>3
    <2>8. /\ EntriesOK(p, entries'[p])
          /\ \A k \in Kinds : \A m \in memo'[p][k] : AnswerOK(p, k, m)
          /\ \A q \in Procs : q # p => entries'[q] = entries[q] /\ memo'[q] = memo[q]
      BY <1>1, <2>3, <2>4 DEF TypeOK
    <2>9. \A q \in Readers : /\ reader'[q].kind = reader[q].kind
                             /\ reader'[q].could = reader[q].could
                             /\ reader'[q].at \in {"asked", "missed", "stated", "report"}
                                  => InCall(q) /\ reader'[q].stat = reader[q].stat
      BY <2>1, <2>5, <2>6 DEF InCall, c
    <2> QED
      BY <1>1, <2>4, <2>7, <2>8, <2>9, CachesChange
  <1>7. CASE Store(r)
    <2>1. c.at = "report" /\ InCall(r) /\ c.stat \in Nat /\ c.kind \in Kinds
      BY <1>1, <1>7 DEF Store, StoreUnder, InCall, Calls
    <2> DEFINE m0 == [stat |-> c.stat, answer |-> c.answer]
               d == [c EXCEPT !.at = "done", !.answer = c.answer, !.stat = 0, !.fresh = 0]
    <2>2. AnswerOK(p, c.kind, m0)
      <3>1. /\ c.stat <= stat /\ c.answer \in c.could
            /\ c.stat = stat => c.could = {Report(c.kind, file, salt[p])}
        BY <1>2, <2>1 DEF CallOK, Present
      <3>2. ASSUME NEW q \in Readers, InCall(q), Home[q] = p, reader[q].kind = c.kind,
                   reader[q].stat <= c.stat
            PROVE  c.answer \in reader[q].could
        <4>1. LaterKnowsLess(q, r)
          BY DEF ReadsInv, CallsInv
        <4> QED
          BY <2>1, <3>1, <3>2, <4>1 DEF LaterKnowsLess
      <3> HIDE DEF c, p
      <3> QED
        BY <3>1, <3>2 DEF AnswerOK
    <2>3. d.kind = c.kind /\ d.could = c.could /\ d.answer = c.answer /\ d.at = "done"
      BY <1>1 DEF Calls
    <2>4. /\ memo' = [memo EXCEPT ![p] = Remember(memo[p], c.kind, c.stat, c.answer)]
          /\ reader' = [reader EXCEPT ![r] = d]
          /\ UNCHANGED <<file, stat, salt, entries>>
      BY <1>7 DEF Store, StoreUnder, Return, TypeOK, shared
    <2>5. \A k \in Kinds : \A m \in Remember(memo[p], c.kind, c.stat, c.answer)[k] :
            m \in memo[p][k] \/ (k = c.kind /\ m = m0)
      <3>1. memo[p] \in Memos
        BY <1>1 DEF TypeOK
      <3> QED
        BY <2>1, <3>1 DEF Remember, Memos
    <2> HIDE DEF d, m0, c, p
    <2>6. /\ reader'[r] = d
          /\ \A q \in Readers : q # r => reader'[q] = reader[q]
      BY <2>4 DEF TypeOK
    <2>7. ASSUME NEW q \in Readers PROVE CallOK(q)'
      <3>1. CallOK(q)
        BY DEF ReadsInv, CallsInv
      <3>2. CASE q = r
        BY <2>1, <2>3, <2>4, <2>6, <3>1, <3>2 DEF CallOK, InCall, Present, c
      <3>3. CASE q # r
        BY <2>4, <2>6, <3>1, <3>3 DEF CallOK, InCall, Present
      <3> QED
        BY <3>2, <3>3
    <2>8. /\ EntriesOK(p, entries'[p])
          /\ \A k \in Kinds : \A m \in memo'[p][k] : AnswerOK(p, k, m)
          /\ \A q \in Procs : q # p => entries'[q] = entries[q] /\ memo'[q] = memo[q]
      <3>1. /\ EntriesOK(p, entries[p])
            /\ \A k \in Kinds : \A m \in memo[p][k] : AnswerOK(p, k, m)
        BY <1>1 DEF ReadsInv, CachesInv
      <3>2. memo'[p] = Remember(memo[p], c.kind, c.stat, c.answer)
        BY <1>1, <2>4 DEF TypeOK
      <3>3. \A k \in Kinds : \A m \in memo'[p][k] : AnswerOK(p, k, m)
        BY <2>2, <2>5, <3>1, <3>2
      <3>4. \A q \in Procs : q # p => memo'[q] = memo[q]
        BY <2>4 DEF TypeOK
      <3> QED
        BY <2>4, <3>1, <3>3, <3>4
    <2>9. \A q \in Readers : /\ reader'[q].kind = reader[q].kind
                             /\ reader'[q].could = reader[q].could
                             /\ reader'[q].at \in {"asked", "missed", "stated", "report"}
                                  => InCall(q) /\ reader'[q].stat = reader[q].stat
      BY <2>3, <2>6 DEF InCall, c
    <2> QED
      BY <1>1, <2>4, <2>7, <2>8, <2>9, CachesChange
  <1> QED
    BY <1>3, <1>4, <1>5, <1>6, <1>7 DEF Read

(* Every step keeps the caches true of what they are stored under.         *)
LEMMA ReadsStep == TypeOK /\ ReadsInv /\ [Next]_vars => ReadsInv'
  <1> SUFFICES ASSUME TypeOK, ReadsInv, [Next]_vars PROVE ReadsInv'
    OBVIOUS
  <1>1. ASSUME UNCHANGED <<file, stat, salt, caches, reader>> PROVE ReadsInv'
    BY <1>1
    DEF ReadsInv, CallsInv, CachesInv, CallOK, LaterKnowsLess, EntriesOK, AnswerOK, InCall, Present,
        caches
  <1>2. ASSUME NEW p \in Procs, Write(p) PROVE ReadsInv'
    <2>1. CASE LogBegin(p)
      BY <1>1, <2>1 DEF LogBegin, ReadLast, shared
    <2>2. CASE LogAppend(p)
      BY <2>2, WriteKeepsReads DEF LogAppend
    <2>3. CASE LogTorn(p)
      BY <2>3, WriteKeepsReads DEF LogTorn
    <2> QED
      BY <1>2, <2>1, <2>2, <2>3 DEF Write
  <1>3. ASSUME NEW p \in Procs, Reseal(p) PROVE ReadsInv'
    <2>1. CASE ResealCheck(p) \/ ResealReport(p)
      BY <2>1, VerifyKeepsReads DEF ResealCheck, ResealReport, shared
    <2>2. CASE ResealArchive(p) \/ ResealRecord(p)
      BY <1>1, <2>2 DEF ResealArchive, ResealRecord, ReadLast, shared
    <2>3. CASE ResealTruncate(p)
      BY <2>3, WriteKeepsReads DEF ResealTruncate
    <2> QED
      BY <1>3, <2>1, <2>2, <2>3 DEF Reseal
  <1>4. CASE Tamper
    <2>1. PICK f : WriteFile(f)
      BY <1>4 DEF Tamper
    <2> QED
      BY <1>4, <2>1, WriteKeepsReads DEF Tamper
  <1>5. CASE UNCHANGED vars
    BY <1>1, <1>5 DEF vars, shared
  <1> QED
    BY <1>2, <1>3, <1>4, <1>5, RestartKeepsReads, ReadKeepsReads DEF Next

(* The reads keep their invariant for ever.                                *)
LEMMA ReadsAlways == Spec => [](TypeOK /\ ReadsInv)
  <1>1. Init => TypeOK /\ ReadsInv
    BY TypeInit, ReadsInit
  <1>2. TypeOK /\ ReadsInv /\ [Next]_vars => (TypeOK /\ ReadsInv)'
    BY TypeStep, ReadsStep
  <1> QED
    BY <1>1, <1>2, PTL DEF Spec

(* Whatever verify_chain, get_entries and get_summary_stats answer, from   *)
(* the file or from a cache, was true of the ledger at some moment of the  *)
(* call: for any number of processes and threads, and through cut-off      *)
(* writes, alterations, reseals and restarts.                              *)
THEOREM ReportsAreTrue == Spec => []ReportsTrue
  <1>1. TypeOK /\ ReadsInv => ReportsTrue
    BY DEF ReadsInv, CallsInv, CallOK, ReportsTrue
  <1> QED
    BY <1>1, ReadsAlways, PTL

(* ---------------------------------------------------------------------- *)
(* A reseal that has gone past its verification holds the lock of the only *)
(* process, and alterations never repair a ledger.                         *)
CorruptInv ==
  \A p \in Procs : at[p] \in {"archive", "truncate"} => ~Verifies(file, salt[p])

(* No alteration makes a ledger verify.                                    *)
LEMMA AlteredFails ==
  ASSUME NEW f \in Seq(Lines), NEW i \in 1 .. Len(f), NEW s \in Salts
  PROVE  ~Verifies([f EXCEPT ![i].salt = NoSalt], s)
  <1> DEFINE g == [f EXCEPT ![i].salt = NoSalt]
  <1>1. f[i] \in Lines
    OBVIOUS
  <1>2. Len(g) = Len(f) /\ g[i].salt = NoSalt
    BY <1>1 DEF Lines
  <1> HIDE DEF g
  <1>3. ~Verifies(g, s)
    BY <1>2, SaltAssumption DEF Verifies
  <1> QED
    BY <1>3 DEF g

(* Every step of a single process keeps a ledger under reseal corrupt.     *)
LEMMA CorruptStep ==
  OneProcess /\ TypeOK /\ ReadsInv /\ CorruptInv /\ [Next]_vars => CorruptInv'
  <1> SUFFICES ASSUME OneProcess, TypeOK, ReadsInv, CorruptInv, [Next]_vars,
                      NEW p \in Procs, at'[p] \in {"archive", "truncate"}
               PROVE  ~Verifies(file, salt[p])'
    BY DEF CorruptInv
  <1>1. ASSUME at[p] \in {"archive", "truncate"}, UNCHANGED <<file, salt>>
        PROVE  ~Verifies(file, salt[p])'
    BY <1>1 DEF CorruptInv
  <1>2. ASSUME NEW q \in Procs, Write(q) PROVE FALSE
    BY <1>2 DEF Write, LogBegin, ReadLast, LogAppend, LogTorn, Goto, TypeOK, OneProcess
  <1>3. ASSUME NEW q \in Procs, Reseal(q) PROVE ~Verifies(file, salt[p])'
    <2>1. q = p
      BY DEF OneProcess
    <2>2. CASE ResealCheck(p)
      <3>1. ~Verdict(p).valid /\ UNCHANGED <<file, salt>>
        BY <1>1, <2>2 DEF ResealCheck, Goto, TypeOK, shared
      <3>2. Verdict(p).valid = ("verify" # "verify" \/ Verifies(file, salt[p]))
        BY VerdictExact DEF Report
      <3> QED
        BY <3>1, <3>2
    <2>3. CASE ResealArchive(p)
      BY <1>1, <2>3 DEF ResealArchive, shared
    <2>4. CASE ~ResealCheck(p) /\ ~ResealArchive(p)
      BY <1>3, <2>1, <2>4
      DEF Reseal, ResealTruncate, ResealRecord, ReadLast, ResealReport, Goto, TypeOK
    <2> QED
      BY <2>2, <2>3, <2>4
  <1>4. ASSUME NEW q \in Procs, Restart(q) PROVE FALSE
    BY <1>4 DEF Restart, Goto, TypeOK, OneProcess
  <1>5. ASSUME NEW r \in Readers, Read(r) PROVE ~Verifies(file, salt[p])'
    BY <1>1, <1>5 DEF Read, Ask, LookUp, Restat, ReadLines, Store, StoreUnder, shared
  <1>6. CASE Tamper
    <2>1. PICK i \in 1 .. Len(file) : file' = [file EXCEPT ![i].salt = NoSalt]
      BY <1>6 DEF Tamper, WriteFile
    <2>2. file \in Seq(Lines) /\ salt[p] \in Salts /\ salt' = salt
      BY <1>6 DEF TypeOK, Tamper
    <2> QED
      BY <2>1, <2>2, AlteredFails
  <1>7. CASE UNCHANGED vars
    BY <1>1, <1>7 DEF vars, shared
  <1> QED
    BY <1>2, <1>3, <1>4, <1>5, <1>6, <1>7 DEF Next

(* In a single process reseal_corrupted_chain truncates a ledger only if   *)
(* it does not pass verify_chain at that moment: the verdict, cached or    *)
(* not, is about the ledger that is archived and emptied.                  *)
THEOREM CorruptOnlyIsResealed == ASSUME OneProcess PROVE Spec => OnlyCorruptResealed
  <1>1. Init => CorruptInv
    BY DEF Init, CorruptInv
  <1>2. TypeOK /\ ReadsInv /\ CorruptInv /\ [Next]_vars => CorruptInv'
    BY CorruptStep
  <1>3. TypeOK /\ ReadsInv /\ CorruptInv /\ [Next]_vars
          => [\A p \in Procs : at[p] = "truncate" /\ at'[p] = "record"
                 => ~Verifies(file, salt[p])]_vars
    BY DEF CorruptInv
  <1> QED
    BY <1>1, <1>2, <1>3, ReadsAlways, PTL DEF Spec, OnlyCorruptResealed
=============================================================================
