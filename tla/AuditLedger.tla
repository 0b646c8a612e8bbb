---------------------------- MODULE AuditLedger ----------------------------
(***************************************************************************)
(* The audit ledger of backend/audit/ledger.py: a JSONL file whose lines   *)
(* are chained by hash, written by the threads of several processes.       *)
(*                                                                         *)
(* Each process has one reentrant lock and its own caches; the file and    *)
(* the archives are shared.  A thread that appends or reseals holds the    *)
(* lock of its process from beginning to end; verify_chain, get_entries    *)
(* and get_summary_stats take it piecewise, and take the file's stat       *)
(* outside it.                                                             *)
(*                                                                         *)
(* A hash is the number of the entry it belongs to: distinct entries have  *)
(* distinct hashes.  A stat (mtime_ns, size) is the number of writes to    *)
(* the file: two contents have distinct stats.  A ledger that does not     *)
(* exist reads as an empty one.                                            *)
(***************************************************************************)
EXTENDS Integers, Sequences, FiniteSets

CONSTANTS
  Procs,        \* processes that share the ledger file
  Readers,      \* threads that verify the chain or list it
  Home,         \* the process each reader runs in
  Resealers,    \* processes that call reseal_corrupted_chain
  Salts,        \* values of LEDGER_MASTER_SALT
  NoSalt,       \* what content that was altered is sealed with
  FaultKinds,   \* "tamper", "torn", "restart"
  MaxFaults,    \* bound on their number in one behaviour
  MaxEntries,   \* bound on the number of entries ever written
  Seconds       \* seconds in which ledgers may be archived

ASSUME HomeAssumption == Home \in [Readers -> Procs]
ASSUME SaltAssumption == NoSalt \notin Salts
ASSUME BoundAssumption == MaxFaults \in Nat /\ MaxEntries \in Nat /\ Seconds \subseteq Nat

VARIABLES
  file,      \* the lines of the ledger
  stat,      \* its stat: the number of writes to it so far
  archive,   \* the archived ledger of each second, <<>> if none
  now,       \* the second of the latest archive (time passes unseen until then)
  used,      \* entries written so far
  salt,      \* the salt each process was started with
  at,        \* where the holder of each process's lock is
  prev,      \* the last hash it has read
  entries,   \* _entries_cache of each process
  memo,      \* _verify_cache and _summary_cache of each process
  reader,    \* what each reader is doing
  faults     \* alterations, torn writes and restarts so far

shared == <<file, stat, used>>
caches == <<entries, memo>>
vars == <<shared, archive, now, salt, at, prev, caches, reader, faults>>

Genesis == 0
Corrupted == -1
Hashes == {Corrupted} \cup Nat
Lines == [hash : Nat, prev : Hashes, salt : Salts \cup {NoSalt},
          parses : BOOLEAN, ended : BOOLEAN]
Kinds == {"verify", "entries", "summary"}
Answers == [valid : BOOLEAN, total : Nat]
Snapshots == [stat : Nat \cup {-1}, lines : Seq(Lines)]
Memos == [Kinds -> SUBSET [stat : Nat, answer : Answers]]
Calls == [at : {"idle", "asked", "missed", "stated", "report", "done"}, kind : Kinds,
          stat : Nat, fresh : Nat, answer : Answers, could : SUBSET Answers]
NoAnswer == [valid |-> TRUE, total |-> 0]
NoEntries == [stat |-> -1, lines |-> << >>]
NoMemo == [k \in Kinds |-> {}]
Idle == [at |-> "idle", kind |-> "verify", stat |-> 0, fresh |-> 0,
         answer |-> NoAnswer, could |-> {}]

TypeOK ==
  /\ file \in Seq(Lines)
  /\ stat \in Nat
  /\ archive \in [Seconds -> Seq(Lines)]
  /\ now \in Seconds
  /\ used \in Nat
  /\ salt \in [Procs -> Salts]
  /\ at \in [Procs -> {"free", "log", "archive", "truncate", "record", "append", "verify"}]
  /\ prev \in [Procs -> Hashes]
  /\ entries \in [Procs -> Snapshots]
  /\ memo \in [Procs -> Memos]
  /\ reader \in [Readers -> Calls]
  /\ faults \in 0 .. MaxFaults

Init ==
  /\ file = << >>
  /\ stat = 0
  /\ archive = [s \in Seconds |-> << >>]
  /\ now \in {s \in Seconds : \A t \in Seconds : s <= t}
  /\ used = 0
  /\ \E s \in Salts : salt = [p \in Procs |-> s]
  /\ at = [p \in Procs |-> "free"]
  /\ prev = [p \in Procs |-> Genesis]
  /\ entries = [p \in Procs |-> NoEntries]
  /\ memo = [p \in Procs |-> NoMemo]
  /\ reader = [r \in Readers |-> Idle]
  /\ faults = 0

(***************************************************************************)
(* The file.                                                               *)
(***************************************************************************)
(* Faulty variant: a last line that does not parse has some other hash. *)
LastHashUnknown(f) ==
  IF f = << >> THEN Genesis
  ELSE IF f[Len(f)].parses THEN f[Len(f)].hash ELSE Corrupted - 1

(* Faulty variant: looks at the line before the last. *)
LastHashBefore(f) == IF Len(f) < 2 THEN Genesis ELSE f[Len(f)-1].hash

(* _get_last_hash. *)
LastHash(f) ==
  IF f = << >> THEN Genesis
  ELSE IF f[Len(f)].parses THEN f[Len(f)].hash ELSE Corrupted

(* Text appended after a line without newline becomes part of that line,   *)
(* which then is no JSON document.                                         *)
AddLine(f, line) ==
  IF f # << >> /\ ~f[Len(f)].ended
  THEN [f EXCEPT ![Len(f)] = [@ EXCEPT !.parses = FALSE, !.ended = line.ended]]
  ELSE Append(f, line)

Parses(f) == \A i \in 1 .. Len(f) : f[i].parses

(* Both checks of verify_chain: the links, and the seal of each entry. *)
Verifies(f, s) ==
  /\ Parses(f)
  /\ \A i \in 1 .. Len(f) :
       /\ f[i].prev = (IF i = 1 THEN Genesis ELSE f[i-1].hash)
       /\ f[i].salt = s

(* What a reader of that kind answers from these lines.  A line that does  *)
(* not parse makes verify_chain report 0 entries and the others list none. *)
Report(kind, f, s) ==
  [valid |-> kind # "verify" \/ Verifies(f, s),
   total |-> IF Parses(f) THEN Len(f) ELSE 0]

(* Every write gives the file a new stat; a call in progress could answer  *)
(* by what the file says now as well.                                      *)
WriteFile(f) ==
  /\ file' = f
  /\ stat' = stat + 1
  /\ reader' = [r \in Readers |->
                 IF reader[r].at \in {"idle", "done"} THEN reader[r]
                 ELSE [reader[r] EXCEPT !.could =
                         @ \cup {Report(reader[r].kind, f, salt[Home[r]])}]]

Forget(p) ==
  /\ entries' = [entries EXCEPT ![p] = NoEntries]
  /\ memo' = [memo EXCEPT ![p] = NoMemo]

Goto(p, place) == at' = [at EXCEPT ![p] = place]

Fault(kind) ==
  /\ kind \in FaultKinds
  /\ faults < MaxFaults
  /\ faults' = faults + 1

(***************************************************************************)
(* log(): read the last hash, build the entry, append it, drop the caches, *)
(* all under the lock of the process.                                      *)
(***************************************************************************)
ReadLast(p, from, to) ==
  /\ at[p] = from
  /\ prev' = [prev EXCEPT ![p] = LastHash(file)]
  /\ Goto(p, to)
  /\ UNCHANGED <<shared, archive, now, salt, caches, reader, faults>>

NewLine(p) == [hash |-> used + 1, prev |-> prev[p], salt |-> salt[p],
               parses |-> TRUE, ended |-> TRUE]

LogBegin(p) ==
  /\ used < MaxEntries
  /\ ReadLast(p, "free", "log")

LogAppend(p) ==
  /\ at[p] \in {"log", "append"}
  /\ WriteFile(AddLine(file, NewLine(p)))
  /\ used' = used + 1
  /\ Forget(p)
  /\ Goto(p, IF at[p] = "log" THEN "free" ELSE "verify")
  /\ prev' = [prev EXCEPT ![p] = Genesis]
  /\ UNCHANGED <<archive, now, salt, faults>>

(* The disk fills up, or the machine stops, in the middle of the write:    *)
(* the line is cut off, perhaps just before its newline.  The exception    *)
(* leaves log (and reseal_corrupted_chain) with the caches as they were.   *)
LogTorn(p) ==
  /\ Fault("torn")
  /\ at[p] \in {"log", "append"}
  /\ \E whole \in BOOLEAN :
       WriteFile(AddLine(file, [NewLine(p) EXCEPT !.parses = whole, !.ended = FALSE]))
  /\ used' = used + 1
  /\ Goto(p, "free")
  /\ prev' = [prev EXCEPT ![p] = Genesis]
  /\ UNCHANGED <<archive, now, salt, caches>>

(***************************************************************************)
(* The caches.  _read_entries_chronological(p) with the stat it took:      *)
(* the lines it returns, and what it leaves in the caches.  Parsing fails  *)
(* before anything is cached.                                              *)
(***************************************************************************)
Cached(p, st) == entries[p].stat = st

LinesRead(p, st) == IF Cached(p, st) THEN entries[p].lines ELSE file

EntriesAfterRead(p, st) ==
  IF Cached(p, st) \/ ~Parses(file) THEN entries[p] ELSE [stat |-> st, lines |-> file]

MemoAfterRead(p, st) ==
  IF Cached(p, st) \/ ~Parses(file) THEN memo[p] ELSE NoMemo

(* _verify_cache has one slot; _summary_cache keeps them all. *)
Remember(m, kind, st, answer) ==
  [m EXCEPT ![kind] = (IF kind = "summary" THEN @ ELSE {})
                        \cup {[stat |-> st, answer |-> answer]}]

Hits(p, kind, st) == {m \in memo[p][kind] : m.stat = st}

(***************************************************************************)
(* verify_chain called by the holder of the lock of p.                     *)
(***************************************************************************)
Verdict(p) ==
  IF Hits(p, "verify", stat) # {}
  THEN (CHOOSE m \in Hits(p, "verify", stat) : TRUE).answer
  ELSE Report("verify", LinesRead(p, stat), salt[p])

CachesAfterVerify(p) ==
  IF Hits(p, "verify", stat) # {}
  THEN UNCHANGED caches
  ELSE /\ entries' = [entries EXCEPT ![p] = EntriesAfterRead(p, stat)]
       /\ memo' = [memo EXCEPT ![p] =
                    IF Parses(LinesRead(p, stat))
                    THEN Remember(MemoAfterRead(p, stat), "verify", stat, Verdict(p))
                    ELSE MemoAfterRead(p, stat)]

(***************************************************************************)
(* reseal_corrupted_chain: verify, copy the file to the archive named      *)
(* after the second, truncate it, log the incident in the fresh chain,     *)
(* verify again.                                                           *)
(***************************************************************************)
(* Faulty variant: reseals whatever verify_chain says. *)
ResealAnyway(p) ==
  /\ used < MaxEntries
  /\ p \in Resealers
  /\ at[p] = "free"
  /\ CachesAfterVerify(p)
  /\ Goto(p, "archive")
  /\ UNCHANGED <<shared, archive, now, salt, prev, reader, faults>>

ResealCheck(p) ==
  /\ used < MaxEntries
  /\ p \in Resealers
  /\ at[p] = "free"
  /\ CachesAfterVerify(p)
  /\ IF Verdict(p).valid THEN UNCHANGED at ELSE Goto(p, "archive")
  /\ UNCHANGED <<shared, archive, now, salt, prev, reader, faults>>

(* Faulty variant: archives the parsed entries, not the file. *)
ResealArchiveParsed(p) ==
  /\ at[p] = "archive"
  /\ now' = now
  /\ archive' = [archive EXCEPT ![now] = entries[p].lines]
  /\ prev' = [prev EXCEPT ![p] = LastHash(file)]
  /\ Goto(p, "truncate")
  /\ UNCHANGED <<shared, salt, caches, reader, faults>>

(* The archive is named after the second, so one of the same second is     *)
(* overwritten.  previous_last_hash is read for the incident report.       *)
ResealArchive(p) ==
  /\ at[p] = "archive"
  /\ \E s \in Seconds :
       /\ now <= s
       /\ now' = s
       /\ archive' = [archive EXCEPT ![s] = file]
  /\ prev' = [prev EXCEPT ![p] = LastHash(file)]
  /\ Goto(p, "truncate")
  /\ UNCHANGED <<shared, salt, caches, reader, faults>>

ResealTruncate(p) ==
  /\ at[p] = "truncate"
  /\ WriteFile(<< >>)
  /\ Goto(p, "record")
  /\ UNCHANGED <<used, archive, now, salt, prev, caches, faults>>

(* Faulty variant: the incident entry is linked to previous_last_hash. *)
ResealRecordLinked(p) ==
  /\ at[p] = "record"
  /\ Goto(p, "append")
  /\ UNCHANGED <<shared, archive, now, salt, prev, caches, reader, faults>>

ResealRecord(p) == ReadLast(p, "record", "append")

ResealReport(p) ==
  /\ at[p] = "verify"
  /\ CachesAfterVerify(p)
  /\ Goto(p, "free")
  /\ UNCHANGED <<shared, archive, now, salt, prev, reader, faults>>

(***************************************************************************)
(* The readers: verify_chain ("verify"), get_entries ("entries") and       *)
(* get_summary_stats ("summary").  Each takes the stat, looks in its own   *)
(* cache under the lock, reads the lines (with a stat of its own) under    *)
(* the lock, and stores its answer under the first stat.                   *)
(***************************************************************************)
Return(r, answer) ==
  reader' = [reader EXCEPT ![r] = [@ EXCEPT !.at = "done", !.answer = answer,
                                            !.stat = 0, !.fresh = 0]]

Ask(r) ==
  /\ reader[r].at \in {"idle", "done"}
  /\ \E k \in Kinds :
       reader' = [reader EXCEPT ![r] =
         [at |-> IF k = "entries" THEN "missed" ELSE "asked", kind |-> k, stat |-> stat,
          fresh |-> 0, answer |-> NoAnswer, could |-> {Report(k, file, salt[Home[r]])}]]
  /\ UNCHANGED <<shared, archive, now, salt, at, prev, caches, faults>>

LookUp(r) ==
  /\ reader[r].at = "asked"
  /\ at[Home[r]] = "free"
  /\ LET hits == Hits(Home[r], reader[r].kind, reader[r].stat) IN
       \/ /\ hits = {}
          /\ reader' = [reader EXCEPT ![r].at = "missed"]
       \/ \E m \in hits : Return(r, m.answer)
  /\ UNCHANGED <<shared, archive, now, salt, at, prev, caches, faults>>

Restat(r) ==
  /\ reader[r].at = "missed"
  /\ reader' = [reader EXCEPT ![r].at = "stated", ![r].fresh = stat]
  /\ UNCHANGED <<shared, archive, now, salt, at, prev, caches, faults>>

(* An unreadable ledger is reported at once, and not remembered, by        *)
(* verify_chain; get_entries turns it into an empty list.                  *)
ReadLines(r) ==
  LET p == Home[r]  k == reader[r].kind  lines == LinesRead(p, reader[r].fresh) IN
    /\ reader[r].at = "stated"
    /\ at[p] = "free"
    /\ IF k = "entries" \/ (k = "verify" /\ ~Parses(lines))
       THEN Return(r, Report(k, lines, salt[p]))
       ELSE reader' = [reader EXCEPT ![r] = [@ EXCEPT !.at = "report", !.fresh = 0,
                                              !.answer = Report(k, lines, salt[p])]]
    /\ entries' = [entries EXCEPT ![p] = EntriesAfterRead(p, reader[r].fresh)]
    /\ memo' = [memo EXCEPT ![p] = MemoAfterRead(p, reader[r].fresh)]
    /\ UNCHANGED <<shared, archive, now, salt, at, prev, faults>>

StoreUnder(r, st) ==
  /\ reader[r].at = "report"
  /\ at[Home[r]] = "free"
  /\ memo' = [memo EXCEPT ![Home[r]] = Remember(@, reader[r].kind, st, reader[r].answer)]
  /\ Return(r, reader[r].answer)
  /\ UNCHANGED <<shared, archive, now, salt, at, prev, entries, faults>>

(* Faulty variant: the answer is stored under the stat of the moment. *)
StoreLate(r) == StoreUnder(r, stat)

Store(r) == StoreUnder(r, reader[r].stat)

(***************************************************************************)
(* What happens to the ledger from outside.                                *)
(***************************************************************************)
(* Somebody alters the content of an entry, leaving its recorded hash. *)
Tamper ==
  /\ Fault("tamper")
  /\ \E i \in 1 .. Len(file) :
       /\ file[i].parses
       /\ WriteFile([file EXCEPT ![i].salt = NoSalt])
  /\ UNCHANGED <<used, archive, now, salt, at, prev, caches>>

(* A process is killed and started again, perhaps with another salt. *)
Restart(p) ==
  /\ Fault("restart")
  /\ \E s \in Salts : salt' = [salt EXCEPT ![p] = s]
  /\ Goto(p, "free")
  /\ Forget(p)
  /\ reader' = [r \in Readers |-> IF Home[r] = p THEN Idle ELSE reader[r]]
  /\ prev' = [prev EXCEPT ![p] = Genesis]
  /\ UNCHANGED <<shared, archive, now>>

Write(p) == LogBegin(p) \/ LogAppend(p) \/ LogTorn(p)

Reseal(p) ==
  \/ ResealCheck(p) \/ ResealArchive(p) \/ ResealTruncate(p)
  \/ ResealRecord(p) \/ ResealReport(p)

Read(r) == Ask(r) \/ LookUp(r) \/ Restat(r) \/ ReadLines(r) \/ Store(r)

Next ==
  \/ \E p \in Procs : Write(p) \/ Reseal(p) \/ Restart(p)
  \/ \E r \in Readers : Read(r)
  \/ Tamper

Spec == Init /\ [][Next]_vars

(***************************************************************************)
(* Properties.                                                             *)
(***************************************************************************)

(* Every entry is linked to the line before it in the file, whatever was   *)
(* cut off, altered or resealed: no append ever comes between the reading  *)
(* of the last hash and the append that uses it.                           *)
LinksIntact ==
  \A i \in 1 .. Len(file) :
    file[i].parses =>
      file[i].prev = IF i = 1 THEN Genesis
                     ELSE IF file[i-1].parses THEN file[i-1].hash ELSE Corrupted

(* A ledger to which nothing ever happened but log() and reseal calls      *)
(* passes verify_chain in every process.                                   *)
ChainVerifies == faults = 0 => \A p \in Procs : Verifies(file, salt[p])

(* The answer of verify_chain, get_entries or get_summary_stats was true   *)
(* of the ledger at some moment of the call, whatever the caches held.     *)
ReportsTrue ==
  \A r \in Readers : reader[r].at = "done" => reader[r].answer \in reader[r].could

SameLines(f, g) == Len(f) = Len(g) /\ \A i \in 1 .. Len(f) : f[i].hash = g[i].hash

(* reseal_corrupted_chain never destroys evidence: when it truncates the   *)
(* ledger, one of the archives holds all its lines.                        *)
EvidenceKept ==
  [][Len(file') < Len(file) => \E s \in Seconds : SameLines(archive[s], file)]_vars

(* It never truncates a ledger that passes its own process's verification. *)
OnlyCorruptResealed ==
  [][\A p \in Procs : at[p] = "truncate" /\ at'[p] = "record" => ~Verifies(file, salt[p])]_vars

(* The fresh chain it leaves verifies in its process.                      *)
ResealStartsClean ==
  [][\A p \in Procs : at[p] = "append" /\ at'[p] = "verify" => Verifies(file', salt[p])]_vars
=============================================================================
