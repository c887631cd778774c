---------------------------- MODULE LedgerProofs ----------------------------
(***************************************************************************)
(* What the ledger guarantees for any set of receipts, any number of       *)
(* entries and any number of crashes and failed writes.                    *)
(***************************************************************************)
EXTENDS Ledger, CommonProofs

(* Appending to a chain that verifies leaves one that verifies. *)
LEMMA AppendKeepsChain ==
    ASSUME NEW S, NEW log \in Seq(S), NEW r, NewEntry(log, r, r) \in S,
           VerifyChain(log)
    PROVE  VerifyChain(Append(log, NewEntry(log, r, r)))
<1> DEFINE e == NewEntry(log, r, r)
           after == Append(log, e)
<1>1. /\ Len(log) \in Nat
      /\ DOMAIN log = 1..Len(log)
      /\ DOMAIN after = 1..(Len(log) + 1)
      /\ \A i \in 1..Len(log) : after[i] = log[i]
      /\ after[Len(log) + 1] = e
  BY AppendedLog
<1>2. log = << >> <=> Len(log) = 0
  BY EmptySeq
<1>3. /\ e.seq = Len(log)
      /\ e.prev_hash = HeadHash(log)
      /\ e.receipt = r
      /\ e.entry_hash = Digest(HeadHash(log), Len(log), r)
  BY DEF NewEntry
<1> HIDE DEF e, after
<1>4. ASSUME NEW i \in 1..(Len(log) + 1)
      PROVE  Previous(after, i) = IF i = Len(log) + 1 THEN HeadHash(log)
                                                      ELSE Previous(log, i)
  <2>1. CASE i = 1
    BY <2>1, <1>1, <1>2 DEF Previous, HeadHash
  <2>2. CASE i # 1
    <3>1. i - 1 \in 1..Len(log)
      BY <2>2, <1>1
    <3>2. after[i - 1] = log[i - 1]
      BY <3>1, <1>1
    <3>3. log # << >>
      BY <3>1, <1>1, <1>2
    <3>4. CASE i = Len(log) + 1
      <4>1. i - 1 = Len(log)
        BY <3>4, <1>1
      <4> QED
        BY <4>1, <3>2, <3>3, <3>4, <2>2 DEF Previous, HeadHash
    <3> QED
      BY <3>2, <3>4, <2>2 DEF Previous
  <2> QED
    BY <2>1, <2>2
<1>5. ASSUME NEW i \in 1..(Len(log) + 1)
      PROVE  /\ after[i].seq = i - 1
             /\ after[i].prev_hash = Previous(after, i)
             /\ after[i].entry_hash
                  = Digest(after[i].prev_hash, after[i].seq, after[i].receipt)
  <2>1. CASE i = Len(log) + 1
    BY <2>1, <1>1, <1>3, <1>4
  <2>2. CASE i # Len(log) + 1
    <3>1. i \in 1..Len(log)
      BY <2>2, <1>1
    <3> QED
      BY <3>1, <2>2, <1>1, <1>4 DEF VerifyChain
  <2> QED
    BY <2>1, <2>2
<1>6. VerifyChain(after)
  BY <1>1, <1>5 DEF VerifyChain
<1> QED
  BY <1>6 DEF after, e

(* The entry append() builds has the type of an entry. *)
LEMMA NewLineIsAnEntry ==
    ASSUME TypeOK, NEW r \in Receipts
    PROVE  NewLine(r) \in Entry
<1>1. Len(memory) \in Nat /\ DOMAIN memory = 1..Len(memory)
  BY LenProperties DEF TypeOK
<1>2. HeadHash(memory) \in Hash
  <2>1. CASE memory = << >>
    BY <2>1 DEF HeadHash, GENESIS, Hash
  <2>2. CASE memory # << >>
    <3>1. Len(memory) \in 1..Len(memory)
      BY <2>2, <1>1, EmptySeq DEF TypeOK
    <3>2. memory[Len(memory)] \in Entry
      BY <3>1, ElementOfSeq DEF TypeOK
    <3> QED
      BY <3>2, <2>2 DEF HeadHash, Entry
  <2> QED
    BY <2>1, <2>2
<1>3. Digest(HeadHash(memory), Len(memory), r) \in Hash
  BY <1>1, <1>2, AppendProperties DEF Digest, Hash
<1> QED
  BY <1>1, <1>2, <1>3 DEF NewLine, NewEntry, Entry

(* What a write that got some text to the file does to its lines. *)
LEMMA WrittenEffect ==
    ASSUME TypeOK, TornHasALine, NEW text \in Entry \cup {Unreadable}, Written(text)
    PROVE  /\ lines' \in Seq(Entry \cup {Unreadable})
           /\ lines' # << >>
           /\ torn => ~ Readable' /\ lines'[Len(lines')] = Unreadable
           /\ ~ torn => /\ lines' = Append(lines, text)
                        /\ lines'[Len(lines')] = text
                        /\ Readable' <=> Readable /\ text # Unreadable
           /\ \A i \in DOMAIN lines :
                 i \in DOMAIN lines' /\ (lines'[i] = lines[i] \/ torn)
<1> DEFINE Line == Entry \cup {Unreadable}
<1>0. lines \in Seq(Line) /\ Len(lines) \in Nat /\ DOMAIN lines = 1..Len(lines)
  BY LenProperties DEF TypeOK
<1>1. CASE torn
  <2>1. lines' = [lines EXCEPT ![Len(lines)] = Unreadable]
    BY <1>1 DEF Written
  <2>2. Len(lines) \in 1..Len(lines)
    BY <1>0, <1>1, EmptySeq DEF TornHasALine
  <2>3. lines' \in Seq(Line) /\ Len(lines') = Len(lines)
    BY <1>0, <2>1, <2>2, ExceptSeq
  <2>4. lines'[Len(lines')] = Unreadable
    BY <1>0, <2>1, <2>2, <2>3
  <2>5. DOMAIN lines' = 1..Len(lines)
    BY <2>3, LenProperties
  <2>6. lines' # << >>
    BY <2>2, <2>3, <1>0, EmptySeq
  <2>7. ~ Readable'
    BY <2>2, <2>3, <2>4, <2>5 DEF Readable
  <2> QED
    BY <1>0, <1>1, <2>3, <2>4, <2>5, <2>6, <2>7
<1>2. CASE ~ torn
  <2>1. lines' = Append(lines, text)
    BY <1>2 DEF Written
  <2>2. /\ lines' \in Seq(Line)
        /\ Len(lines') = Len(lines) + 1
        /\ DOMAIN lines' = 1..(Len(lines) + 1)
        /\ \A i \in 1..Len(lines) : lines'[i] = lines[i]
        /\ lines'[Len(lines) + 1] = text
    BY <1>0, <2>1, AppendedLog
  <2>3. lines' # << >>
    BY <2>2, <1>0, EmptySeq
  <2>4. Readable' <=> Readable /\ text # Unreadable
    <3>1. Readable' => Readable /\ text # Unreadable
      BY <2>2, <1>0 DEF Readable
    <3>2. Readable /\ text # Unreadable => Readable'
      <4>1. \A i \in 1..(Len(lines) + 1) : i \in 1..Len(lines) \/ i = Len(lines) + 1
        BY <1>0
      <4> QED
        BY <4>1, <2>2, <1>0 DEF Readable
    <3> QED
      BY <3>1, <3>2
  <2> QED
    BY <1>0, <1>2, <2>1, <2>2, <2>3, <2>4
<1> QED
  BY <1>1, <1>2

-----------------------------------------------------------------------------
(* Types, whatever goes wrong with the writes. *)
LEMMA InitTypes == Init => TypeInvariant
<1> SUFFICES ASSUME Init PROVE TypeInvariant
  OBVIOUS
<1>1. << >> \in Seq(Entry) /\ << >> \in Seq(Entry \cup {Unreadable})
  BY EmptySeq
<1>2. faults \subseteq Faults
  BY DEF Init
<1> QED
  BY <1>1, <1>2 DEF Init, TypeInvariant, TypeOK, TornHasALine

(* One write of the line of a new entry, whole or cut short. *)
LEMMA WriteKeepsTypes ==
    ASSUME TypeInvariant, NEW r \in Receipts,
           LineWritten(NewLine(r)) \/ CutShort(NewLine(r))
    PROVE  /\ lines' \in Seq(Entry \cup {Unreadable})
           /\ torn' \in BOOLEAN
           /\ TornHasALine'
<1>0. TypeOK /\ TornHasALine
  BY DEF TypeInvariant
<1>1. NewLine(r) \in Entry
  BY <1>0, NewLineIsAnEntry
<1>2. ASSUME NEW text \in Entry \cup {Unreadable}, Written(text)
      PROVE  lines' \in Seq(Entry \cup {Unreadable}) /\ TornHasALine'
  <2>1. lines' \in Seq(Entry \cup {Unreadable}) /\ lines' # << >>
    BY <1>0, <1>2, WrittenEffect
  <2> QED
    BY <2>1 DEF TornHasALine
<1>3. CASE LineWritten(NewLine(r))
  BY <1>1, <1>2, <1>3 DEF LineWritten
<1>4. CASE UNCHANGED <<lines, torn>>
  BY <1>0, <1>4 DEF TypeOK, TornHasALine
<1>5. CASE Written(Unreadable) /\ torn' = TRUE
  BY <1>2, <1>5
<1>6. CASE Written(NewLine(r)) /\ torn' = TRUE
  BY <1>1, <1>2, <1>6
<1> QED
  BY <1>3, <1>4, <1>5, <1>6 DEF CutShort

(* Lines that can all be read are entries. *)
LEMMA ReadableLinesAreEntries ==
    ASSUME TypeOK, Readable
    PROVE  lines \in Seq(Entry)
<1>1. /\ Len(lines) \in Nat /\ DOMAIN lines = 1..Len(lines)
      /\ lines \in [1..Len(lines) -> Entry \cup {Unreadable}]
  BY LenProperties DEF TypeOK
<1>2. \A i \in 1..Len(lines) : lines[i] \in Entry
  BY <1>1 DEF Readable
<1>3. lines \in [1..Len(lines) -> Entry]
  BY <1>1, <1>2
<1> QED
  BY <1>1, <1>3, IsASeq

(* Types are kept; the faults of a history are chosen once.                *)
LEMMA TypesStep ==
    ASSUME TypeInvariant, [Next]_vars
    PROVE  TypeInvariant' /\ faults' = faults
<1>0. TypeOK /\ TornHasALine
  BY DEF TypeInvariant
<1>1. << >> \in Seq(Entry)
  BY EmptySeq
<1>2. ASSUME NEW r \in Receipts,
             memory' = Append(memory, NewLine(r)),
             LineWritten(NewLine(r)) \/ CutShort(NewLine(r)),
             returned' = returned \/ returned' = Append(returned, NewLine(r)),
             UNCHANGED <<faults, up, crashes>>
      PROVE  TypeInvariant'
  <2>1. NewLine(r) \in Entry
    BY <1>0, NewLineIsAnEntry
  <2>2. /\ lines' \in Seq(Entry \cup {Unreadable})
        /\ torn' \in BOOLEAN
        /\ TornHasALine'
    BY <1>2, WriteKeepsTypes
  <2>3. /\ Append(memory, NewLine(r)) \in Seq(Entry)
        /\ Append(returned, NewLine(r)) \in Seq(Entry)
    BY <1>0, <2>1, AppendProperties DEF TypeOK
  <2> QED
    BY <1>0, <1>2, <2>2, <2>3 DEF TypeInvariant, TypeOK
<1>3. ASSUME NEW r \in Receipts, AppendEntry(r)
      PROVE  TypeInvariant' /\ faults' = faults
  BY <1>2, <1>3 DEF AppendEntry
<1>4. ASSUME NEW r \in Receipts, AppendRaises(r)
      PROVE  TypeInvariant' /\ faults' = faults
  BY <1>2, <1>4 DEF AppendRaises
<1>5. ASSUME up' = FALSE, memory' = << >>, crashes' = crashes + 1,
             UNCHANGED <<faults, returned>>,
             lines' \in Seq(Entry \cup {Unreadable}), torn' \in BOOLEAN, TornHasALine'
      PROVE  TypeInvariant'
  <2>1. memory' \in Seq(Entry) /\ crashes' \in Nat
    BY <1>0, <1>1, <1>5 DEF TypeOK
  <2> QED
    BY <1>0, <1>5, <2>1 DEF TypeInvariant, TypeOK
<1>6. ASSUME NEW r \in Receipts, CrashInAppend(r)
      PROVE  TypeInvariant' /\ faults' = faults
  <2>1. /\ lines' \in Seq(Entry \cup {Unreadable})
        /\ torn' \in BOOLEAN
        /\ TornHasALine'
    BY <1>6, WriteKeepsTypes DEF CrashInAppend
  <2> QED
    BY <1>5, <1>6, <2>1 DEF CrashInAppend
<1>7. ASSUME UNCHANGED <<lines, torn>>
      PROVE  /\ lines' \in Seq(Entry \cup {Unreadable})
             /\ torn' \in BOOLEAN
             /\ TornHasALine'
  BY <1>0, <1>7 DEF TypeOK, TornHasALine
<1>8. CASE Stop
  BY <1>5, <1>7, <1>8 DEF Stop
<1>9. CASE Load
  <2>1. memory' \in Seq(Entry)
    BY <1>0, <1>9, ReadableLinesAreEntries DEF Load, Readable
  <2>2. lines' \in Seq(Entry \cup {Unreadable}) /\ torn' \in BOOLEAN /\ TornHasALine'
    BY <1>7, <1>9 DEF Load
  <2> QED
    BY <1>0, <1>9, <2>1, <2>2 DEF Load, TypeInvariant, TypeOK
<1>10. CASE UNCHANGED vars
  BY <1>0, <1>10 DEF vars, TypeInvariant, TypeOK, TornHasALine
<1> QED
  BY <1>3, <1>4, <1>6, <1>8, <1>9, <1>10 DEF Next

-----------------------------------------------------------------------------
(* Memory and file, as long as no process lives on after a failed write.   *)
LEMMA FileInvariantInit == Init => FileInvariant
<1> SUFFICES ASSUME Init PROVE FileInvariant
  OBVIOUS
<1>1. TypeInvariant
  BY InitTypes
<1>2. VerifyChain(<< >>)
  BY DEF VerifyChain
<1> QED
  BY <1>1, <1>2 DEF Init, FileInvariant, LoadedFromFile, ChainOnFile

(* What such a write leaves in the file, if that can still be read. *)
LEMMA WriteKeepsChain ==
    ASSUME FileInvariant, up, NEW r \in Receipts,
           LineWritten(NewLine(r)) \/ CutShort(NewLine(r))
    PROVE  /\ Readable' => Readable
           /\ ChainOnFile'
           /\ LineWritten(NewLine(r)) /\ Readable'
                => lines' = Append(lines, NewLine(r))
<1>0. TypeOK /\ TornHasALine /\ Unreadable \notin Entry
  BY UnreadableAssumption DEF FileInvariant, TypeInvariant
<1>1. NewLine(r) \in Entry
  BY <1>0, NewLineIsAnEntry
<1>2. Readable => VerifyChain(Append(lines, NewLine(r)))
  <2>1. SUFFICES ASSUME Readable PROVE VerifyChain(Append(memory, NewLine(r)))
    BY <2>1 DEF FileInvariant, LoadedFromFile
  <2> QED
    BY <1>0, <1>1, AppendKeepsChain DEF FileInvariant, TypeOK, NewLine
<1>3. CASE Written(NewLine(r))
  <2>1. /\ torn => ~ Readable'
        /\ ~ torn => lines' = Append(lines, NewLine(r)) /\ (Readable' <=> Readable)
    BY <1>0, <1>1, <1>3, WrittenEffect
  <2>2. ChainOnFile'
    <3>1. SUFFICES ASSUME Readable' PROVE VerifyChain(lines)'
      BY DEF ChainOnFile
    <3> QED
      BY <3>1, <2>1, <1>2 DEF VerifyChain, Previous
  <2> QED
    BY <2>1, <2>2
<1>4. CASE Written(Unreadable) /\ torn' = TRUE
  <2>1. ~ Readable'
    BY <1>0, <1>4, WrittenEffect
  <2> QED
    BY <2>1 DEF ChainOnFile
<1>5. CASE UNCHANGED <<lines, torn>>
  <2>1. Readable' <=> Readable
    BY <1>5 DEF Readable
  <2>2. ~ LineWritten(NewLine(r)) \/ ~ Readable'
    <3>1. SUFFICES ASSUME Written(NewLine(r)), Readable' PROVE FALSE
      BY DEF LineWritten
    <3>2. lines' = Append(lines, NewLine(r))
      BY <3>1, <1>0, <1>1, WrittenEffect
    <3>3. Len(lines') = Len(lines) + 1 /\ Len(lines) \in Nat
      BY <3>2, <1>0, <1>1, AppendedLog DEF TypeOK
    <3> QED
      BY <3>3, <1>5
  <2>3. VerifyChain(lines)' <=> VerifyChain(lines)
    BY <1>5 DEF VerifyChain, Previous
  <2> QED
    BY <2>1, <2>2, <2>3 DEF FileInvariant, ChainOnFile
<1> QED
  BY <1>3, <1>4, <1>5 DEF LineWritten, CutShort

(* As long as no process survives an error, the file holds one chain.      *)
LEMMA FileInvariantStep ==
    ASSUME FileInvariant, [Next]_vars, ~ ErrorsSurvived
    PROVE  FileInvariant'
<1>0. TypeOK /\ VerifyChain(memory)
  BY DEF FileInvariant, TypeInvariant
<1>1. SUFFICES VerifyChain(memory)' /\ LoadedFromFile' /\ ChainOnFile'
  BY TypesStep DEF FileInvariant
<1>2. ASSUME NEW r \in Receipts, AppendEntry(r)
      PROVE  VerifyChain(memory)' /\ LoadedFromFile' /\ ChainOnFile'
  <2>1. memory' = Append(memory, NewLine(r)) /\ LineWritten(NewLine(r)) /\ up
    BY <1>2 DEF AppendEntry
  <2>2. NewLine(r) \in Entry
    BY <1>0, NewLineIsAnEntry
  <2>3. /\ Readable' => Readable
        /\ ChainOnFile'
        /\ Readable' => lines' = Append(lines, NewLine(r))
    BY <2>1, WriteKeepsChain
  <2>4. VerifyChain(memory)'
    <3>1. VerifyChain(Append(memory, NewLine(r)))
      BY <1>0, <2>2, AppendKeepsChain DEF TypeOK, NewLine
    <3> QED
      BY <3>1, <2>1 DEF VerifyChain, Previous
  <2>5. LoadedFromFile'
    BY <2>1, <2>3 DEF LoadedFromFile, FileInvariant
  <2> QED
    BY <2>3, <2>4, <2>5
<1>3. ASSUME NEW r \in Receipts, AppendRaises(r)
      PROVE  FALSE
  BY <1>3 DEF AppendRaises
<1>4. ASSUME up' = FALSE, memory' = << >>, ChainOnFile'
      PROVE  VerifyChain(memory)' /\ LoadedFromFile' /\ ChainOnFile'
  BY <1>4 DEF LoadedFromFile, VerifyChain
<1>5. ASSUME NEW r \in Receipts, CrashInAppend(r)
      PROVE  VerifyChain(memory)' /\ LoadedFromFile' /\ ChainOnFile'
  <2>1. ChainOnFile'
    BY <1>5, WriteKeepsChain DEF CrashInAppend
  <2> QED
    BY <1>4, <1>5, <2>1 DEF CrashInAppend
<1>6. ASSUME UNCHANGED <<lines, torn>>
      PROVE  ChainOnFile'
  BY <1>6 DEF FileInvariant, ChainOnFile, Readable, VerifyChain, Previous
<1>7. CASE Stop
  BY <1>4, <1>6, <1>7 DEF Stop
<1>8. CASE Load
  <2>1. Readable /\ memory' = lines /\ UNCHANGED <<lines, torn>>
    BY <1>8 DEF Load, Readable
  <2>2. VerifyChain(memory)'
    BY <2>1 DEF FileInvariant, ChainOnFile, VerifyChain, Previous
  <2> QED
    BY <1>6, <2>1, <2>2 DEF LoadedFromFile
<1>9. CASE UNCHANGED vars
  BY <1>9 DEF vars, FileInvariant, LoadedFromFile, ChainOnFile,
              Readable, VerifyChain, Previous
<1> QED
  BY <1>2, <1>3, <1>5, <1>7, <1>8, <1>9 DEF Next

-----------------------------------------------------------------------------
(* The digest tells receipts apart, and that carries to the chain: one     *)
(* entry replaced in a chain that verifies leaves one that does not.       *)
LEMMA DigestInjective ==
    ASSUME NEW prev \in Hash, NEW n \in Nat, NEW q \in Receipts, NEW r \in Receipts,
           Digest(prev, n, q) = Digest(prev, n, r)
    PROVE  q = r
<1>1. <<n, q>> \in Nat \X Receipts /\ <<n, r>> \in Nat \X Receipts
  OBVIOUS
<1>2. Append(prev, <<n, q>>)[Len(prev) + 1] = <<n, q>>
      /\ Append(prev, <<n, r>>)[Len(prev) + 1] = <<n, r>>
  BY <1>1, AppendProperties DEF Hash
<1>3. <<n, q>> = <<n, r>>
  BY <1>2 DEF Digest
<1> QED
  BY <1>3

(* An entry replaced by another, hashed again or not, breaks a chain that  *)
(* held.                                                                   *)
LEMMA ChainDetectsReplacement ==
    ASSUME TypeOK, VerifyChain(memory)
    PROVE  TamperEvident
<1>0. Len(memory) \in Nat /\ DOMAIN memory = 1..Len(memory)
  BY LenProperties DEF TypeOK
<1>1. SUFFICES ASSUME NEW i \in DOMAIN memory, NEW r \in Receipts, NEW h \in Hashes(i),
                      VerifyChain([memory EXCEPT ![i] = Replacement(i, r, h)]),
                      i # Len(memory) \/ h # Digest(memory[i].prev_hash, memory[i].seq, r)
               PROVE  Replacement(i, r, h) = memory[i]
  BY DEF TamperEvident
<1> DEFINE e == Replacement(i, r, h)
<1>2. e = [memory[i] EXCEPT !.receipt = r, !.entry_hash = h]
  BY DEF Replacement
<1>3. memory[i] \in Entry
  BY <1>0, ElementOfSeq DEF TypeOK
<1>4. /\ e.seq = memory[i].seq /\ e.prev_hash = memory[i].prev_hash
      /\ e.receipt = r /\ e.entry_hash = h
  BY <1>2, <1>3 DEF Entry
<1> DEFINE after == [memory EXCEPT ![i] = e]
<1>5. /\ DOMAIN after = DOMAIN memory
      /\ after[i] = e
      /\ \A j \in DOMAIN memory : j # i => after[j] = memory[j]
  BY <1>0
<1>6. VerifyChain(after)
  BY <1>1
<1> HIDE DEF after, e
<1>7. h = Digest(memory[i].prev_hash, memory[i].seq, r)
  BY <1>4, <1>5, <1>6 DEF VerifyChain
<1>8. i + 1 \in DOMAIN memory /\ i + 1 # 1 /\ i + 1 # i /\ (i + 1) - 1 = i
  BY <1>0, <1>1, <1>4, <1>7
<1>9. memory[i + 1].prev_hash = h
  BY <1>4, <1>5, <1>6, <1>8 DEF VerifyChain, Previous
<1>10. memory[i + 1].prev_hash = memory[i].entry_hash
  BY <1>8 DEF VerifyChain, Previous
<1>11. memory[i].entry_hash = Digest(memory[i].prev_hash, memory[i].seq, memory[i].receipt)
  BY DEF VerifyChain
<1>12. memory[i].receipt = r
  BY <1>3, <1>7, <1>9, <1>10, <1>11, DigestInjective DEF Entry
<1>13. h = memory[i].entry_hash
  BY <1>9, <1>10
<1>14. e = memory[i]
  BY <1>2, <1>3, <1>12, <1>13 DEF Entry
<1> QED
  BY <1>14 DEF e

-----------------------------------------------------------------------------
(* What append() returned, as long as, on top of that, no write is cut     *)
(* right before its newline.                                               *)
LEMMA ReturnedStep ==
    ASSUME TypeInvariant, TypeInvariant', Returned, TornIsUnreadable, [Next]_vars,
           ~ CutsAtNewline, ~ ErrorsSurvived
    PROVE  Returned' /\ TornIsUnreadable'
<1>0. TypeOK /\ TypeOK' /\ TornHasALine
  BY DEF TypeInvariant
<1> DEFINE Line == Entry \cup {Unreadable}
<1>1. /\ lines \in Seq(Line) /\ Len(lines) \in Nat /\ DOMAIN lines = 1..Len(lines)
       /\ returned \in Seq(Entry) /\ Len(returned) \in Nat
       /\ DOMAIN returned = 1..Len(returned)
  BY <1>0, LenProperties DEF TypeOK
<1> HIDE DEF Line
<1>2. ASSUME up, NEW r \in Receipts, LineWritten(NewLine(r)) \/ CutShort(NewLine(r))
      PROVE  /\ \A i \in DOMAIN lines : i \in DOMAIN lines' /\ lines'[i] = lines[i]
             /\ torn' => lines' # << >> /\ lines'[Len(lines')] = Unreadable
             /\ LineWritten(NewLine(r)) => \E i \in DOMAIN lines' : lines'[i] = NewLine(r)
  <2>1. ~ torn
    BY <1>2 DEF TornIsUnreadable
  <2>2. NewLine(r) \in Entry /\ NewLine(r) \in Line
    BY <1>0, NewLineIsAnEntry DEF Line
  <2>3. CASE LineWritten(NewLine(r))
    <3>1. /\ \A i \in DOMAIN lines : i \in DOMAIN lines' /\ lines'[i] = lines[i]
          /\ lines' = Append(lines, NewLine(r))
      BY <1>0, <2>1, <2>2, <2>3, WrittenEffect DEF LineWritten
    <3>2. \E i \in DOMAIN lines' : lines'[i] = NewLine(r)
      BY <1>1, <2>2, <3>1, AppendedMembers
    <3> QED
      BY <2>3, <3>1, <3>2 DEF LineWritten
  <2>4. CASE Written(Unreadable) /\ torn' = TRUE
    <3>1. /\ \A i \in DOMAIN lines : i \in DOMAIN lines' /\ lines'[i] = lines[i]
          /\ lines' # << >> /\ lines'[Len(lines')] = Unreadable
      BY <1>0, <2>1, <2>4, WrittenEffect
    <3> QED
      BY <2>4, <3>1 DEF LineWritten
  <2>5. CASE UNCHANGED <<lines, torn>> /\ ~ LineWritten(NewLine(r))
    BY <2>1, <2>5
  <2> QED
    BY <1>2, <2>3, <2>4, <2>5 DEF CutShort
<1>3. ASSUME NEW r \in Receipts, AppendEntry(r)
      PROVE  Returned' /\ TornIsUnreadable'
  <2>1. /\ \A i \in DOMAIN lines : i \in DOMAIN lines' /\ lines'[i] = lines[i]
        /\ \E i \in DOMAIN lines' : lines'[i] = NewLine(r)
        /\ ~ torn'
    BY <1>2, <1>3 DEF AppendEntry, LineWritten
  <2>2. NewLine(r) \in Entry /\ returned' = Append(returned, NewLine(r))
    BY <1>0, <1>3, NewLineIsAnEntry DEF AppendEntry
  <2>3. \A k \in DOMAIN returned' : \/ k \in DOMAIN returned /\ returned'[k] = returned[k]
                                   \/ returned'[k] = NewLine(r)
    BY <1>1, <2>2, AppendedMembers
  <2>4. ASSUME NEW k \in DOMAIN returned'
        PROVE  \E i \in DOMAIN lines' : lines'[i] = returned'[k]
    <3>1. CASE returned'[k] = NewLine(r)
      BY <2>1, <3>1
    <3>2. CASE k \in DOMAIN returned /\ returned'[k] = returned[k]
      <4>1. PICK i \in DOMAIN lines : lines[i] = returned[k]
        BY <3>2 DEF Returned
      <4>2. i \in DOMAIN lines' /\ lines'[i] = lines[i]
        BY <2>1
      <4> QED
        BY <3>2, <4>1, <4>2
    <3> QED
      BY <2>3, <3>1, <3>2
  <2> QED
    BY <2>1, <2>4 DEF Returned, TornIsUnreadable
<1>4. ASSUME \A i \in DOMAIN lines : i \in DOMAIN lines' /\ lines'[i] = lines[i],
             returned' = returned
      PROVE  Returned'
  <2>1. ASSUME NEW k \in DOMAIN returned
        PROVE  \E i \in DOMAIN lines' : lines'[i] = returned[k]
    <3>1. PICK i \in DOMAIN lines : lines[i] = returned[k]
      BY DEF Returned
    <3> QED
      BY <1>4, <3>1
  <2> QED
    BY <1>4, <2>1 DEF Returned
<1>5. ASSUME NEW r \in Receipts, CrashInAppend(r)
      PROVE  Returned' /\ TornIsUnreadable'
  <2>1. /\ \A i \in DOMAIN lines : i \in DOMAIN lines' /\ lines'[i] = lines[i]
        /\ torn' => lines' # << >> /\ lines'[Len(lines')] = Unreadable
        /\ returned' = returned /\ ~ up'
    BY <1>2, <1>5 DEF CrashInAppend
  <2> QED
    BY <1>4, <2>1 DEF TornIsUnreadable
<1>6. CASE Stop
  <2>1. UNCHANGED <<lines, torn, returned>> /\ ~ up'
    BY <1>6 DEF Stop
  <2> QED
    BY <1>4, <2>1 DEF TornIsUnreadable
<1>7. CASE Load
  <2>1. UNCHANGED <<lines, torn, returned>>
    BY <1>7 DEF Load
  <2>2. ~ torn
    <3>1. SUFFICES ASSUME torn PROVE FALSE
      OBVIOUS
    <3>2. lines # << >> /\ lines[Len(lines)] = Unreadable
      BY <3>1 DEF TornIsUnreadable
    <3>3. Len(lines) \in DOMAIN lines
      BY <1>1, <3>2, EmptySeq
    <3> QED
      BY <1>7, <3>2, <3>3 DEF Load
  <2> QED
    BY <1>4, <2>1, <2>2 DEF TornIsUnreadable
<1>8. CASE UNCHANGED vars
  BY <1>4, <1>8 DEF vars, TornIsUnreadable
<1>9. ASSUME NEW r \in Receipts, AppendRaises(r)
      PROVE  FALSE
  BY <1>9 DEF AppendRaises
<1> QED
  BY <1>3, <1>5, <1>6, <1>7, <1>8, <1>9 DEF Next

-----------------------------------------------------------------------------
(* The three parts together. *)
LEMMA LedgerInvariantAlways == Spec => []LedgerInvariant
<1>1. Init => LedgerInvariant
  <2> SUFFICES ASSUME Init PROVE LedgerInvariant
    OBVIOUS
  <2>1. TypeInvariant /\ FileInvariant
    BY InitTypes, FileInvariantInit
  <2>2. Returned /\ TornIsUnreadable
    <3>1. DOMAIN << >> = {}
      OBVIOUS
    <3> QED
      BY <3>1 DEF Init, Returned, TornIsUnreadable
  <2> QED
    BY <2>1, <2>2 DEF LedgerInvariant
<1>2. LedgerInvariant /\ [Next]_vars => LedgerInvariant'
  <2> SUFFICES ASSUME LedgerInvariant, [Next]_vars PROVE LedgerInvariant'
    OBVIOUS
  <2>1. TypeInvariant /\ TypeInvariant' /\ faults' = faults
    BY TypesStep DEF LedgerInvariant
  <2>2. /\ ErrorsSurvived' <=> ErrorsSurvived
        /\ CutsAtNewline' <=> CutsAtNewline
    BY <2>1 DEF ErrorsSurvived, CutsAtNewline
  <2>3. ~ ErrorsSurvived => FileInvariant'
    BY FileInvariantStep DEF LedgerInvariant
  <2>4. ~ CutsAtNewline /\ ~ ErrorsSurvived => Returned' /\ TornIsUnreadable'
    BY <2>1, ReturnedStep DEF LedgerInvariant
  <2> QED
    BY <2>1, <2>2, <2>3, <2>4 DEF LedgerInvariant
<1> QED
  BY <1>1, <1>2, PTL DEF Spec

(* Types stay right, whatever fails and whatever is loaded. *)
THEOREM TypeCorrect == Spec => []TypeOK
<1>1. LedgerInvariant => TypeOK
  BY DEF LedgerInvariant, TypeInvariant
<1> QED
  BY <1>1, LedgerInvariantAlways, PTL

(* A ledger that loads verifies, however many crashes its file has been    *)
(* through and wherever they cut its lines, if no process lived on after a *)
(* failed write.                                                           *)
THEOREM CrashesKeepChainAlways == Spec => []CrashesKeepChain
<1>1. LedgerInvariant => CrashesKeepChain
  BY DEF LedgerInvariant, FileInvariant, CrashesKeepChain, ChainIntact
<1> QED
  BY <1>1, LedgerInvariantAlways, PTL

(* verify_chain() notices any one past entry of a chain it verified that   *)
(* was replaced, in logs of any length.                                    *)
THEOREM TamperEvidentAlways == Spec => []TamperEvident
<1>1. TypeOK => TamperEvident
  <2>1. TypeOK /\ VerifyChain(memory) => TamperEvident
    BY ChainDetectsReplacement
  <2>2. ~ VerifyChain(memory) => TamperEvident
    BY DEF TamperEvident
  <2> QED
    BY <2>1, <2>2
<1> QED
  BY <1>1, TypeCorrect, PTL

(* No crash loses an entry append() has returned, if no write is cut right *)
(* before its newline or fails without the process dying of it.            *)
THEOREM ReturnedIsDurableAlways == Spec => []ReturnedIsDurable
<1>1. LedgerInvariant => ReturnedIsDurable
  BY DEF LedgerInvariant, Returned, ReturnedIsDurable
<1> QED
  BY <1>1, LedgerInvariantAlways, PTL

-----------------------------------------------------------------------------
(* One chain: the hash of every entry that was returned is within the hash *)
(* of the last entry, in the memory of a process and in a file that loads, *)
(* also when a failed write was survived and the file lacks an entry.      *)
Within(h, k) == \E n \in 1..Len(k) : SubSeq(k, 1, n) = h

Anchored(log) == \A j \in DOMAIN returned : Within(returned[j].entry_hash, HeadHash(log))

OneChain == /\ ReturnedIsOneChain
            /\ up => Anchored(memory)
            /\ Readable => Anchored(lines)

(* A digest contains itself and everything the one before it contains. *)
LEMMA WithinDigest ==
    ASSUME NEW k \in Hash, NEW m \in Nat, NEW r \in Receipts
    PROVE  /\ Within(Digest(k, m, r), Digest(k, m, r))
           /\ \A h : Within(h, k) => Within(h, Digest(k, m, r))
<1> DEFINE S == Nat \X Receipts
           d == Digest(k, m, r)
<1>1. PICK x \in S : x = <<m, r>>
  OBVIOUS
<1>2. d = Append(k, x)
  BY <1>1 DEF Digest
<1> HIDE DEF S, d
<1>3. k \in Seq(S) /\ Len(k) \in Nat
  BY LenProperties DEF Hash, S
<1>4. d \in Seq(S) /\ Len(d) = Len(k) + 1
  BY <1>2, <1>3, AppendProperties
<1>5. Within(d, d)
  BY <1>3, <1>4, SubSeqFull DEF Within
<1>6. ASSUME NEW h, Within(h, k)
      PROVE  Within(h, d)
  <2>1. PICK n \in 1..Len(k) : SubSeq(k, 1, n) = h
    BY <1>6 DEF Within
  <2>2. d = k \o <<x>> /\ <<x>> \in Seq(S)
    BY <1>2, <1>3, AppendIsConcat
  <2>3. SubSeq(d, 1, n) = h
    BY <1>3, <2>1, <2>2, SubSeqOfConcat1
  <2>4. n \in 1..Len(d)
    BY <1>3, <1>4
  <2> QED
    BY <2>3, <2>4 DEF Within
<1> QED
  BY <1>5, <1>6 DEF d

(* What the file can be after a write: as before, one that does not load,  *)
(* or one that ends in the new entry.                                      *)
LEMMA WriteOutcome ==
    ASSUME TypeInvariant, NEW r \in Receipts,
           LineWritten(NewLine(r)) \/ CutShort(NewLine(r))
    PROVE  /\ \/ lines' = lines
              \/ ~ Readable'
              \/ HeadHash(lines)' = NewLine(r).entry_hash
           /\ LineWritten(NewLine(r)) /\ Readable'
                => HeadHash(lines)' = NewLine(r).entry_hash
<1>1. NewLine(r) \in Entry /\ TypeOK /\ TornHasALine
  BY NewLineIsAnEntry DEF TypeInvariant
<1>2. ASSUME Written(NewLine(r))
      PROVE  ~ Readable' \/ HeadHash(lines)' = NewLine(r).entry_hash
  <2>1. /\ torn => ~ Readable'
        /\ ~ torn => lines' # << >> /\ lines'[Len(lines')] = NewLine(r)
    BY <1>1, <1>2, WrittenEffect
  <2> QED
    BY <2>1 DEF HeadHash
<1>3. ASSUME Written(Unreadable)
      PROVE  ~ Readable'
  BY <1>1, <1>3, WrittenEffect
<1> QED
  BY <1>2, <1>3 DEF LineWritten, CutShort

(* An append anchors what was returned in its new entry. *)
LEMMA NewLineAnchors ==
    ASSUME TypeOK, Anchored(memory), NEW r \in Receipts
    PROVE  /\ NewLine(r).prev_hash = HeadHash(memory)
           /\ Within(NewLine(r).entry_hash, NewLine(r).entry_hash)
           /\ \A j \in DOMAIN returned :
                 Within(returned[j].entry_hash, NewLine(r).entry_hash)
<1>1. NewLine(r) \in Entry /\ Len(memory) \in Nat
  BY NewLineIsAnEntry, LenProperties DEF TypeOK
<1>2. /\ NewLine(r).prev_hash = HeadHash(memory)
      /\ NewLine(r).entry_hash = Digest(HeadHash(memory), Len(memory), r)
  BY DEF NewLine, NewEntry
<1>3. HeadHash(memory) \in Hash
  BY <1>1, <1>2 DEF Entry
<1> QED
  BY <1>1, <1>2, <1>3, WithinDigest DEF Anchored

(* Every step of the process keeps the chain one. *)
LEMMA OneChainStep ==
    ASSUME TypeInvariant, OneChain, [Next]_vars
    PROVE  OneChain'
<1>0. TypeOK
  BY DEF TypeInvariant
<1>1. CASE UNCHANGED vars \/ Stop \/ Load
  BY <1>1 DEF vars, Stop, Load, OneChain, ReturnedIsOneChain, Anchored, Readable, HeadHash
<1>2. ASSUME NEW r \in Receipts, up,
             AppendEntry(r) \/ AppendRaises(r) \/ CrashInAppend(r)
      PROVE  OneChain'
  <2> DEFINE e == NewLine(r)
  <2>1. /\ e.prev_hash = HeadHash(memory)
        /\ Within(e.entry_hash, e.entry_hash)
        /\ \A j \in DOMAIN returned : Within(returned[j].entry_hash, e.entry_hash)
    BY <1>0, <1>2, NewLineAnchors DEF OneChain
  <2>2. e \in Entry
    BY <1>0, NewLineIsAnEntry
  <2>3. memory' = Append(memory, e) => HeadHash(memory)' = e.entry_hash
    <3>1. ASSUME memory' = Append(memory, e)
          PROVE  HeadHash(memory)' = e.entry_hash
      <4>1. /\ memory' # << >> /\ Len(memory) \in Nat
            /\ Len(memory') = Len(memory) + 1 /\ memory'[Len(memory) + 1] = e
        BY <1>0, <2>2, <3>1, AppendProperties, LenProperties DEF TypeOK
      <4> QED
        BY <4>1 DEF HeadHash
    <3> QED
      BY <3>1
  <2>4. LineWritten(e) \/ CutShort(e)
    BY <1>2 DEF AppendEntry, AppendRaises, CrashInAppend
  <2>5. /\ lines' = lines \/ ~ Readable' \/ HeadHash(lines)' = e.entry_hash
        /\ LineWritten(e) /\ Readable' => HeadHash(lines)' = e.entry_hash
    BY <2>4, WriteOutcome
  <2>6. CASE AppendEntry(r)
    <3>1. /\ up' = up /\ memory' = Append(memory, e) /\ LineWritten(e)
          /\ returned' = Append(returned, e)
      BY <2>6 DEF AppendEntry
    <3>2. /\ DOMAIN returned = 1..Len(returned) /\ Len(returned) \in Nat
          /\ DOMAIN returned' = 1..(Len(returned) + 1)
          /\ \A j \in 1..Len(returned) : returned'[j] = returned[j]
          /\ returned'[Len(returned) + 1] = e
      BY <1>0, <2>2, <3>1, AppendedLog DEF TypeOK
    <3> HIDE DEF e
    <3>3. \A j \in 1..(Len(returned) + 1) : j \in 1..Len(returned) \/ j = Len(returned) + 1
      BY <3>2
    <3>4. \A j \in DOMAIN returned' : Within(returned'[j].entry_hash, e.entry_hash)
      BY <2>1, <3>2, <3>3
    <3>5. Anchored(memory)' /\ (Readable' => Anchored(lines)')
      BY <2>3, <2>5, <3>1, <3>4 DEF Anchored
    <3>6. ReturnedIsOneChain'
      <4> SUFFICES ASSUME NEW j \in DOMAIN returned', NEW k \in DOMAIN returned', j < k
                   PROVE  Within(returned'[j].entry_hash, returned'[k].prev_hash)
        BY DEF ReturnedIsOneChain, Within
      <4>1. j \in 1..Len(returned)
        BY <3>2
      <4>2. CASE k \in 1..Len(returned)
        BY <3>2, <4>1, <4>2 DEF OneChain, ReturnedIsOneChain, Within
      <4>3. CASE k = Len(returned) + 1
        BY <1>2, <2>1, <3>2, <4>1, <4>3 DEF OneChain, Anchored
      <4> QED
        BY <3>2, <3>3, <4>2, <4>3
    <3> QED
      BY <3>5, <3>6 DEF OneChain
  <2>7. CASE AppendRaises(r) \/ CrashInAppend(r)
    <3>1. returned' = returned /\ (up' => memory' = Append(memory, e))
      BY <2>7 DEF AppendRaises, CrashInAppend
    <3> HIDE DEF e
    <3>2. ReturnedIsOneChain'
      BY <3>1 DEF OneChain, ReturnedIsOneChain
    <3>3. up' => Anchored(memory)'
      BY <2>1, <2>3, <3>1 DEF Anchored
    <3>4. Readable' => Anchored(lines)'
      <4>1. CASE lines' = lines
        BY <3>1, <4>1 DEF OneChain, Readable, Anchored, HeadHash
      <4>2. CASE HeadHash(lines)' = e.entry_hash
        BY <2>1, <3>1, <4>2 DEF Anchored
      <4> QED
        BY <2>5, <4>1, <4>2
    <3> QED
      BY <3>2, <3>3, <3>4 DEF OneChain
  <2> QED
    BY <1>2, <2>6, <2>7
<1> QED
  BY <1>1, <1>2 DEF Next, AppendEntry, AppendRaises, CrashInAppend

(* What append() returned is one chain, whatever failed in between and     *)
(* however often the process died.                                         *)
THEOREM ReturnedIsOneChainAlways == Spec => []ReturnedIsOneChain
<1>1. Init => OneChain
  <2>1. DOMAIN << >> = {}
    OBVIOUS
  <2> QED
    BY <2>1 DEF Init, OneChain, ReturnedIsOneChain, Anchored
<1>2. LedgerInvariant /\ OneChain /\ [Next]_vars => OneChain'
  BY OneChainStep DEF LedgerInvariant
<1>3. OneChain => ReturnedIsOneChain
  BY DEF OneChain
<1> QED
  BY <1>1, <1>2, <1>3, LedgerInvariantAlways, PTL DEF Spec
=============================================================================
