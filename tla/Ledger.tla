------------------------------- MODULE Ledger --------------------------------
(***************************************************************************)
(* Ledger (src/detects/ledger.py) with its file: one process that loads    *)
(* the ledger, appends to it, and may die at any point of an append.       *)
(*                                                                         *)
(* append() extends the list in memory first and writes the line to the    *)
(* file afterwards.  The write may fail and the process live on, or the    *)
(* process may die, and both may leave a line without its newline at the   *)
(* end of the file; what is written next runs into it, and the line they   *)
(* make is not JSON.  Loading parses every line and does not verify the    *)
(* chain.                                                                  *)
(***************************************************************************)
EXTENDS LedgerLog

CONSTANTS
    Receipts,       \* receipts that may be appended, told apart by content
    Unreadable,     \* a line json.loads() refuses
    Faults,         \* what may go wrong with a write, see below
    MaxEntries,     \* bound: entries and lines in any log
    MaxCrashes      \* bound: how often the process dies

VARIABLES
    faults,     \* what does go wrong in this history of the file
    up,         \* a Ledger object exists
    memory,     \* its _entries
    lines,      \* the lines of the file
    torn,       \* the last line has no newline yet
    returned,   \* every entry append() returned to its caller, in order
    crashes

vars == <<faults, up, memory, lines, torn, returned, crashes>>

Hash == Seq(Nat \X Receipts)
Entry == [seq : Nat, prev_hash : Hash, receipt : Receipts, entry_hash : Hash]

ASSUME UnreadableAssumption == Unreadable \notin Entry
(* A write may get out nothing; besides that, a fragment or everything but *)
(* the newline; and a process may survive the error of a failed write.     *)
ASSUME FaultsAssumption == Faults \subseteq {"fragment", "all but the newline", "error"}

TypeOK == /\ faults \subseteq Faults
          /\ up \in BOOLEAN
          /\ memory \in Seq(Entry)
          /\ lines \in Seq(Entry \cup {Unreadable})
          /\ torn \in BOOLEAN
          /\ returned \in Seq(Entry)
          /\ crashes \in Nat

Init == /\ faults \in SUBSET Faults
        /\ up = FALSE
        /\ memory = << >>
        /\ lines = << >>
        /\ torn = FALSE
        /\ returned = << >>
        /\ crashes = 0

-----------------------------------------------------------------------------
Room == Len(memory) < MaxEntries /\ Len(lines) < MaxEntries

(* What reaches the file goes on its last line while that has no newline,  *)
(* and two lines in one cannot be read.                                    *)
Written(text) == lines' = IF torn THEN [lines EXCEPT ![Len(lines)] = Unreadable]
                                  ELSE Append(lines, text)

(* fh.write(line + "\n") got everything out. *)
LineWritten(e) == Written(e) /\ torn' = FALSE

CutsAtNewline == "all but the newline" \in faults
ErrorsSurvived == "error" \in faults

(* It got a part out, up to all of the line but its newline, or nothing.   *)
CutShort(e) ==
    \/ UNCHANGED <<lines, torn>>
    \/ "fragment" \in faults /\ Written(Unreadable) /\ torn' = TRUE
    \/ CutsAtNewline /\ Written(e) /\ torn' = TRUE

NewLine(r) == NewEntry(memory, r, r)

(* A lost append: written before it is remembered, and then not remembered *)
(* (mutant of AppendEntry).                                                *)
AppendFileOnly(r) ==
    /\ up /\ Room
    /\ LineWritten(NewLine(r))
    /\ returned' = Append(returned, NewLine(r))
    /\ UNCHANGED <<faults, up, memory, crashes>>

(* A buffered append: returned to the caller before the line is written    *)
(* (mutant of AppendEntry).                                                *)
AppendMemoryOnly(r) ==
    /\ up /\ Room
    /\ memory' = Append(memory, NewLine(r))
    /\ returned' = Append(returned, NewLine(r))
    /\ UNCHANGED <<faults, up, lines, torn, crashes>>

(* append(receipt) returns. *)
AppendEntry(r) ==
    /\ up /\ Room
    /\ memory' = Append(memory, NewLine(r))
    /\ LineWritten(NewLine(r))
    /\ returned' = Append(returned, NewLine(r))
    /\ UNCHANGED <<faults, up, crashes>>

(* append(receipt) raises out of open() or write(): the entry stays in     *)
(* memory.                                                                 *)
AppendRaises(r) ==
    /\ ErrorsSurvived
    /\ up /\ Room
    /\ memory' = Append(memory, NewLine(r))
    /\ CutShort(NewLine(r))
    /\ UNCHANGED <<faults, up, returned, crashes>>

(* The process dies inside append(receipt), wherever the write had got to. *)
CrashInAppend(r) ==
    /\ up /\ Room
    /\ crashes < MaxCrashes
    /\ LineWritten(NewLine(r)) \/ CutShort(NewLine(r))
    /\ up' = FALSE
    /\ memory' = << >>
    /\ crashes' = crashes + 1
    /\ UNCHANGED <<faults, returned>>

(* The process ends or dies outside append. *)
Stop == /\ up
        /\ crashes < MaxCrashes
        /\ up' = FALSE
        /\ memory' = << >>
        /\ crashes' = crashes + 1
        /\ UNCHANGED <<faults, lines, torn, returned>>

(* Lines that cannot be parsed are kept (mutant of Load). *)
LoadAnyLine == /\ ~ up
               /\ up' = TRUE
               /\ memory' = lines
               /\ UNCHANGED <<faults, lines, torn, returned, crashes>>

(* Ledger(path): every line is parsed, one that cannot be raises.  The     *)
(* entries are taken as they are.                                          *)
Load == /\ ~ up
        /\ \A i \in DOMAIN lines : lines[i] # Unreadable
        /\ up' = TRUE
        /\ memory' = lines
        /\ UNCHANGED <<faults, lines, torn, returned, crashes>>

Next == \/ Load
        \/ Stop
        \/ \E r \in Receipts : \/ AppendEntry(r)
                               \/ AppendRaises(r)
                               \/ CrashInAppend(r)

Spec == Init /\ [][Next]_vars

-----------------------------------------------------------------------------
(* "Entry N records the hash of entry N-1" (ledger.py:3): a loaded ledger  *)
(* passes its own verify_chain().                                          *)
ChainIntact == up => VerifyChain(memory)

(* And so it does whatever crashes the file has been through and wherever  *)
(* they cut its lines, if no process lives on after a failed write.        *)
CrashesKeepChain == ErrorsSurvived \/ ChainIntact

(* An append-only log of accepted receipts (ledger.py:1): every entry      *)
(* append() returned stays in the file, complete and on a line of its own, *)
(* unless an earlier write was cut right before its newline or failed      *)
(* without the process dying of it.                                        *)
ReturnedIsDurable ==
    ~ CutsAtNewline /\ ~ ErrorsSurvived =>
        \A k \in DOMAIN returned : \E i \in DOMAIN lines : lines[i] = returned[k]

(* Whatever fails between two calls of append() that return, in one        *)
(* process or across restarts, the later entry's hash is built over the    *)
(* earlier one's: the file is never continued along a second branch.       *)
ReturnedIsOneChain ==
    \A j, k \in DOMAIN returned :
        j < k => \E n \in 1..Len(returned[k].prev_hash) :
                    SubSeq(returned[k].prev_hash, 1, n) = returned[j].entry_hash

(* "tampering with any past entry breaks every subsequent hash.            *)
(* verify_chain detects that" (ledger.py:3-4): whichever one entry is      *)
(* replaced by another, the chain no longer verifies.  Only a last entry   *)
(* with its own hash recomputed goes unnoticed: nothing is chained to it.  *)
Hashes(i) == {memory[i].entry_hash}
             \cup {Digest(memory[i].prev_hash, memory[i].seq, r) : r \in Receipts}
Replacement(i, r, h) == [memory[i] EXCEPT !.receipt = r, !.entry_hash = h]

TamperEvident ==
    VerifyChain(memory) => \A i \in DOMAIN memory : \A r \in Receipts : \A h \in Hashes(i) :
        \/ Replacement(i, r, h) = memory[i]
        \/ i = Len(memory) /\ h = Digest(memory[i].prev_hash, memory[i].seq, r)
        \/ ~ VerifyChain([memory EXCEPT ![i] = Replacement(i, r, h)])

-----------------------------------------------------------------------------
(* Why: an Unreadable line never goes away and stops every later Load, and *)
(* as long as no process survives a failed write, a file without one holds *)
(* the same chain as the memory of the process.                            *)
Readable == \A i \in DOMAIN lines : lines[i] # Unreadable

LoadedFromFile == up /\ Readable => memory = lines
ChainOnFile == Readable => VerifyChain(lines)
TornHasALine == torn => lines # << >>

TypeInvariant == TypeOK /\ TornHasALine

FileInvariant == /\ TypeInvariant
                 /\ VerifyChain(memory)
                 /\ LoadedFromFile
                 /\ ChainOnFile

(* And if, on top of that, no write is cut right before its newline,       *)
(* nothing that was returned is ever written behind a torn line.           *)
TornIsUnreadable == torn => /\ lines # << >>
                            /\ lines[Len(lines)] = Unreadable
                            /\ ~ up

Returned == \A k \in DOMAIN returned : \E i \in DOMAIN lines : lines[i] = returned[k]

LedgerInvariant == /\ TypeInvariant
                   /\ ~ ErrorsSurvived => FileInvariant
                   /\ ~ CutsAtNewline /\ ~ ErrorsSurvived => Returned /\ TornIsUnreadable
=============================================================================
