----------------------------- MODULE NvStorage ------------------------------
(***************************************************************************)
(* The non-volatile storage of the connectivity framework: a table of data *)
(* sets kept in one of two flash pages (NV_Flash.c without FlexNVM, the    *)
(* extended feature set, fragmentation and unmirrored data sets, which are *)
(* the defaults, over Flash_Adapter.c).  The start of a page holds a       *)
(* counter, metas grow up from it, the records they describe grow down     *)
(* from the end, and the last cell repeats the counter.  A full page is    *)
(* copied to the other one and erased later by the idle task.              *)
(*                                                                         *)
(* Calls are serialised by mNVMMutexId: todo is what is left of the one    *)
(* that runs.  Every erase of a sector and every program command is a      *)
(* step; power may fail between any two and in the middle of each, and     *)
(* leaves the flash as it is and nothing of the RAM.                       *)
(***************************************************************************)
EXTENDS Integers, Sequences, FiniteSets, FiniteSetsExt, SequencesExt

CONSTANTS
    pNVM_DataTable,     \* size of the record of each data set, in cells
    Value,
    BLANK,              \* an erased cell (all ones); a data set may hold just that
    TORN,               \* a cell whose program or erase was cut short
    NONE,
    PAGE,               \* cells of a virtual page; a meta and a counter take one each
    SECTORS,            \* sectors of a virtual page
    gNvMinimumFreeBytesCountStart_c,
    gNvPendingSavesQueueSize_c,
    Circumstances,      \* what the environment may do, see Unusual
    MAX_COUNTER,        \* bound: no new saves once the page counter got there
    MAX_LOSS,           \* bound on power failures
    MAX_CRITICAL        \* bound on critical sections

Entry == DOMAIN pNVM_DataTable
Unusual == {"format while erasing", "shutdown while pending", "critical section in a call"}
Default == CHOOSE v \in Value : v # BLANK
(* used[k] cells hold a record and a meta of each of these data sets up to the k-th. *)
Table == 0 .. Len(pNVM_DataTable)
Adds(used, entries) ==
    /\ used[0] = 0
    /\ \A k \in Entry : used[k] = used[k - 1] + (IF k \in entries THEN pNVM_DataTable[k] + 1 ELSE 0)

(* The table leaves room for one more record after a page copy, and a cell
   whose program or erase was cut short is told from every other. *)
ASSUME NvStorageAssumption ==
    /\ pNVM_DataTable \in Seq(Nat \ {0}) /\ pNVM_DataTable # << >>
    /\ SECTORS \in Nat \ {0, 1} /\ PAGE \in Nat /\ PAGE % SECTORS = 0
    /\ \E used \in [Table -> 0 .. PAGE] :
          Adds(used, Entry) /\ \A e \in Entry : used[Len(pNVM_DataTable)] + pNVM_DataTable[e] + 2 < PAGE - 2
    /\ gNvPendingSavesQueueSize_c \in Nat \ {0} /\ {MAX_COUNTER, MAX_LOSS, MAX_CRITICAL} \subseteq Nat
    /\ Circumstances \subseteq Unusual
    /\ Value \ {BLANK} # {} /\ {TORN, NONE} \intersect Value = {} /\ BLANK # TORN
    /\ {BLANK, TORN} \intersect ([kind : {"counter"}, n : Nat] \union [kind : {"meta"}, entry : Entry, offset : Nat]
                                  \union [kind : {"data"}, entry : Entry, v : Value]) = {}

VARIABLES
    flash,                      \* the cells of both pages
    mNvActivePageId,
    mNvPageCounter,
    NvLastMetaInfoAddress,      \* of each page
    mNvCopyOperationIsPending,
    mNvErasePgCmdStatus,        \* pending, page, sector
    mNvPendingSavesQueue,
    mNvModuleInitialized,
    mNvCriticalSectionFlag,
    ram,                        \* the data sets in RAM
    boot,                       \* "off", in NvModuleInit, or "ok": what it returned
    todo,                       \* rest of the call that holds the mutex
    requested,                  \* history: idle saves accepted and not yet written
    stored,                     \* history: what a restart would restore if power failed now
    losses, criticals           \* counters for the bounds

ramState == <<mNvActivePageId, mNvPageCounter, NvLastMetaInfoAddress, mNvCopyOperationIsPending,
              mNvErasePgCmdStatus, mNvPendingSavesQueue, mNvModuleInitialized>>
bounds == <<losses, criticals>>
vars == <<flash, stored, ramState, mNvCriticalSectionFlag, ram, boot, todo, requested, bounds>>

-----------------------------------------------------------------------------
(* Flash cells and pages. *)
Page == {0, 1}
Cell == 0 .. PAGE - 1
Bottom == PAGE - 1
FirstMeta == 1
gEmptyPageMetaAddress_c == 0
gVirtualPageNone_c == 2
NotFound == -1
ALL == 0                            \* gNvCopyAll_c, the queue entry for the whole table

Counter(n) == [kind |-> "counter", n |-> n]
Meta(e, a) == [kind |-> "meta", entry |-> e, offset |-> a]
Data(e, v) == [k \in 1 .. pNVM_DataTable[e] |-> IF v = BLANK THEN BLANK ELSE [kind |-> "data", entry |-> e, v |-> v]]

Is(c, kind) == c \notin {BLANK, TORN} /\ c.kind = kind
SectorOf(a) == a \div (PAGE \div SECTORS)
BlankPage == [a \in Cell |-> BLANK]

(* NvInitStorageSystem: top and bottom counter agree and are not blank. *)
Valid(f, p) == f[p][0] = f[p][Bottom] /\ Is(f[p][0], "counter")
ActivePage(f) ==
    CASE Valid(f, 0) /\ Valid(f, 1) -> IF f[0][0].n >= f[1][0].n THEN 0 ELSE 1
      [] Valid(f, 0) /\ ~Valid(f, 1) -> 0
      [] ~Valid(f, 0) /\ Valid(f, 1) -> 1
      [] OTHER -> gVirtualPageNone_c

(* Mutant: the search ends at a meta whose program was cut short. *)
LastMeta_stops(f, p) ==
    LET metas == {a \in FirstMeta .. Bottom - 1 : \A b \in FirstMeta .. a : Is(f[p][b], "meta")}
    IN  CASE f[p][FirstMeta] = BLANK -> gEmptyPageMetaAddress_c
          [] metas # {} -> Max(metas)
          [] OTHER -> NotFound

(* NvUpdateLastMetaInfoAddress: up to the first blank cell, then back to a valid meta. *)
LastMeta(f, p) ==
    LET metas == {a \in FirstMeta .. Bottom - 1 : Is(f[p][a], "meta") /\ \A b \in FirstMeta .. a : f[p][b] # BLANK}
    IN  CASE f[p][FirstMeta] = BLANK -> gEmptyPageMetaAddress_c
          [] metas # {} /\ \E a \in FirstMeta .. Bottom - 1 : f[p][a] = BLANK -> Max(metas)
          [] OTHER -> NotFound

(* NvRestoreData: the newest valid meta of the data set, from the last one back. *)
ReadRecord(f, p, e, a) ==
    LET cells == [k \in 1 .. pNVM_DataTable[e] |-> f[p][a + k - 1]]
    IN  IF \E v \in Value : cells = Data(e, v) THEN CHOOSE v \in Value : cells = Data(e, v) ELSE TORN
NvRestoreData(f, p, last, e) ==
    LET metas == {a \in FirstMeta .. last : Is(f[p][a], "meta") /\ f[p][a].entry = e}
    IN  IF metas = {} THEN NONE ELSE ReadRecord(f, p, e, f[p][Max(metas)].offset)

(* What NvModuleInit and then NvRestoreDataSet would find in flash f. *)
Restored(f) ==
    LET from(p) == [e \in Entry |-> IF p = gVirtualPageNone_c \/ LastMeta(f, p) = NotFound THEN NONE
                                    ELSE NvRestoreData(f, p, LastMeta(f, p), e)]
    IN  CHOOSE s \in {from(p) : p \in {ActivePage(f)}} : TRUE
BecomesFlash(f) == flash' = f /\ stored' = Restored(f)

(* NvGetPageFreeSpace and NvIsMemoryAreaAvailable of the active page. *)
NvGetPageFreeSpace(p, last) ==
    IF last = gEmptyPageMetaAddress_c THEN PAGE - 2 ELSE flash[p][last].offset - (last + 1)
NvIsMemoryAreaAvailable(p, a, len) ==
    a >= 0 /\ a + len <= PAGE /\ \A b \in a .. a + len - 1 : flash[p][b] = BLANK

-----------------------------------------------------------------------------
(* What a call has left to do.  Steps that touch the flash: *)
EraseSectors(p, first, last) == [op |-> "erase", page |-> p, sector |-> first, last |-> last]
Erase(p) == EraseSectors(p, 0, SECTORS - 1)
Program(p, a, cells) == [op |-> "program", page |-> p, address |-> a, cells |-> cells]
(* NvSaveRamTable: the counter at the start of the page, then the one at its end. *)
NvSaveRamTable(p, n) == <<Program(p, 0, <<Counter(n)>>), Program(p, Bottom, <<Counter(n)>>)>>
(* The others: a function to run, and the point of its caller to go on at. *)
Call(name) == [op |-> name]
CallFor(name, e) == [op |-> name, entry |-> e]
SyncSave(e, last) == [op |-> "NvSyncSave", entry |-> e, last |-> last]
CopyRecords(src, dst, record) == [op |-> "copy records", src |-> src, dst |-> dst, record |-> record]
WriteRecord(e, by) == [op |-> "NvWriteRecord", entry |-> e, by |-> by]

Running(name) == todo # << >> /\ Head(todo).op = name
Rest == Tail(todo)
(* A caller gives up its loop. *)
Without(s, name) == IF s # << >> /\ Head(s).op = name THEN Tail(s) ELSE s

-----------------------------------------------------------------------------
Init ==
    /\ mNvActivePageId = gVirtualPageNone_c
    /\ mNvPageCounter = 0
    /\ NvLastMetaInfoAddress = [p \in Page |-> gEmptyPageMetaAddress_c]
    /\ mNvCopyOperationIsPending = FALSE
    /\ mNvErasePgCmdStatus = [pending |-> FALSE, page |-> 0, sector |-> 0]
    /\ mNvPendingSavesQueue = << >>
    /\ mNvModuleInitialized = FALSE
    /\ mNvCriticalSectionFlag = 0
    /\ ram = [e \in Entry |-> Default]
    /\ boot = "off"
    /\ todo = << >>
    /\ requested = {}
    /\ flash = [p \in Page |-> BlankPage] /\ stored = [e \in Entry |-> NONE]
    /\ losses = 0 /\ criticals = 0

(* One command of the flash controller.  NV_Flash_WaitForCSEndAndDisableInterrupts
   holds it back while a critical section is open. *)
Erased(f, o) == [f EXCEPT ![o.page] = [a \in Cell |-> IF SectorOf(a) = o.sector THEN BLANK ELSE @[a]]]
Written(f, o, n) == [f EXCEPT ![o.page] = [a \in Cell |->
                        IF a - o.address + 1 \in 1 .. n THEN o.cells[a - o.address + 1] ELSE @[a]]]

FlashErase ==
    /\ Running("erase") /\ mNvCriticalSectionFlag = 0
    /\ LET o == Head(todo) IN
       /\ \E f \in {Erased(flash, o)} : BecomesFlash(f)
       /\ todo' = (IF o.sector < o.last THEN <<EraseSectors(o.page, o.sector + 1, o.last)>> ELSE << >>) \o Rest
    /\ UNCHANGED <<ramState, mNvCriticalSectionFlag, ram, boot, requested, bounds>>

FlashProgram ==
    /\ Running("program") /\ mNvCriticalSectionFlag = 0
    /\ \E f \in {Written(flash, Head(todo), Len(Head(todo).cells))} : BecomesFlash(f)
    /\ todo' = Rest
    /\ UNCHANGED <<ramState, mNvCriticalSectionFlag, ram, boot, requested, bounds>>

(* The flash after a command that power failed in: cells of the sector are
   undefined, or a first part of the record is there and one cell half written. *)
Interrupted ==
    IF todo = << >> \/ mNvCriticalSectionFlag # 0 THEN {flash}
    ELSE LET o == Head(todo) IN
         CASE o.op = "erase" ->
                {flash, [flash EXCEPT ![o.page] = [a \in Cell |-> IF SectorOf(a) = o.sector THEN TORN ELSE @[a]]]}
           [] o.op = "program" ->
                {Written(flash, o, n) : n \in 0 .. Len(o.cells) - 1}
                  \union {[Written(flash, o, n - 1) EXCEPT ![o.page][o.address + n - 1] = TORN] : n \in 1 .. Len(o.cells)}
           [] OTHER -> {flash}

PowerLoss ==
    /\ boot # "off" /\ losses < MAX_LOSS
    /\ losses' = losses + 1
    /\ \E f \in Interrupted : BecomesFlash(f)
    /\ mNvActivePageId' = gVirtualPageNone_c
    /\ mNvPageCounter' = 0
    /\ NvLastMetaInfoAddress' = [p \in Page |-> gEmptyPageMetaAddress_c]
    /\ mNvCopyOperationIsPending' = FALSE
    /\ mNvErasePgCmdStatus' = [pending |-> FALSE, page |-> 0, sector |-> 0]
    /\ mNvPendingSavesQueue' = << >>
    /\ mNvModuleInitialized' = FALSE
    /\ mNvCriticalSectionFlag' = 0
    /\ ram' = [e \in Entry |-> Default]
    /\ boot' = "off"
    /\ todo' = << >>
    /\ requested' = {}
    /\ UNCHANGED criticals

-----------------------------------------------------------------------------
(* Mutant: trusts the free space computed from the last meta. *)
Room_unchecked(e) ==
    LET p == mNvActivePageId
        last == NvLastMetaInfoAddress[p]
        size == pNVM_DataTable[e]
        record == (IF last = gEmptyPageMetaAddress_c THEN Bottom ELSE flash[p][last].offset) - size
    IN  IF size + 2 >= NvGetPageFreeSpace(p, last) THEN {} ELSE {[record |-> record, meta |-> last + 1]}

(* Mutant: no test of the free space, only of the cells. *)
Room_unbounded(e) ==
    LET p == mNvActivePageId
        last == NvLastMetaInfoAddress[p]
        size == pNVM_DataTable[e]
        record == (IF last = gEmptyPageMetaAddress_c THEN Bottom ELSE flash[p][last].offset) - size
        skipped == {i \in 0 .. PAGE : NvIsMemoryAreaAvailable(p, record - i * size, size)}
        metas == {a \in last + 1 .. Bottom : NvIsMemoryAreaAvailable(p, a, 1)}
    IN  IF skipped = {} \/ metas = {} THEN {}
        ELSE {[record |-> record - Min(skipped) * size, meta |-> Min(metas)]}

(* NvWriteRecord: below the last record and above the last meta, over whatever
   a power failure left there; PageCopyPending when that does not fit. *)
Room(e) ==
    LET p == mNvActivePageId
        last == NvLastMetaInfoAddress[p]
        size == pNVM_DataTable[e]
        record == (IF last = gEmptyPageMetaAddress_c THEN Bottom ELSE flash[p][last].offset) - size
        skipped == {i \in 0 .. PAGE : NvIsMemoryAreaAvailable(p, record - i * size, size)}
        metas == {a \in last + 1 .. Bottom : NvIsMemoryAreaAvailable(p, a, 1)}
        free == NvGetPageFreeSpace(p, last) - Min(skipped) * size - (Min(metas) - (last + 1))
    IN  IF skipped = {} \/ metas = {} \/ size + 2 >= free THEN {}
        ELSE {[record |-> record - Min(skipped) * size, meta |-> Min(metas)]}

(* Mutant: NvIdle forgets the request it has taken from the queue. *)
WhenPending_drops(e, by) ==
    CASE by = "NvSyncSave" -> <<Call("NvCopyPage"), CallFor("erase old page", e)>> \o Rest
      [] by \in {"again", "NvIdle"} -> Without(Without(Rest, "NvSyncSave"), "saves")
      [] by = "NvProcessFirstSaveInQueue" ->
            <<Call("NvCopyPage"), Call("copied"), WriteRecord(e, "after copy")>> \o Rest
      [] by = "after copy" ->
            <<CallFor("NvAddSaveRequestToQueue", e), Call("NvProcessFirstSaveInQueue")>> \o Rest

(* What the callers do when NvWriteRecord returns PageCopyPending. *)
WhenPending(e, by) ==
    CASE by = "NvSyncSave" -> <<Call("NvCopyPage"), CallFor("erase old page", e)>> \o Rest
      [] by = "again" -> Without(Rest, "NvSyncSave")
      [] by = "NvIdle" -> <<CallFor("NvAddSaveRequestToQueue", e)>> \o Without(Rest, "saves")
      [] by = "NvProcessFirstSaveInQueue" ->
            <<Call("NvCopyPage"), Call("copied"), WriteRecord(e, "after copy")>> \o Rest
      [] by = "after copy" ->
            <<CallFor("NvAddSaveRequestToQueue", e), Call("NvProcessFirstSaveInQueue")>> \o Rest

NvWriteRecord ==
    /\ Running("NvWriteRecord")
    /\ LET e == Head(todo).entry IN
       \/ \E at \in Room(e) :
            /\ ~mNvCopyOperationIsPending
            /\ todo' = <<Program(mNvActivePageId, at.record, Data(e, ram[e])),
                         Program(mNvActivePageId, at.meta, <<Meta(e, at.record)>>),
                         [op |-> "written", entry |-> e, meta |-> at.meta]>> \o Rest
            /\ UNCHANGED mNvCopyOperationIsPending
       \/ /\ mNvCopyOperationIsPending \/ Room(e) = {}
          /\ mNvCopyOperationIsPending' = TRUE
          /\ todo' = WhenPending(e, Head(todo).by)
    /\ UNCHANGED <<flash, stored, mNvActivePageId, mNvPageCounter, NvLastMetaInfoAddress, mNvErasePgCmdStatus,
                   mNvPendingSavesQueue, mNvModuleInitialized, mNvCriticalSectionFlag, ram, boot, requested, bounds>>

NvWriteRecord_written ==
    /\ Running("written")
    /\ NvLastMetaInfoAddress' = [NvLastMetaInfoAddress EXCEPT ![mNvActivePageId] = Head(todo).meta]
    /\ requested' = requested \ {Head(todo).entry}
    /\ todo' = Rest
    /\ UNCHANGED <<flash, stored, mNvActivePageId, mNvPageCounter, mNvCopyOperationIsPending, mNvErasePgCmdStatus,
                   mNvPendingSavesQueue, mNvModuleInitialized, mNvCriticalSectionFlag, ram, boot, bounds>>

OtherPage == (mNvActivePageId + 1) % 2

(* Mutant: every valid meta is copied, not only the newest of a data set. *)
NotCopied_all(last) == {a \in FirstMeta .. last : Is(flash[mNvActivePageId][a], "meta")}

(* NvIsRecordCopied: the metas up to last of data sets with no meta on the other page. *)
NotCopied(last) ==
    {a \in FirstMeta .. last :
        /\ Is(flash[mNvActivePageId][a], "meta")
        /\ ~\E b \in FirstMeta .. Bottom - 1 : /\ Is(flash[OtherPage][b], "meta")
                                               /\ flash[OtherPage][b].entry = flash[mNvActivePageId][a].entry}

(* Mutant: the counters that make the new page valid are written before the records. *)
NvCopyPage_valid_first ==
    /\ Running("NvCopyPage")
    /\ todo' = (IF flash[OtherPage] # BlankPage THEN <<Erase(OtherPage)>> ELSE << >>)
                 \o NvSaveRamTable(OtherPage, mNvPageCounter + 1)
                 \o <<CopyRecords(NvLastMetaInfoAddress[mNvActivePageId], FirstMeta, Bottom)>> \o Rest
    /\ UNCHANGED <<flash, stored, ramState, mNvCriticalSectionFlag, ram, boot, requested, bounds>>

(* NvCopyPage: erases the other page if that is needed, then goes from the last
   meta down and copies the records of which there is no newer one. *)
NvCopyPage ==
    /\ Running("NvCopyPage")
    /\ todo' = (IF flash[OtherPage] # BlankPage THEN <<Erase(OtherPage)>> ELSE << >>)
                 \o <<CopyRecords(NvLastMetaInfoAddress[mNvActivePageId], FirstMeta, Bottom)>> \o Rest
    /\ UNCHANGED <<flash, stored, ramState, mNvCriticalSectionFlag, ram, boot, requested, bounds>>

(* NvInternalCopy: the record, then its meta. *)
NvInternalCopy ==
    /\ Running("copy records")
    /\ LET o == Head(todo) IN
       \E a \in NotCopied(o.src) :
          LET m == flash[mNvActivePageId][a]
              size == pNVM_DataTable[m.entry]
              to == o.record - size
          IN  /\ \A b \in NotCopied(o.src) : b <= a
              /\ todo' = <<Program(OtherPage, to, [i \in 1 .. size |-> flash[mNvActivePageId][m.offset + i - 1]]),
                           Program(OtherPage, o.dst, <<Meta(m.entry, to)>>),
                           CopyRecords(a - 1, o.dst + 1, to)>> \o Rest
    /\ UNCHANGED <<flash, stored, ramState, mNvCriticalSectionFlag, ram, boot, requested, bounds>>

(* Mutant: the page to erase is read after the active page was switched. *)
NvCopyPage_switch_late ==
    /\ Running("copy records") /\ NotCopied(Head(todo).src) = {}
    /\ mNvActivePageId' = OtherPage
    /\ mNvErasePgCmdStatus' = [pending |-> TRUE, page |-> mNvActivePageId', sector |-> 0]
    /\ NvLastMetaInfoAddress' = [NvLastMetaInfoAddress EXCEPT ![OtherPage] = Head(todo).dst - 1]
    /\ mNvPageCounter' = mNvPageCounter + 1
    /\ todo' = NvSaveRamTable(OtherPage, mNvPageCounter + 1) \o Rest
    /\ UNCHANGED <<flash, stored, mNvCopyOperationIsPending, mNvPendingSavesQueue, mNvModuleInitialized,
                   mNvCriticalSectionFlag, ram, boot, requested, bounds>>

(* NvCopyPage, once nothing is left to copy. *)
NvCopyPage_switch ==
    /\ Running("copy records") /\ NotCopied(Head(todo).src) = {}
    /\ mNvErasePgCmdStatus' = [pending |-> TRUE, page |-> mNvActivePageId, sector |-> 0]
    /\ mNvActivePageId' = OtherPage
    /\ NvLastMetaInfoAddress' = [NvLastMetaInfoAddress EXCEPT ![OtherPage] = Head(todo).dst - 1]
    /\ mNvPageCounter' = mNvPageCounter + 1
    /\ todo' = NvSaveRamTable(OtherPage, mNvPageCounter + 1) \o Rest
    /\ UNCHANGED <<flash, stored, mNvCopyOperationIsPending, mNvPendingSavesQueue, mNvModuleInitialized,
                   mNvCriticalSectionFlag, ram, boot, requested, bounds>>

(* The caller of NvCopyPage, once it succeeded. *)
Copied ==
    /\ Running("copied")
    /\ mNvCopyOperationIsPending' = FALSE
    /\ todo' = Rest
    /\ UNCHANGED <<flash, stored, mNvActivePageId, mNvPageCounter, NvLastMetaInfoAddress, mNvErasePgCmdStatus,
                   mNvPendingSavesQueue, mNvModuleInitialized, mNvCriticalSectionFlag, ram, boot, requested, bounds>>

(* NvSyncSave, once NvCopyPage succeeded. *)
NvSyncSave_copied ==
    /\ Running("erase old page")
    /\ mNvCopyOperationIsPending' = FALSE
    /\ todo' = <<Erase(mNvErasePgCmdStatus.page), Call("erased"), WriteRecord(Head(todo).entry, "again")>> \o Rest
    /\ UNCHANGED <<flash, stored, mNvActivePageId, mNvPageCounter, NvLastMetaInfoAddress, mNvErasePgCmdStatus,
                   mNvPendingSavesQueue, mNvModuleInitialized, mNvCriticalSectionFlag, ram, boot, requested, bounds>>

(* NvSyncSave after NvEraseVirtualPage, and __NvIdle once every sector is erased. *)
EraseDone ==
    /\ NvLastMetaInfoAddress' = [NvLastMetaInfoAddress EXCEPT ![mNvErasePgCmdStatus.page] = gEmptyPageMetaAddress_c]
    /\ mNvErasePgCmdStatus' = [mNvErasePgCmdStatus EXCEPT !.pending = FALSE]

NvSyncSave_erased ==
    /\ Running("erased")
    /\ EraseDone
    /\ todo' = Rest
    /\ UNCHANGED <<flash, stored, mNvActivePageId, mNvPageCounter, mNvCopyOperationIsPending, mNvPendingSavesQueue,
                   mNvModuleInitialized, mNvCriticalSectionFlag, ram, boot, requested, bounds>>

(* NvInternalFormat: both pages erased, the first one active.  The page to
   erase and the copy that may be pending are left as they are. *)
InternalFormat(n) == [op |-> "NvInternalFormat", counter |-> n]
NvInternalFormat ==
    /\ Running("NvInternalFormat")
    /\ mNvPageCounter' = Head(todo).counter + 1
    /\ mNvActivePageId' = 0
    /\ todo' = <<Erase(0), Erase(1)>>
                 \o (NvSaveRamTable(0, Head(todo).counter + 1) \o (<<Call("NvUpdateLastMetaInfoAddress")>> \o Rest))
    /\ UNCHANGED <<flash, stored, NvLastMetaInfoAddress, mNvCopyOperationIsPending, mNvErasePgCmdStatus, mNvPendingSavesQueue,
                   mNvModuleInitialized, mNvCriticalSectionFlag, ram, boot, requested, bounds>>

NvUpdateLastMetaInfoAddress ==
    /\ Running("NvUpdateLastMetaInfoAddress")
    /\ NvLastMetaInfoAddress' = [NvLastMetaInfoAddress EXCEPT ![mNvActivePageId] = LastMeta(flash, mNvActivePageId)]
    /\ todo' = Rest
    /\ UNCHANGED <<flash, stored, mNvActivePageId, mNvPageCounter, mNvCopyOperationIsPending, mNvErasePgCmdStatus,
                   mNvPendingSavesQueue, mNvModuleInitialized, mNvCriticalSectionFlag, ram, boot, requested, bounds>>

(* NvModuleInit: the active page, formatted if there is none; then the last
   meta of it.  A page without a valid one is formatted and the module is not
   marked as initialised. *)
NvModuleInit ==
    /\ boot = "off"
    /\ boot' = "NvModuleInit"
    /\ \/ /\ ActivePage(flash) = gVirtualPageNone_c
          /\ mNvActivePageId' = 0
          /\ todo' = <<InternalFormat(0), Call("init")>>
          /\ UNCHANGED mNvPageCounter
       \/ /\ ActivePage(flash) # gVirtualPageNone_c
          /\ mNvActivePageId' = ActivePage(flash)
          /\ mNvPageCounter' = flash[ActivePage(flash)][0].n
          /\ todo' = <<Call("init")>>
    /\ UNCHANGED <<flash, stored, NvLastMetaInfoAddress, mNvCopyOperationIsPending, mNvErasePgCmdStatus, mNvPendingSavesQueue,
                   mNvModuleInitialized, mNvCriticalSectionFlag, ram, requested, bounds>>

NvModuleInit_init ==
    /\ Running("init")
    /\ LET p == mNvActivePageId
           last == LastMeta(flash, p)
       IN  \/ /\ last # NotFound
              /\ NvLastMetaInfoAddress' = [NvLastMetaInfoAddress EXCEPT ![p] = last]
              /\ mNvModuleInitialized' = TRUE
              /\ todo' = (IF NvGetPageFreeSpace(p, last) < gNvMinimumFreeBytesCountStart_c
                          THEN <<Call("NvCopyPage")>> ELSE << >>) \o <<Call("return")>>
           \/ /\ last = NotFound
              /\ todo' = <<InternalFormat(0), Call("return")>>
              /\ UNCHANGED <<NvLastMetaInfoAddress, mNvModuleInitialized>>
    /\ UNCHANGED <<flash, stored, mNvActivePageId, mNvPageCounter, mNvCopyOperationIsPending, mNvErasePgCmdStatus,
                   mNvPendingSavesQueue, mNvCriticalSectionFlag, ram, boot, requested, bounds>>

NvModuleInit_return ==
    /\ Running("return")
    /\ boot' = "ok"
    /\ todo' = Rest
    /\ UNCHANGED <<flash, stored, ramState, mNvCriticalSectionFlag, ram, requested, bounds>>

-----------------------------------------------------------------------------
(* The queue of idle saves.  NvAddSaveRequestToQueue ignores a request that is
   queued, and when the queue is full has its first request processed, which
   does nothing in a critical section. *)
Accept(e) == requested' = IF e = ALL THEN requested ELSE requested \union {e}

NvAddSaveRequestToQueue ==
    /\ Running("NvAddSaveRequestToQueue")
    /\ LET e == Head(todo).entry
           q == mNvPendingSavesQueue
       IN  \/ /\ e \in ToSet(q)
              /\ Accept(e)
              /\ todo' = Rest
              /\ UNCHANGED mNvPendingSavesQueue
           \/ /\ e \notin ToSet(q) /\ Len(q) < gNvPendingSavesQueueSize_c
              /\ mNvPendingSavesQueue' = Append(q, e)
              /\ Accept(e)
              /\ todo' = Rest
           \/ /\ e \notin ToSet(q) /\ Len(q) = gNvPendingSavesQueueSize_c
              /\ todo' = <<Call("NvProcessFirstSaveInQueue"), CallFor("NvPushPendingSave", e)>> \o Rest
              /\ UNCHANGED <<mNvPendingSavesQueue, requested>>
    /\ UNCHANGED <<flash, stored, mNvActivePageId, mNvPageCounter, NvLastMetaInfoAddress, mNvCopyOperationIsPending,
                   mNvErasePgCmdStatus, mNvModuleInitialized, mNvCriticalSectionFlag, ram, boot, bounds>>

NvPushPendingSave ==
    /\ Running("NvPushPendingSave")
    /\ LET e == Head(todo).entry IN
       \/ /\ Len(mNvPendingSavesQueue) < gNvPendingSavesQueueSize_c
          /\ mNvPendingSavesQueue' = Append(mNvPendingSavesQueue, e)
          /\ Accept(e)
       \/ /\ Len(mNvPendingSavesQueue) = gNvPendingSavesQueueSize_c
          /\ UNCHANGED <<mNvPendingSavesQueue, requested>>
    /\ todo' = Rest
    /\ UNCHANGED <<flash, stored, mNvActivePageId, mNvPageCounter, NvLastMetaInfoAddress, mNvCopyOperationIsPending,
                   mNvErasePgCmdStatus, mNvModuleInitialized, mNvCriticalSectionFlag, ram, boot, bounds>>

(* NvPopPendingSave, then the save it stands for. *)
Pop(by, more) ==
    LET e == Head(mNvPendingSavesQueue) IN
    /\ mNvPendingSavesQueue' = Tail(mNvPendingSavesQueue)
    /\ todo' = (IF e = ALL THEN <<Call("NvAtomicSave")>> \o todo ELSE <<WriteRecord(e, by)>> \o more)

NvProcessFirstSaveInQueue ==
    /\ Running("NvProcessFirstSaveInQueue")
    /\ \/ /\ mNvCriticalSectionFlag # 0 \/ mNvPendingSavesQueue = << >>
          /\ todo' = Rest
          /\ UNCHANGED mNvPendingSavesQueue
       \/ /\ mNvCriticalSectionFlag = 0 /\ mNvPendingSavesQueue # << >>
          /\ Pop("NvProcessFirstSaveInQueue", Rest)
    /\ UNCHANGED <<flash, stored, mNvActivePageId, mNvPageCounter, NvLastMetaInfoAddress, mNvCopyOperationIsPending,
                   mNvErasePgCmdStatus, mNvModuleInitialized, mNvCriticalSectionFlag, ram, boot, requested, bounds>>

(* __NvSyncSave of one data set, or of each up to the last one for NvAtomicSave:
   queued in a critical section, and then NvAtomicSave makes no more. *)
NvSyncSave ==
    /\ Running("NvSyncSave")
    /\ LET o == Head(todo) IN
       todo' = IF mNvCriticalSectionFlag # 0
               THEN <<CallFor("NvAddSaveRequestToQueue", o.entry)>> \o Rest
               ELSE <<WriteRecord(o.entry, "NvSyncSave")>>
                      \o (IF o.entry < o.last THEN <<SyncSave(o.entry + 1, o.last)>> ELSE << >>) \o Rest
    /\ UNCHANGED <<flash, stored, ramState, mNvCriticalSectionFlag, ram, boot, requested, bounds>>

(* __NvAtomicSave: empties the queue, then saves the whole table or queues that. *)
NvAtomicSave ==
    /\ Running("NvAtomicSave")
    /\ mNvPendingSavesQueue' = IF mNvCriticalSectionFlag # 0 THEN <<ALL>> ELSE << >>
    /\ todo' = (IF mNvCriticalSectionFlag # 0 THEN << >> ELSE <<SyncSave(1, Len(pNVM_DataTable))>>) \o Rest
    /\ UNCHANGED <<flash, stored, mNvActivePageId, mNvPageCounter, NvLastMetaInfoAddress, mNvCopyOperationIsPending,
                   mNvErasePgCmdStatus, mNvModuleInitialized, mNvCriticalSectionFlag, ram, boot, requested, bounds>>

-----------------------------------------------------------------------------
(* __NvIdle: a pending page copy, then one sector of a pending erase, and when
   there is none the queued saves. *)
NvIdle ==
    /\ Running("NvIdle")
    /\ todo' = (CASE ~mNvModuleInitialized \/ mNvCriticalSectionFlag # 0 -> << >>
                  [] mNvModuleInitialized /\ mNvCriticalSectionFlag = 0 ->
                        (IF mNvCopyOperationIsPending THEN <<Call("NvCopyPage"), Call("copied")>> ELSE << >>)
                          \o <<Call("erase sector"), Call("saves")>>) \o Rest
    /\ UNCHANGED <<flash, stored, ramState, mNvCriticalSectionFlag, ram, boot, requested, bounds>>

(* Mutant: the request to erase is never taken back, and the saves never get their turn. *)
NvIdle_erase_forever ==
    /\ Running("erase sector")
    /\ LET c == mNvErasePgCmdStatus IN
       /\ todo' = IF ~c.pending THEN Rest
                  ELSE <<EraseSectors(c.page, c.sector % SECTORS, c.sector % SECTORS)>> \o Without(Rest, "saves")
       /\ mNvErasePgCmdStatus' = IF c.pending THEN [c EXCEPT !.sector = (@ % SECTORS) + 1] ELSE c
    /\ UNCHANGED <<flash, stored, mNvActivePageId, mNvPageCounter, NvLastMetaInfoAddress, mNvCopyOperationIsPending,
                   mNvPendingSavesQueue, mNvModuleInitialized, mNvCriticalSectionFlag, ram, boot, requested, bounds>>

NvIdle_erase ==
    /\ Running("erase sector")
    /\ LET c == mNvErasePgCmdStatus IN
       \/ /\ ~c.pending
          /\ todo' = Rest
          /\ UNCHANGED <<NvLastMetaInfoAddress, mNvErasePgCmdStatus>>
       \/ /\ c.pending /\ c.sector = SECTORS
          /\ EraseDone
          /\ todo' = Without(Rest, "saves")
       \/ /\ c.pending /\ c.sector < SECTORS
          /\ mNvErasePgCmdStatus' = [c EXCEPT !.sector = @ + 1]
          /\ todo' = <<EraseSectors(c.page, c.sector, c.sector)>> \o Without(Rest, "saves")
          /\ UNCHANGED NvLastMetaInfoAddress
    /\ UNCHANGED <<flash, stored, mNvActivePageId, mNvPageCounter, mNvCopyOperationIsPending, mNvPendingSavesQueue,
                   mNvModuleInitialized, mNvCriticalSectionFlag, ram, boot, requested, bounds>>

NvIdle_saves ==
    /\ Running("saves")
    /\ \/ /\ mNvPendingSavesQueue = << >>
          /\ todo' = Rest
          /\ UNCHANGED mNvPendingSavesQueue
       \/ /\ mNvPendingSavesQueue # << >>
          /\ Pop("NvIdle", todo)
    /\ UNCHANGED <<flash, stored, mNvActivePageId, mNvPageCounter, NvLastMetaInfoAddress, mNvCopyOperationIsPending,
                   mNvErasePgCmdStatus, mNvModuleInitialized, mNvCriticalSectionFlag, ram, boot, requested, bounds>>

(* NvCompletePendingOperations: __NvIdle until no erase and no copy is pending. *)
NvCompletePendingOperations ==
    /\ Running("NvCompletePendingOperations")
    /\ todo' = IF mNvErasePgCmdStatus.pending \/ mNvCopyOperationIsPending THEN <<Call("NvIdle")>> \o todo ELSE Rest
    /\ UNCHANGED <<flash, stored, ramState, mNvCriticalSectionFlag, ram, boot, requested, bounds>>

(* NvShutdown: waits, with the mutex held, until nothing is left for NvIdle. *)
NvShutdown ==
    /\ Running("NvShutdown")
    /\ mNvPendingSavesQueue = << >> /\ ~mNvCopyOperationIsPending
    /\ todo' = Rest
    /\ UNCHANGED <<flash, stored, ramState, mNvCriticalSectionFlag, ram, boot, requested, bounds>>

(* __NvFormat, once NvInternalFormat succeeded. *)
NvFormat_formatted ==
    /\ Running("formatted")
    /\ mNvPendingSavesQueue' = << >>
    /\ requested' = {}
    /\ todo' = Rest
    /\ UNCHANGED <<flash, stored, mNvActivePageId, mNvPageCounter, NvLastMetaInfoAddress, mNvCopyOperationIsPending,
                   mNvErasePgCmdStatus, mNvModuleInitialized, mNvCriticalSectionFlag, ram, boot, bounds>>

Step ==
    \/ FlashErase \/ FlashProgram
    \/ NvWriteRecord \/ NvWriteRecord_written \/ NvCopyPage \/ NvInternalCopy \/ NvCopyPage_switch
    \/ Copied \/ NvSyncSave_copied \/ NvSyncSave_erased
    \/ NvInternalFormat \/ NvUpdateLastMetaInfoAddress \/ NvModuleInit_init \/ NvModuleInit_return
    \/ NvAddSaveRequestToQueue \/ NvPushPendingSave \/ NvProcessFirstSaveInQueue
    \/ NvSyncSave \/ NvAtomicSave \/ NvIdle \/ NvIdle_erase \/ NvIdle_saves
    \/ NvCompletePendingOperations \/ NvShutdown \/ NvFormat_formatted

-----------------------------------------------------------------------------
(* The calls: the application changes a data set and has it saved, the idle task
   runs NvIdle, a driver opens critical sections. *)
Enter(calls) ==
    /\ boot = "ok" /\ todo = << >>
    /\ todo' = calls
    /\ UNCHANGED <<flash, stored, ramState, mNvCriticalSectionFlag, boot, requested, bounds>>
Saves(calls) == mNvModuleInitialized /\ mNvPageCounter < MAX_COUNTER /\ Enter(calls)

CallSave(e, v) ==
    /\ Saves(<<SyncSave(e, e)>>) \/ Saves(<<CallFor("NvAddSaveRequestToQueue", e)>>)
    /\ ram' = [ram EXCEPT ![e] = v]
CallNvAtomicSave == Saves(<<Call("NvAtomicSave")>>) /\ UNCHANGED ram
CallNvIdle == Enter(<<Call("NvIdle")>>) /\ UNCHANGED ram
CallNvCompletePendingOperations ==
    /\ mNvModuleInitialized
    /\ Enter(<<Call("NvIdle"), Call("NvCompletePendingOperations")>>)
    /\ UNCHANGED ram
CallNvShutdown ==
    /\ \/ "shutdown while pending" \in Circumstances
       \/ mNvPendingSavesQueue = << >> /\ ~mNvCopyOperationIsPending
    /\ Enter(<<Call("NvShutdown")>>)
    /\ UNCHANGED ram
CallNvFormat ==
    /\ "format while erasing" \in Circumstances \/ ~mNvErasePgCmdStatus.pending
    /\ mNvCriticalSectionFlag = 0
    /\ Saves(<<InternalFormat(flash[mNvActivePageId][0].n), Call("formatted")>>)
    /\ UNCHANGED ram

NvRestoreDataSet(e) ==
    /\ boot = "ok" /\ mNvModuleInitialized /\ todo = << >>
    /\ LET v == NvRestoreData(flash, mNvActivePageId, NvLastMetaInfoAddress[mNvActivePageId], e)
       IN  v # NONE /\ ram' = [ram EXCEPT ![e] = v]
    /\ UNCHANGED <<flash, stored, ramState, mNvCriticalSectionFlag, boot, todo, requested, bounds>>

NvSetCriticalSection ==
    /\ boot = "ok" /\ criticals < MAX_CRITICAL
    /\ "critical section in a call" \in Circumstances \/ todo = << >>
    /\ mNvCriticalSectionFlag' = mNvCriticalSectionFlag + 1
    /\ criticals' = criticals + 1
    /\ UNCHANGED <<flash, stored, ramState, ram, boot, todo, requested, losses>>

NvClearCriticalSection ==
    /\ mNvCriticalSectionFlag > 0
    /\ mNvCriticalSectionFlag' = mNvCriticalSectionFlag - 1
    /\ UNCHANGED <<flash, stored, ramState, ram, boot, todo, requested, bounds>>

Next ==
    \/ PowerLoss \/ NvModuleInit \/ Step
    \/ \E e \in Entry, v \in Value : CallSave(e, v)
    \/ CallNvAtomicSave \/ CallNvIdle \/ CallNvCompletePendingOperations \/ CallNvShutdown \/ CallNvFormat
    \/ \E e \in Entry : NvRestoreDataSet(e)
    \/ NvSetCriticalSection \/ NvClearCriticalSection

(* A call that runs goes on, the application starts the module, sections end, and
   the idle task gets in between the calls of the others. *)
Fairness ==
    /\ WF_vars(Step) /\ WF_vars(NvModuleInit) /\ WF_vars(NvClearCriticalSection)
    /\ SF_vars(CallNvIdle)

Spec == Init /\ [][Next]_vars /\ Fairness

-----------------------------------------------------------------------------
(* Types. *)
TypeOK ==
    /\ DOMAIN flash = Page /\ \A p \in Page : DOMAIN flash[p] = Cell
    /\ \A p \in Page, a \in Cell : Is(flash[p][a], "meta") =>
          flash[p][a].entry \in Entry /\ flash[p][a].offset \in a + 1 .. Bottom - pNVM_DataTable[flash[p][a].entry]
    /\ mNvActivePageId \in Page \union {gVirtualPageNone_c}
    /\ mNvModuleInitialized => mNvActivePageId \in Page
    /\ mNvPageCounter \in Nat
    /\ NvLastMetaInfoAddress \in [Page -> gEmptyPageMetaAddress_c .. Bottom - 1]
    /\ mNvCopyOperationIsPending \in BOOLEAN
    /\ mNvErasePgCmdStatus \in [pending : BOOLEAN, page : Page, sector : 0 .. SECTORS]
    /\ mNvPendingSavesQueue \in Seq(Entry \union {ALL}) /\ IsInjective(mNvPendingSavesQueue)
    /\ Len(mNvPendingSavesQueue) <= gNvPendingSavesQueueSize_c
    /\ mNvModuleInitialized \in BOOLEAN
    /\ mNvCriticalSectionFlag \in 0 .. MAX_CRITICAL
    /\ ram \in [Entry -> Value]
    /\ boot \in {"off", "NvModuleInit", "ok"}
    /\ requested \subseteq Entry
    /\ losses \in 0 .. MAX_LOSS /\ criticals \in 0 .. MAX_CRITICAL

Formatting == \E k \in DOMAIN todo : todo[k].op = "formatted"

Abstract == INSTANCE NvDataSets WITH formatting <- Formatting

(* At every erase and program command, and whenever power fails in one, what a
   restart would find changes by the one data set whose meta is completed; page
   copies, erases and the format of an empty storage change nothing. *)
ImplementsDataSets == Abstract!Spec

(* What is known in RAM (active page, last meta) gives the same values as a
   restart would, so a value read back does not change by a reset. *)
WarmEqualsCold ==
    mNvModuleInitialized /\ todo = << >> =>
        \A e \in Entry :
            NvRestoreData(flash, mNvActivePageId, NvLastMetaInfoAddress[mNvActivePageId], e) = stored[e]

(* The flash controller programs a cell once between erases: NvWriteRecord and
   NvCopyPage never program a cell that is not blank, whatever power failures left. *)
ProgramsBlankCells ==
    Running("program") =>
        LET o == Head(todo) IN
        \A k \in DOMAIN o.cells : flash[o.page][o.address + k - 1] = BLANK

(* The page to erase is the old page, never the active one (NvCopyPage: "make a
   request to erase the old page"). *)
EraseSparesActive ==
    todo = << >> /\ mNvErasePgCmdStatus.pending => mNvErasePgCmdStatus.page # mNvActivePageId

(* An idle save that was accepted is queued, or the call that runs is about to
   make it, until its record is written. *)
RequestsKept ==
    \A e \in requested :
        \/ {e, ALL} \intersect ToSet(mNvPendingSavesQueue) # {}
        \/ \E k \in DOMAIN todo : \/ todo[k].op = "NvAtomicSave"
                                  \/ todo[k].op = "NvSyncSave" /\ e \in todo[k].entry .. todo[k].last
                                  \/ todo[k].op \in {"NvAddSaveRequestToQueue", "NvWriteRecord", "written", "erase old page"}
                                        /\ todo[k].entry = e
                                  \/ todo[k].op = "formatted"

(* A record fits after the page was copied: the second attempt of a save is the
   last one, and a call never fails for lack of room. *)
FitsAfterCopy ==
    Running("NvWriteRecord") /\ Head(todo).by \in {"again", "after copy"} =>
        ~mNvCopyOperationIsPending /\ Room(Head(todo).entry) # {}

(* "one extra meta info space must be kept always free, to be able to perform the
   meta info search": a restart finds the last meta of a page before a blank cell. *)
MetaSpaceKept ==
    \A p \in Page : Valid(flash, p) => \E a \in FirstMeta .. Bottom - 1 : flash[p][a] = BLANK

(* "gNVM_OK_c - module was successfully initialized". *)
OkMeansInitialised == boot = "ok" => mNvModuleInitialized

(* "The function waits for all idle saves to be processed": NvShutdown returns. *)
ShutdownReturns == Running("NvShutdown") ~> ~Running("NvShutdown")

(* "Save the data pointed by ptrData on the next call to NvIdle": an accepted
   idle save gets written, unless power fails or the storage is formatted. *)
RequestsServed == \A e \in Entry : e \in requested ~> e \notin requested
=============================================================================
