-------------------------- MODULE NvStorageProofs --------------------------
(***************************************************************************)
(* Proofs about the pages of the non-volatile storage, for every table of  *)
(* data sets, every size of the pages and any number of power failures, as *)
(* long as a storage is not formatted while an erase is pending.           *)
(***************************************************************************)
EXTENDS NvStorage, FiniteSetTheorems, SequenceTheorems, WellFoundedInduction, TLAPS

NoFormatWhileErasing == "format while erasing" \notin Circumstances

-----------------------------------------------------------------------------
(* What a page and the flash look like.                                    *)
Size(e) == pNVM_DataTable[e]
CellValue == {BLANK, TORN} \union [kind : {"counter"}, n : Nat] \union [kind : {"meta"}, entry : Entry, offset : Nat]
                           \union [kind : {"data"}, entry : Entry, v : Value]

(* A meta describes a record between it and the end of the page.           *)
MetaOk(c, a) == Is(c, "meta") => c.entry \in Entry /\ c.offset \in a + 1 .. Bottom - Size(c.entry)
FlashTypes(f) == f \in [Page -> [Cell -> CellValue]] /\ \A p \in Page, a \in Cell : MetaOk(f[p][a], a)

(* The value v of the data set e is at the address a.                      *)
Holds(g, e, v, a) == \A k \in 1 .. Size(e) : g[a + k - 1] = Data(e, v)[k]

(* The start of the last record.                                           *)
Edge(g, last) == IF last = 0 THEN Bottom ELSE g[last].offset

(* Page g with its last meta at last: no cell is blank up to there, and    *)
(* the complete records are above the metas and in reverse order.          *)
PageOk(g, last) ==
    /\ last \in 0 .. Bottom - 1
    /\ last # 0 => Is(g[last], "meta")
    /\ \A a \in FirstMeta .. Bottom - 1 : Is(g[a], "meta") => a <= last
    /\ \A a \in FirstMeta .. last : g[a] # BLANK
    /\ \A a \in FirstMeta .. last : Is(g[a], "meta") =>
          /\ g[a].offset > last
          /\ \E v \in Value : Holds(g, g[a].entry, v, g[a].offset)
    /\ \A a, b \in FirstMeta .. last : a < b /\ Is(g[a], "meta") /\ Is(g[b], "meta") =>
          g[b].offset + Size(g[b].entry) <= g[a].offset

NoMetas(g) == \A a \in FirstMeta .. Bottom - 1 : ~Is(g[a], "meta")

(* Every valid page is well formed; the counters tell the newer one, and   *)
(* an older page is empty if the newer one is.                             *)
FlashOk(f) ==
    /\ \A p \in Page : Valid(f, p) => \E last \in 0 .. Bottom - 1 : PageOk(f[p], last)
    /\ \A p, q \in Page : p # q /\ Valid(f, p) /\ Valid(f, q) =>
          /\ f[p][0].n # f[q][0].n
          /\ f[p][0].n > f[q][0].n /\ NoMetas(f[p]) => NoMetas(f[q])

(* The RAM copy of what is in the flash: the active page is the newer one  *)
(* and last is its last meta.                                              *)
RamOk(last) ==
    /\ mNvModuleInitialized /\ mNvActivePageId \in Page
    /\ Valid(flash, mNvActivePageId) /\ flash[mNvActivePageId][0] = Counter(mNvPageCounter)
    /\ Valid(flash, OtherPage) => flash[OtherPage][0].n < mNvPageCounter
    /\ PageOk(flash[mNvActivePageId], last)
LastActive == NvLastMetaInfoAddress[mNvActivePageId]

(* The page to erase is the other one, and not valid once it was begun.    *)
EraseOk ==
    mNvErasePgCmdStatus.pending =>
        /\ mNvErasePgCmdStatus.page = OtherPage
        /\ mNvErasePgCmdStatus.sector > 0 => ~Is(flash[OtherPage][0], "counter")
ToErase == /\ mNvErasePgCmdStatus.pending /\ mNvErasePgCmdStatus.sector = 0
           /\ mNvErasePgCmdStatus.page = OtherPage

(* After a page copy any record fits.                                      *)
Fresh ==
    LET g == flash[mNvActivePageId] IN
    /\ \A a \in LastActive + 1 .. Edge(g, LastActive) - 1 : g[a] = BLANK
    /\ \A e \in Entry : Size(e) + 2 < Edge(g, LastActive) - (LastActive + 1)

-----------------------------------------------------------------------------
(* The rest of a call.                                                     *)
Stack(s) == s \in Seq({s[k] : k \in DOMAIN s})
Top(s, name) == s # << >> /\ Head(s).op = name

(* Operations that find the flash at rest.                                 *)
QuietOp ==
    [op : {"NvAtomicSave", "NvProcessFirstSaveInQueue", "NvIdle", "erase sector", "saves",
           "NvCompletePendingOperations", "NvShutdown"}]
      \union [op : {"NvAddSaveRequestToQueue", "NvPushPendingSave"}, entry : Entry \union {ALL}]
      \union [op : {"NvSyncSave"}, entry : Entry, last : Entry]
      \union [op : {"NvWriteRecord"}, entry : Entry, by : {"NvSyncSave", "NvIdle", "NvProcessFirstSaveInQueue"}]
Quiet(s) == Stack(s) /\ \A k \in DOMAIN s : s[k] \in QuietOp

(* The callers of NvCopyPage and of NvInternalFormat.                      *)
Caller(s) ==
    /\ Stack(s)
    /\ \/ Top(s, "copied") /\ Quiet(Tail(s))
       \/ /\ Top(s, "copied") /\ Top(Tail(s), "NvWriteRecord") /\ Head(Tail(s)).by = "after copy"
          /\ Head(Tail(s)).entry \in Entry /\ Quiet(Tail(Tail(s)))
       \/ Top(s, "erase old page") /\ Head(s).entry \in Entry /\ Quiet(Tail(s))
       \/ s = <<Call("return")>>
FormatCaller(s) ==
    \/ mNvModuleInitialized /\ s = <<Call("formatted")>>
    \/ ~mNvModuleInitialized /\ s \in {<<Call("init")>>, <<Call("return")>>}

(* The record of e goes to r and its meta to m.                            *)
Placed(e, r, m) ==
    LET g == flash[mNvActivePageId] IN
    /\ LastActive < m /\ m + 3 <= r /\ r + Size(e) <= Edge(g, LastActive)
    /\ g[m] = BLANK /\ \A a \in LastActive + 1 .. m - 1 : g[a] # BLANK
WrittenCall(e, m) == [op |-> "written", entry |-> e, meta |-> m]

(* The sectors of the page before the one that is erased next are blank.   *)
ErasingFromStart(o, p) ==
    /\ \E s \in 0 .. SECTORS - 1 :
          /\ o = EraseSectors(p, s, SECTORS - 1)
          /\ \A a \in Cell : SectorOf(a) < s => flash[p][a] = BLANK

(* NvInternalCopy went through the metas above src: the records of their   *)
(* data sets are on the other page, up to the meta before dst and down to  *)
(* record; the cells from dst up to free are blank.                        *)
CopiedEntries(dst) == {flash[OtherPage][b].entry : b \in FirstMeta .. dst - 1}
Newest(a) ==
    LET g == flash[mNvActivePageId] IN
    /\ Is(g[a], "meta")
    /\ \A b \in a + 1 .. LastActive : Is(g[b], "meta") => g[b].entry # g[a].entry
CopyOf(b, a) ==
    LET g == flash[mNvActivePageId]
        h == flash[OtherPage]
    IN  /\ g[a].entry = h[b].entry
        /\ \A k \in 1 .. Size(h[b].entry) : h[h[b].offset + k - 1] = g[g[a].offset + k - 1]
CopyOk(src, dst, record, free) ==
    LET g == flash[mNvActivePageId]
        h == flash[OtherPage]
    IN  /\ src \in 0 .. LastActive
        /\ PageOk(h, dst - 1) /\ record = Edge(h, dst - 1)
        /\ \A b \in FirstMeta .. dst - 1 : Is(h[b], "meta") /\ \E a \in src + 1 .. LastActive : Newest(a) /\ CopyOf(b, a)
        /\ \A a \in src + 1 .. LastActive : Is(g[a], "meta") => g[a].entry \in CopiedEntries(dst)
        /\ \A a \in Cell : a = 0 \/ a \in dst .. free - 1 \/ a = Bottom => h[a] = BLANK
        /\ \E used \in [Table -> 0 .. PAGE] :
              Adds(used, CopiedEntries(dst)) /\ record - dst = Bottom - FirstMeta - used[Len(pNVM_DataTable)]

(* The meta at a is the next to copy: the value v of e goes to the address *)
(* to and its meta to dst.                                                 *)
CopyNext(a, dst, to, v, e, free) ==
    LET g == flash[mNvActivePageId] IN
    /\ Newest(a) /\ e = g[a].entry /\ Holds(g, e, v, g[a].offset) /\ e \notin CopiedEntries(dst)
    /\ CopyOk(a, dst, to + Size(e), free) /\ to > dst

(* The page that was copied and the copy.                                  *)
SameData ==
    /\ NoMetas(flash[mNvActivePageId]) <=> NoMetas(flash[OtherPage])
    /\ \A e \in Entry : NvRestoreData(flash, mNvActivePageId, LastActive, e) =
                          NvRestoreData(flash, OtherPage, NvLastMetaInfoAddress[OtherPage], e)
Switched ==
    /\ mNvModuleInitialized /\ mNvActivePageId \in Page
    /\ Valid(flash, OtherPage) /\ flash[OtherPage][0].n < mNvPageCounter
    /\ PageOk(flash[OtherPage], NvLastMetaInfoAddress[OtherPage])
    /\ PageOk(flash[mNvActivePageId], LastActive) /\ Fresh
    /\ flash[mNvActivePageId][Bottom] = BLANK
    /\ SameData /\ ToErase

-----------------------------------------------------------------------------
(* Where a call may be.                                                    *)
AtQuiet ==
    /\ Quiet(todo)
    /\ mNvModuleInitialized => RamOk(LastActive) /\ EraseOk
    /\ ~mNvModuleInitialized => todo \in {<< >>, <<Call("NvIdle")>>, <<Call("NvShutdown")>>}

AtRecord ==
    /\ RamOk(LastActive) /\ EraseOk
    /\ \E e \in Entry, v \in Value, r, m \in Cell :
          /\ Placed(e, r, m) /\ \A k \in 1 .. Size(e) : flash[mNvActivePageId][r + k - 1] = BLANK
          /\ Top(todo, "program") /\ Head(todo) = Program(mNvActivePageId, r, Data(e, v))
          /\ Top(Rest, "program") /\ Head(Rest) = Program(mNvActivePageId, m, <<Meta(e, r)>>)
          /\ Top(Tail(Rest), "written") /\ Head(Tail(Rest)) = WrittenCall(e, m)
          /\ Quiet(Tail(Tail(Rest)))
AtMeta ==
    /\ RamOk(LastActive) /\ EraseOk
    /\ \E e \in Entry, v \in Value, r, m \in Cell :
          /\ Placed(e, r, m) /\ Holds(flash[mNvActivePageId], e, v, r)
          /\ Top(todo, "program") /\ Head(todo) = Program(mNvActivePageId, m, <<Meta(e, r)>>)
          /\ Top(Rest, "written") /\ Head(Rest) = WrittenCall(e, m)
          /\ Quiet(Tail(Rest))
AtWritten ==
    /\ EraseOk
    /\ \E e \in Entry, m \in Cell : /\ RamOk(m)
                                    /\ Top(todo, "written") /\ Head(todo) = WrittenCall(e, m)
    /\ Quiet(Rest)

AtCopyPage == RamOk(LastActive) /\ EraseOk /\ Top(todo, "NvCopyPage") /\ Caller(Rest)
AtCopyErase ==
    /\ RamOk(LastActive) /\ EraseOk
    /\ Top(todo, "erase") /\ ErasingFromStart(Head(todo), OtherPage)
    /\ Top(Rest, "copy records") /\ Head(Rest) = CopyRecords(LastActive, FirstMeta, Bottom)
    /\ Caller(Tail(Rest)) /\ Stack(Rest)
AtCopy ==
    /\ RamOk(LastActive) /\ EraseOk
    /\ Top(todo, "copy records") /\ Caller(Rest)
    /\ \E src, dst, record \in Cell :
          Head(todo) = CopyRecords(src, dst, record) /\ CopyOk(src, dst, record, record)
AtCopyRecord ==
    /\ RamOk(LastActive) /\ EraseOk
    /\ \E a, dst, to \in Cell, v \in Value, e \in Entry :
          /\ CopyNext(a, dst, to, v, e, to + Size(e))
          /\ Top(todo, "program") /\ Head(todo) = Program(OtherPage, to, Data(e, v))
          /\ Top(Rest, "program") /\ Head(Rest) = Program(OtherPage, dst, <<Meta(e, to)>>)
          /\ Top(Tail(Rest), "copy records") /\ Head(Tail(Rest)) = CopyRecords(a - 1, dst + 1, to)
          /\ Caller(Tail(Tail(Rest)))
AtCopyMeta ==
    /\ RamOk(LastActive) /\ EraseOk
    /\ \E a, dst, to \in Cell, v \in Value, e \in Entry :
          /\ CopyNext(a, dst, to, v, e, to) /\ Holds(flash[OtherPage], e, v, to)
          /\ Top(todo, "program") /\ Head(todo) = Program(OtherPage, dst, <<Meta(e, to)>>)
          /\ Top(Rest, "copy records") /\ Head(Rest) = CopyRecords(a - 1, dst + 1, to)
          /\ Caller(Tail(Rest))
AtFirstCounter ==
    /\ Switched /\ flash[mNvActivePageId][0] = BLANK
    /\ Top(todo, "program") /\ Head(todo) = Program(mNvActivePageId, 0, <<Counter(mNvPageCounter)>>)
    /\ Top(Rest, "program") /\ Head(Rest) = Program(mNvActivePageId, Bottom, <<Counter(mNvPageCounter)>>)
    /\ Caller(Tail(Rest))
AtLastCounter ==
    /\ Switched /\ flash[mNvActivePageId][0] = Counter(mNvPageCounter)
    /\ Top(todo, "program") /\ Head(todo) = Program(mNvActivePageId, Bottom, <<Counter(mNvPageCounter)>>)
    /\ Caller(Rest)
AtCopied == RamOk(LastActive) /\ Fresh /\ ToErase /\ Caller(todo)
AtSyncErase ==
    /\ RamOk(LastActive) /\ Fresh /\ ToErase /\ ~mNvCopyOperationIsPending
    /\ Top(todo, "erase") /\ ErasingFromStart(Head(todo), OtherPage)
    /\ Top(Rest, "erased")
    /\ Top(Tail(Rest), "NvWriteRecord") /\ Head(Tail(Rest)).by = "again" /\ Head(Tail(Rest)).entry \in Entry
    /\ Quiet(Tail(Tail(Rest))) /\ Stack(Rest)
AtErased ==
    /\ RamOk(LastActive) /\ Fresh /\ ToErase /\ ~mNvCopyOperationIsPending
    /\ Top(todo, "erased")
    /\ Top(Rest, "NvWriteRecord") /\ Head(Rest).by = "again" /\ Head(Rest).entry \in Entry
    /\ Quiet(Tail(Rest))
AtSecond ==
    /\ RamOk(LastActive) /\ EraseOk /\ Fresh /\ ~mNvCopyOperationIsPending
    /\ Top(todo, "NvWriteRecord") /\ Head(todo).by \in {"again", "after copy"} /\ Head(todo).entry \in Entry
    /\ Quiet(Rest)
AtIdleErase ==
    /\ RamOk(LastActive)
    /\ mNvErasePgCmdStatus.pending /\ mNvErasePgCmdStatus.page = OtherPage
    /\ \E s \in 0 .. SECTORS - 1 :
          /\ mNvErasePgCmdStatus.sector = s + 1
          /\ s > 0 => ~Is(flash[OtherPage][0], "counter")
          /\ Top(todo, "erase") /\ Head(todo) = EraseSectors(OtherPage, s, s)
    /\ Quiet(Rest)

AtFormat ==
    /\ ~mNvErasePgCmdStatus.pending
    /\ Top(todo, "NvInternalFormat") /\ Head(todo).counter \in Nat
    /\ FormatCaller(Rest)
Formatted(f) ==
    NvSaveRamTable(0, mNvPageCounter) \o (<<Call("NvUpdateLastMetaInfoAddress")>> \o f)
AtFormatErase ==
    /\ ~mNvErasePgCmdStatus.pending /\ mNvActivePageId = 0
    /\ \E f \in {<<Call("formatted")>>, <<Call("init")>>, <<Call("return")>>} :
          /\ FormatCaller(f)
          /\ Top(todo, "erase")
          /\ \/ ErasingFromStart(Head(todo), 0) /\ Rest = <<Erase(1)>> \o Formatted(f)
             \/ flash[0] = BlankPage /\ ErasingFromStart(Head(todo), 1) /\ Rest = Formatted(f)
AtFormatCounter ==
    /\ ~mNvErasePgCmdStatus.pending /\ mNvActivePageId = 0 /\ flash[1] = BlankPage
    /\ \E f \in {<<Call("formatted")>>, <<Call("init")>>, <<Call("return")>>} :
          /\ FormatCaller(f)
          /\ \/ flash[0] = BlankPage /\ todo = Formatted(f)
             \/ flash[0] = [BlankPage EXCEPT ![0] = Counter(mNvPageCounter)] /\ todo = Tail(Formatted(f))
FormattedPage == [BlankPage EXCEPT ![0] = Counter(mNvPageCounter), ![Bottom] = Counter(mNvPageCounter)]
AtUpdate ==
    /\ ~mNvErasePgCmdStatus.pending /\ mNvActivePageId = 0
    /\ flash[1] = BlankPage /\ flash[0] = FormattedPage
    /\ Top(todo, "NvUpdateLastMetaInfoAddress") /\ FormatCaller(Rest)
AtFormatted == RamOk(LastActive) /\ EraseOk /\ todo = <<Call("formatted")>>

AtInit ==
    /\ ~mNvModuleInitialized /\ todo = <<Call("init")>>
    /\ mNvActivePageId \in Page
    /\ Valid(flash, mNvActivePageId) /\ flash[mNvActivePageId][0] = Counter(mNvPageCounter)
    /\ Valid(flash, OtherPage) => flash[OtherPage][0].n < mNvPageCounter
AtReturn ==
    /\ todo = <<Call("return")>>
    /\ mNvModuleInitialized => RamOk(LastActive) /\ EraseOk

Phase ==
    \/ AtQuiet
    \/ AtRecord \/ AtMeta \/ AtWritten
    \/ AtCopyPage \/ AtCopyErase \/ AtCopy \/ AtCopyRecord \/ AtCopyMeta \/ AtFirstCounter \/ AtLastCounter
    \/ AtCopied \/ AtSyncErase \/ AtErased \/ AtSecond \/ AtIdleErase
    \/ AtFormat \/ AtFormatErase \/ AtFormatCounter \/ AtUpdate \/ AtFormatted
    \/ AtInit \/ AtReturn

-----------------------------------------------------------------------------
(* Types, without those of the queue.                                      *)
Types ==
    /\ FlashTypes(flash)
    /\ mNvActivePageId \in Page \union {gVirtualPageNone_c} /\ mNvPageCounter \in Nat
    /\ NvLastMetaInfoAddress \in [Page -> 0 .. Bottom - 1]
    /\ mNvCopyOperationIsPending \in BOOLEAN
    /\ mNvErasePgCmdStatus \in [pending : BOOLEAN, page : Page, sector : 0 .. SECTORS]
    /\ mNvPendingSavesQueue \in Seq(Entry \union {ALL})
    /\ mNvModuleInitialized \in BOOLEAN
    /\ mNvCriticalSectionFlag \in Nat
    /\ ram \in [Entry -> Value]
    /\ boot \in {"off", "NvModuleInit", "ok"}

(* Nothing of the RAM is used before the module is initialised.            *)
BootOk ==
    /\ boot = "off" => todo = << >> /\ ~mNvModuleInitialized
    /\ ~mNvModuleInitialized => /\ mNvPendingSavesQueue = << >> /\ requested = {}
                                /\ ~mNvCopyOperationIsPending /\ ~mNvErasePgCmdStatus.pending

(* The inductive invariant.                                                *)
FlashInv == Types /\ FlashOk(flash) /\ stored = Restored(flash) /\ BootOk /\ Phase

-----------------------------------------------------------------------------
(* Stacks of operations.                                                   *)
LEMMA StackTail ==
    ASSUME NEW s, Stack(s), s # << >>
    PROVE  /\ Stack(Tail(s))
           /\ Len(Tail(s)) = Len(s) - 1 /\ Len(s) \in Nat \ {0} /\ Head(s) = s[1]
           /\ \A k \in DOMAIN Tail(s) : k + 1 \in DOMAIN s /\ Tail(s)[k] = s[k + 1]
           /\ DOMAIN s = 1 .. Len(s) /\ DOMAIN Tail(s) = 1 .. Len(Tail(s))
<1> DEFINE S == {s[k] : k \in DOMAIN s}
           t == Tail(s)
<1>1. s \in Seq(S)
  BY DEF Stack
<1>2. t \in Seq(S) /\ Len(t) = Len(s) - 1 /\ \A i \in 1 .. Len(t) : t[i] = s[i + 1]
  BY <1>1, HeadTailProperties
<1>3. Head(s) = s[1]
  BY <1>1, HeadTailProperties
<1>4. Len(s) \in Nat /\ DOMAIN s = 1 .. Len(s) /\ Len(t) \in Nat /\ DOMAIN t = 1 .. Len(t)
  BY <1>1, <1>2, LenProperties
<1>5. Len(s) # 0
  BY <1>1, EmptySeq
<1>6. t \in Seq({t[k] : k \in DOMAIN t})
  <2> HIDE DEF t, S
  <2>1. t \in [1 .. Len(t) -> {t[k] : k \in DOMAIN t}]
    BY <1>2, <1>4, LenProperties
  <2> QED
    BY <2>1, <1>4, SeqDef
<1>7. \A k \in DOMAIN t : k + 1 \in DOMAIN s /\ t[k] = s[k + 1]
  BY <1>2, <1>4
<1>8. Stack(t)
  BY <1>6 DEF Stack
<1> HIDE DEF t
<1> QED
  BY <1>2, <1>3, <1>4, <1>5, <1>7, <1>8 DEF t

LEMMA StackPush ==
    ASSUME NEW q, Stack(q), NEW a
    PROVE  /\ Stack(<<a>> \o q) /\ <<a>> \o q # << >>
           /\ Head(<<a>> \o q) = a /\ Tail(<<a>> \o q) = q
<1> DEFINE s == <<a>> \o q
           S == {q[k] : k \in DOMAIN q} \union {a}
<1>1. q \in Seq({q[k] : k \in DOMAIN q})
  BY DEF Stack
<1>2. q \in Seq(S) /\ <<a>> \in Seq(S)
  <2>1. q \in [1 .. Len(q) -> {q[k] : k \in DOMAIN q}] /\ Len(q) \in Nat
    BY <1>1, LenProperties
  <2>2. q \in [1 .. Len(q) -> S]
    BY <2>1
  <2>3. q \in Seq(S)
    BY <2>1, <2>2, SeqDef
  <2> QED
    BY <2>3
<1>3. /\ s \in Seq(S) /\ Len(s) = 1 + Len(q)
      /\ \A i \in 1 .. 1 + Len(q) : s[i] = IF i <= 1 THEN <<a>>[i] ELSE q[i - 1]
  BY <1>2, ConcatProperties, Len(<<a>>) = 1
<1>4. Len(q) \in Nat /\ DOMAIN q = 1 .. Len(q)
  BY <1>2, LenProperties
<1>5. s # << >>
  BY <1>3, <1>4, EmptySeq
<1>6. Head(s) = s[1] /\ Tail(s) \in Seq(S) /\ Len(Tail(s)) = Len(s) - 1
      /\ \A i \in 1 .. Len(Tail(s)) : Tail(s)[i] = s[i + 1]
  BY <1>3, <1>5, HeadTailProperties
<1>7. s[1] = a
  BY <1>3, <1>4
<1>8. Tail(s) = q
  <2>1. Len(Tail(s)) = Len(q)
    BY <1>3, <1>4, <1>6
  <2>2. \A i \in 1 .. Len(q) : Tail(s)[i] = q[i]
    BY <2>1, <1>3, <1>4, <1>6
  <2> HIDE DEF s, S
  <2> QED
    BY <2>1, <2>2, <1>2, <1>6, SeqEqual
<1>9. Stack(s)
  <2> HIDE DEF s
  <2>1. Len(s) \in Nat /\ DOMAIN s = 1 .. Len(s) /\ s \in [1 .. Len(s) -> {s[k] : k \in DOMAIN s}]
    BY <1>3, LenProperties
  <2> QED
    BY <2>1, SeqDef DEF Stack
<1> QED
  BY <1>5, <1>6, <1>7, <1>8, <1>9

LEMMA StackEmpty == Stack(<< >>) /\ \A a : Head(<<a>>) = a /\ Tail(<<a>>) = << >>
<1>1. << >> \in Seq({<< >>[k] : k \in DOMAIN << >>})
  BY EmptySeq
<1> QED
  BY <1>1 DEF Stack

(* A stack is what one element leaves of it.                               *)
LEMMA StackAgain ==
    ASSUME NEW q, Stack(q)
    PROVE  << >> \o q = q
<1> DEFINE S == {q[k] : k \in DOMAIN q}
<1>1. q \in Seq(S)
  BY DEF Stack
<1> HIDE DEF S
<1> QED
  BY <1>1, ConcatEmptySeq

(* Operations that are pushed one after the other.                        *)
LEMMA StackPair ==
    ASSUME NEW a, NEW b
    PROVE  <<a>> \o <<b>> = <<a, b>> /\ <<a>> \o << >> = <<a>>
<1> DEFINE S == {a, b}
<1>1. <<a>> \in Seq(S) /\ <<b>> \in Seq(S) /\ <<a, b>> \in Seq(S)
  OBVIOUS
<1>2. <<a>> \o << >> = <<a>>
  BY <1>1, ConcatEmptySeq, Zenon
<1>3. <<a>> \o <<b>> = <<a, b>>
  <2>2. PICK s, t, u : s = <<a>> \o <<b>> /\ t = <<a>> /\ u = <<b>>
    OBVIOUS
  <2>3. Len(t) = 1 /\ Len(u) = 1 /\ t[1] = a /\ u[1] = b
    BY <2>2
  <2>4. s \in Seq(S) /\ Len(s) = 2 /\ s[1] = a /\ s[2] = b
    BY <1>1, <2>2, <2>3, ConcatProperties
  <2>5. PICK w : w = <<a, b>>
    OBVIOUS
  <2>6. w \in Seq(S) /\ Len(w) = 2 /\ w[1] = a /\ w[2] = b
    BY <2>5
  <2>7. \A i \in 1 .. Len(s) : s[i] = w[i]
    BY <2>4, <2>6
  <2>8. s = w
    BY <2>4, <2>6, <2>7, SeqEqual
  <2> QED
    BY <2>2, <2>5, <2>8
<1> QED
  BY <1>2, <1>3

LEMMA StackPush2 ==
    ASSUME NEW q, Stack(q), NEW a, NEW b
    PROVE  <<a, b>> \o q = <<a>> \o (<<b>> \o q)
<1> DEFINE S == {q[k] : k \in DOMAIN q} \union {a, b}
<1>1. q \in Seq(S)
  <2>1. q \in Seq({q[k] : k \in DOMAIN q})
    BY DEF Stack
  <2>2. q \in [1 .. Len(q) -> {q[k] : k \in DOMAIN q}] /\ Len(q) \in Nat
    BY <2>1, LenProperties
  <2>3. q \in [1 .. Len(q) -> S]
    BY <2>2
  <2> QED
    BY <2>2, <2>3, SeqDef
<1>2. <<a>> \in Seq(S) /\ <<b>> \in Seq(S) /\ <<a, b>> \in Seq(S)
  OBVIOUS
<1>3. <<a>> \o <<b>> = <<a, b>>
  BY StackPair, Zenon
<1> HIDE DEF S
<1>4. (<<a>> \o <<b>>) \o q = <<a>> \o (<<b>> \o q)
  <2>1. \A s, t, u \in Seq(S) : (s \o t) \o u = s \o (t \o u)
    BY ConcatAssociative
  <2> QED
    BY <1>1, <1>2, <2>1, Zenon
<1> QED
  BY <1>3, <1>4, Zenon
(* One call.                                                               *)
LEMMA StackOne ==
    ASSUME NEW x
    PROVE  Stack(<<x>>) /\ <<x>> # << >> /\ Head(<<x>>) = x /\ Tail(<<x>>) = << >>
<1>1. <<x>> \in Seq({<<x>>[k] : k \in DOMAIN <<x>>})
  OBVIOUS
<1> QED
  BY <1>1, StackEmpty DEF Stack
LEMMA StackCall ==
    ASSUME NEW name
    PROVE  /\ Stack(<<Call(name)>>) /\ <<Call(name)>> # << >> /\ Head(<<Call(name)>>) = Call(name)
           /\ Tail(<<Call(name)>>) = << >> /\ Head(<<Call(name)>>).op = name
<1>1. Call(name).op = name
  BY DEF Call
<1>2. PICK x : x = Call(name)
  OBVIOUS
<1>3. Stack(<<x>>) /\ <<x>> # << >> /\ Head(<<x>>) = x /\ Tail(<<x>>) = << >>
  BY StackOne
<1> QED
  BY <1>1, <1>2, <1>3, Zenon

LEMMA QuietTail ==
    ASSUME NEW s, Quiet(s), s # << >>
    PROVE  Quiet(Tail(s)) /\ Head(s) \in QuietOp /\ Stack(s)
<1>1. Stack(s) /\ \A k \in DOMAIN s : s[k] \in QuietOp
  BY DEF Quiet
<1>2. /\ Stack(Tail(s)) /\ Head(s) = s[1] /\ 1 \in DOMAIN s
      /\ \A k \in DOMAIN Tail(s) : k + 1 \in DOMAIN s /\ Tail(s)[k] = s[k + 1]
  BY <1>1, StackTail
<1> QED
  BY <1>1, <1>2, Zenon DEF Quiet

LEMMA QuietPush ==
    ASSUME NEW q, Quiet(q), NEW a \in QuietOp
    PROVE  Quiet(<<a>> \o q)
<1> DEFINE s == <<a>> \o q
<1>1. Stack(q) /\ \A k \in DOMAIN q : q[k] \in QuietOp
  BY DEF Quiet
<1>2. Stack(s) /\ s # << >> /\ Head(s) = a /\ Tail(s) = q
  BY <1>1, StackPush
<1> HIDE DEF s
<1>3. /\ Head(s) = s[1] /\ DOMAIN s = 1 .. Len(s) /\ DOMAIN q = 1 .. Len(q) /\ Len(q) = Len(s) - 1 /\ Len(s) \in Nat
      /\ \A k \in DOMAIN q : q[k] = s[k + 1]
  BY <1>2, StackTail
<1>4. ASSUME NEW k \in DOMAIN s PROVE s[k] \in QuietOp
  <2>1. CASE k = 1
    BY <2>1, <1>2, <1>3
  <2>2. CASE k # 1
    <3>1. k - 1 \in DOMAIN q /\ (k - 1) + 1 = k
      BY <2>2, <1>3
    <3> QED
      BY <3>1, <1>1, <1>3
  <2> QED
    BY <2>1, <2>2
<1> QED
  BY <1>2, <1>4 DEF Quiet, s

LEMMA QuietEmpty == Quiet(<< >>)
BY StackEmpty DEF Quiet

LEMMA QuietWithout ==
    ASSUME NEW s, Quiet(s), NEW name
    PROVE  Quiet(Without(s, name))
BY QuietTail DEF Without

QuietNames ==
    {"NvAtomicSave", "NvProcessFirstSaveInQueue", "NvIdle", "erase sector", "saves",
     "NvCompletePendingOperations", "NvShutdown", "NvAddSaveRequestToQueue", "NvPushPendingSave",
     "NvSyncSave", "NvWriteRecord"}
LEMMA QuietOpNames == \A o \in QuietOp : o.op \in QuietNames
BY DEF QuietOp, QuietNames

LEMMA FormattedStack ==
    ASSUME NEW x
    PROVE  /\ Stack(Formatted(<<x>>)) /\ Formatted(<<x>>) # << >> 
           /\ Head(Formatted(<<x>>)) = Program(0, 0, <<Counter(mNvPageCounter)>>)
           /\ Tail(Formatted(<<x>>)) # << >> /\ Stack(Tail(Formatted(<<x>>)))
           /\ Head(Tail(Formatted(<<x>>))) = Program(0, Bottom, <<Counter(mNvPageCounter)>>)
           /\ LET u == Tail(Tail(Formatted(<<x>>))) IN
              u # << >> /\ Head(u) = Call("NvUpdateLastMetaInfoAddress") /\ Tail(u) = <<x>> /\ Stack(u)
<1> DEFINE c == Program(0, 0, <<Counter(mNvPageCounter)>>)
           d == Program(0, Bottom, <<Counter(mNvPageCounter)>>)
           e == Call("NvUpdateLastMetaInfoAddress")
<1>1. Formatted(<<x>>) = <<c, d>> \o (<<e>> \o <<x>>)
  BY Zenon DEF Formatted, NvSaveRamTable
<1> HIDE DEF c, d, e
<1>2. Stack(<<x>>)
  BY StackOne
<1>3. Formatted(<<x>>) = <<c>> \o (<<d>> \o (<<e>> \o <<x>>))
  <2>1. \A t : Stack(t) => \A k, l : <<k, l>> \o t = <<k>> \o (<<l>> \o t)
    BY StackPush2
  <2>2. Stack(<<e>> \o <<x>>)
    BY <1>2, StackPush
  <2> QED
    BY <1>1, <2>1, <2>2, Zenon
<1>4. PICK u : u = <<e>> \o <<x>>
  OBVIOUS
<1>5. Stack(u) /\ u # << >> /\ Head(u) = e /\ Tail(u) = <<x>>
  BY <1>2, <1>4, StackPush
<1>6. PICK t : t = <<d>> \o u
  OBVIOUS
<1>7. Stack(t) /\ t # << >> /\ Head(t) = d /\ Tail(t) = u
  BY <1>5, <1>6, StackPush
<1>8. PICK s : s = <<c>> \o t
  OBVIOUS
<1>9. Stack(s) /\ s # << >> /\ Head(s) = c /\ Tail(s) = t
  BY <1>7, <1>8, StackPush
<1>10. Formatted(<<x>>) = s
  BY <1>3, <1>4, <1>6, <1>8, Zenon
<1> QED
  BY <1>5, <1>7, <1>9, <1>10, Zenon DEF c, d, e

(* The operation that runs tells where the call is.                        *)
LEMMA PhaseOf ==
    ASSUME Phase
    PROVE  \/ AtQuiet /\ (todo = << >> \/ Head(todo).op \in QuietNames)
           \/ /\ todo # << >>
              /\ \/ Head(todo).op = "program" /\ (AtRecord \/ AtMeta \/ AtCopyRecord \/ AtCopyMeta \/ AtFirstCounter
                                                    \/ AtLastCounter \/ AtFormatCounter)
                 \/ Head(todo).op = "erase" /\ (AtCopyErase \/ AtSyncErase \/ AtIdleErase \/ AtFormatErase)
                 \/ Head(todo).op = "written" /\ AtWritten
                 \/ Head(todo).op = "NvCopyPage" /\ AtCopyPage
                 \/ Head(todo).op = "copy records" /\ AtCopy
                 \/ Head(todo).op \in {"copied", "erase old page", "return"} /\ AtCopied
                 \/ Head(todo).op = "erased" /\ AtErased
                 \/ Head(todo).op = "NvWriteRecord" /\ AtSecond
                 \/ Head(todo).op = "NvInternalFormat" /\ AtFormat
                 \/ Head(todo).op = "NvUpdateLastMetaInfoAddress" /\ AtUpdate
                 \/ Head(todo).op = "formatted" /\ AtFormatted
                 \/ Head(todo).op = "init" /\ AtInit
                 \/ Head(todo).op = "return" /\ AtReturn
<1>1. CASE AtQuiet
  BY <1>1, QuietTail, QuietOpNames DEF AtQuiet
<1>2. CASE AtRecord \/ AtMeta \/ AtWritten
  BY <1>2 DEF AtRecord, AtMeta, AtWritten, Top
<1>3. CASE AtCopyRecord \/ AtCopyMeta
  BY <1>3 DEF AtCopyRecord, AtCopyMeta, Top
<1>4. CASE AtFirstCounter \/ AtLastCounter
  BY <1>4 DEF AtFirstCounter, AtLastCounter, Top
<1>5. CASE AtFormatCounter
  <2>1. PICK x : todo = Formatted(<<x>>) \/ todo = Tail(Formatted(<<x>>))
    BY <1>5 DEF AtFormatCounter
  <2>2. todo # << >> /\ \E p, a, c : Head(todo) = Program(p, a, c)
    BY <2>1, FormattedStack, Zenon
  <2>3. todo # << >> /\ Head(todo).op = "program"
    BY <2>2 DEF Program
  <2> QED
    BY <1>5, <2>3, Zenon
<1>6. CASE AtCopyPage \/ AtCopyErase \/ AtCopy
  BY <1>6 DEF AtCopyPage, AtCopyErase, AtCopy, Top
<1>7. CASE AtCopied
  <2>1. \/ todo # << >> /\ Head(todo).op \in {"copied", "erase old page"}
        \/ todo = <<Call("return")>>
    BY <1>7 DEF AtCopied, Caller, Top
  <2>2. todo # << >> /\ Head(todo).op \in {"copied", "erase old page", "return"}
    BY <2>1, StackCall
  <2> QED
    BY <1>7, <2>2, Zenon
<1>8. CASE AtSyncErase \/ AtErased \/ AtSecond \/ AtIdleErase
  BY <1>8 DEF AtSyncErase, AtErased, AtSecond, AtIdleErase, Top
<1>9. CASE AtFormat \/ AtFormatErase \/ AtUpdate
  BY <1>9 DEF AtFormat, AtFormatErase, AtUpdate, Top
<1>10. CASE AtFormatted \/ AtInit \/ AtReturn
  <2>1. /\ AtFormatted => todo = <<Call("formatted")>>
        /\ AtInit => todo = <<Call("init")>>
        /\ AtReturn => todo = <<Call("return")>>
    BY DEF AtFormatted, AtInit, AtReturn
  <2> QED
    BY <1>10, <2>1, StackCall, Zenon
<1> QED
  BY <1>1, <1>2, <1>3, <1>4, <1>5, <1>6, <1>7, <1>8, <1>9, <1>10, Zenon DEF Phase

-----------------------------------------------------------------------------
(* Sizes, cells and pages.                                                 *)
LEMMA LeastNat ==
    ASSUME NEW T, T \subseteq Nat, T # {}
    PROVE  \E m \in T : \A k \in T : m <= k
<1> DEFINE R == {x \in Nat \X Nat : x[1] < x[2]}
<1>1. IsWellFoundedOn(R, Nat)
  BY NatLessThanWellFounded, Zenon DEF OpToRel
<1>2. \A k, m \in Nat : k < m => <<k, m>> \in R
  OBVIOUS
<1> HIDE DEF R
<1>3. PICK m \in T : \A k \in T : ~(<<k, m>> \in R)
  BY <1>1, WFMin
<1>4. \A k \in T : ~(k < m)
  BY <1>2, <1>3, Zenon
<1> QED
  BY <1>4

LEMMA Sizes ==
    /\ Len(pNVM_DataTable) \in Nat \ {0} /\ Entry = 1 .. Len(pNVM_DataTable)
    /\ \A e \in Entry : Size(e) \in Nat \ {0} /\ Size(e) + 4 < PAGE
    /\ PAGE \in Nat /\ Bottom \in Nat /\ Bottom = PAGE - 1 /\ 4 < Bottom
<1>1. /\ Len(pNVM_DataTable) \in Nat \ {0} /\ Entry = 1 .. Len(pNVM_DataTable)
      /\ \A e \in Entry : Size(e) \in Nat \ {0}
  BY NvStorageAssumption, LenProperties, EmptySeq DEF Entry, Size
<1>2. PAGE \in Nat
  BY NvStorageAssumption
<1>3. PICK used \in [Table -> 0 .. PAGE] :
          \A e \in Entry : used[Len(pNVM_DataTable)] + pNVM_DataTable[e] + 2 < PAGE - 2
  BY NvStorageAssumption
<1>4. used[Len(pNVM_DataTable)] \in 0 .. PAGE
  BY <1>1, <1>3 DEF Table
<1>5. \A e \in Entry : Size(e) + 4 < PAGE
  BY <1>1, <1>2, <1>3, <1>4 DEF Size
<1>6. 1 \in Entry
  BY <1>1
<1> QED
  BY <1>1, <1>2, <1>5, <1>6 DEF Bottom

(* Counters, metas, data, blank and torn cells are told apart.             *)
LEMMA CellFacts ==
    /\ BLANK \in CellValue /\ TORN \in CellValue
    /\ \A k : ~Is(BLANK, k) /\ ~Is(TORN, k)
    /\ \A n \in Nat : /\ Counter(n) \in CellValue /\ Counter(n) \notin {BLANK, TORN}
                      /\ Is(Counter(n), "counter") /\ ~Is(Counter(n), "meta") /\ Counter(n).n = n
    /\ \A e \in Entry, a \in Nat :
          /\ Meta(e, a) \in CellValue /\ Meta(e, a) \notin {BLANK, TORN}
          /\ Is(Meta(e, a), "meta") /\ ~Is(Meta(e, a), "counter")
          /\ Meta(e, a).entry = e /\ Meta(e, a).offset = a
    /\ \A e \in Entry, v \in Value : \A k \in 1 .. Size(e) :
          Data(e, v)[k] \in CellValue /\ ~Is(Data(e, v)[k], "meta") /\ ~Is(Data(e, v)[k], "counter")
    /\ \A c \in CellValue : /\ Is(c, "counter") => c.n \in Nat /\ c = Counter(c.n) /\ ~Is(c, "meta")
                            /\ Is(c, "meta") => c.entry \in Entry /\ c.offset \in Nat /\ c = Meta(c.entry, c.offset)
<1> DEFINE C == [kind : {"counter"}, n : Nat]
           M == [kind : {"meta"}, entry : Entry, offset : Nat]
           D == [kind : {"data"}, entry : Entry, v : Value]
<1>1. /\ BLANK \notin C /\ BLANK \notin M /\ BLANK \notin D
      /\ TORN \notin C /\ TORN \notin M /\ TORN \notin D
  BY NvStorageAssumption
<1>2. CellValue = {BLANK, TORN} \union C \union M \union D
  BY DEF CellValue
<1>3. \A k : ~Is(BLANK, k) /\ ~Is(TORN, k)
  BY DEF Is
<1>4. ASSUME NEW n \in Nat
      PROVE  /\ Counter(n) \in CellValue /\ Counter(n) \notin {BLANK, TORN}
             /\ Is(Counter(n), "counter") /\ ~Is(Counter(n), "meta") /\ Counter(n).n = n
  <2>1. Counter(n) \in C /\ Counter(n).kind = "counter" /\ Counter(n).n = n
    BY DEF Counter
  <2> HIDE DEF C, M, D
  <2> QED
    BY <1>1, <1>2, <2>1 DEF Is
<1>5. ASSUME NEW e \in Entry, NEW a \in Nat
      PROVE  /\ Meta(e, a) \in CellValue /\ Meta(e, a) \notin {BLANK, TORN}
             /\ Is(Meta(e, a), "meta") /\ ~Is(Meta(e, a), "counter")
             /\ Meta(e, a).entry = e /\ Meta(e, a).offset = a
  <2>1. Meta(e, a) \in M /\ Meta(e, a).kind = "meta" /\ Meta(e, a).entry = e /\ Meta(e, a).offset = a
    BY DEF Meta
  <2> HIDE DEF C, M, D
  <2> QED
    BY <1>1, <1>2, <2>1 DEF Is
<1>6. ASSUME NEW e \in Entry, NEW v \in Value, NEW k \in 1 .. Size(e)
      PROVE  Data(e, v)[k] \in CellValue /\ ~Is(Data(e, v)[k], "meta") /\ ~Is(Data(e, v)[k], "counter")
  <2>1. Data(e, v)[k] = IF v = BLANK THEN BLANK ELSE [kind |-> "data", entry |-> e, v |-> v]
    BY DEF Data, Size
  <2>2. PICK d : d = [kind |-> "data", entry |-> e, v |-> v]
    OBVIOUS
  <2>3. d \in D /\ d.kind = "data"
    BY <2>2
  <2> HIDE DEF C, M, D
  <2> QED
    BY <1>2, <1>3, <2>1, <2>2, <2>3 DEF Is
<1>7. ASSUME NEW c \in CellValue, Is(c, "counter")
      PROVE  c.n \in Nat /\ c = Counter(c.n) /\ ~Is(c, "meta")
  <2>1. c \notin {BLANK, TORN} /\ c.kind = "counter"
    BY <1>7 DEF Is
  <2>2. c \in C
    BY <1>2, <2>1
  <2> QED
    BY <2>1, <2>2 DEF Counter, Is
<1>8. ASSUME NEW c \in CellValue, Is(c, "meta")
      PROVE  c.entry \in Entry /\ c.offset \in Nat /\ c = Meta(c.entry, c.offset)
  <2>1. c \notin {BLANK, TORN} /\ c.kind = "meta"
    BY <1>8 DEF Is
  <2>2. c \in M
    BY <1>2, <2>1
  <2> QED
    BY <2>1, <2>2 DEF Meta
<1> QED
  BY <1>2, <1>3, <1>4, <1>5, <1>6, <1>7, <1>8

(* A record tells its value.                                               *)
LEMMA DataInjective ==
    ASSUME NEW e \in Entry, NEW v \in Value, NEW w \in Value, Data(e, v)[1] = Data(e, w)[1]
    PROVE  v = w
<1> DEFINE d(x) == [kind |-> "data", entry |-> e, v |-> x]
<1>1. \A x \in Value : Data(e, x)[1] = IF x = BLANK THEN BLANK ELSE d(x)
  BY Sizes DEF Data, Size
<1>2. \A x \in Value : d(x) # BLANK /\ d(x).v = x
  BY NvStorageAssumption
<1> HIDE DEF d
<1> QED
  BY <1>1, <1>2

-----------------------------------------------------------------------------
PageOfCells == [Cell -> CellValue]
MetasOk(g) == \A a \in Cell : MetaOk(g[a], a)

(* The records described by a page lie between the last one and the end.   *)
LEMMA EdgeFacts ==
    ASSUME NEW g \in PageOfCells, MetasOk(g), NEW last, PageOk(g, last)
    PROVE  /\ Edge(g, last) \in last + 1 .. Bottom
           /\ \A a \in FirstMeta .. last : Is(g[a], "meta") =>
                 /\ a \in Cell /\ g[a].entry \in Entry
                 /\ g[a].offset \in Edge(g, last) .. Bottom /\ g[a].offset + Size(g[a].entry) <= Bottom
                 /\ last # 0
<1>1. last \in 0 .. Bottom - 1 /\ Bottom \in Nat
  BY Sizes DEF PageOk
<1>2. ASSUME NEW a \in FirstMeta .. last, Is(g[a], "meta")
      PROVE  /\ a \in Cell /\ g[a].entry \in Entry /\ g[a].offset > last
             /\ g[a].offset \in Nat /\ g[a].offset + Size(g[a].entry) <= Bottom
  <2>1. a \in Cell /\ a \in Nat
    BY <1>1, Sizes DEF FirstMeta, Cell, Bottom
  <2>2. MetaOk(g[a], a)
    BY <2>1 DEF MetasOk
  <2>3. g[a].entry \in Entry /\ g[a].offset \in a + 1 .. Bottom - Size(g[a].entry)
    BY <1>2, <2>2 DEF MetaOk
  <2>4. Size(g[a].entry) \in Nat
    BY <2>3, Sizes
  <2> QED
    BY <1>1, <1>2, <2>1, <2>3, <2>4 DEF PageOk
<1>3. CASE last = 0
  BY <1>1, <1>3 DEF Edge, FirstMeta
<1>4. CASE last # 0
  <2>1. last \in FirstMeta .. last /\ Is(g[last], "meta") /\ Edge(g, last) = g[last].offset
    BY <1>1, <1>4 DEF PageOk, FirstMeta, Edge
  <2>2. Edge(g, last) \in last + 1 .. Bottom
    BY <1>1, <1>2, <2>1, Sizes, SMTT(30)
  <2>3. ASSUME NEW a \in FirstMeta .. last, Is(g[a], "meta")
        PROVE  g[last].offset <= g[a].offset
    <3>1. CASE a = last
      BY <3>1, <1>2, <2>1
    <3>2. CASE a # last
      <4>1. g[last].offset + Size(g[last].entry) <= g[a].offset
        BY <2>1, <2>3, <3>2, <1>1 DEF PageOk, FirstMeta
      <4> QED
        BY <4>1, <1>2, <2>1, <2>3, Sizes, SMTT(30)
    <3> QED
      BY <3>1, <3>2
  <2> QED
    BY <1>1, <1>2, <1>4, <2>1, <2>2, <2>3, Sizes
<1> QED
  BY <1>3, <1>4

(* Cells between the metas and the records may be written and erased.      *)
LEMMA BetweenKeepsPage ==
    ASSUME NEW g \in PageOfCells, MetasOk(g), NEW last, PageOk(g, last),
           NEW h, \A a \in Cell : a \in FirstMeta .. last \/ a \in Edge(g, last) .. Bottom - 1 => h[a] = g[a],
           \A a \in last + 1 .. Edge(g, last) - 1 : ~Is(h[a], "meta")
    PROVE  PageOk(h, last) /\ Edge(h, last) = Edge(g, last)
<1>1. last \in 0 .. Bottom - 1 /\ Bottom \in Nat /\ FirstMeta = 1 /\ Cell = 0 .. Bottom
  BY Sizes DEF PageOk, FirstMeta, Cell, Bottom
<1>2. Edge(g, last) \in last + 1 .. Bottom
  BY EdgeFacts
<1>3. \A a \in FirstMeta .. last : h[a] = g[a]
  BY <1>1
<1>4. last # 0 => h[last] = g[last]
  BY <1>1, <1>3
<1>5. last # 0 => Is(h[last], "meta")
  BY <1>4 DEF PageOk
<1>6. Edge(h, last) = Edge(g, last)
  BY <1>4 DEF Edge
<1>7. ASSUME NEW a \in FirstMeta .. Bottom - 1, Is(h[a], "meta") PROVE a <= last
  <2>1. CASE a \in last + 1 .. Edge(g, last) - 1
    BY <1>7, <2>1
  <2>2. CASE a \in Edge(g, last) .. Bottom - 1
    <3>1. h[a] = g[a]
      BY <1>1, <1>2, <2>2
    <3> QED
      BY <1>7, <3>1 DEF PageOk
  <2> QED
    BY <1>1, <1>2, <2>1, <2>2
<1>8. \A a \in FirstMeta .. last : h[a] # BLANK
  BY <1>3 DEF PageOk
<1>9. ASSUME NEW a \in FirstMeta .. last, Is(h[a], "meta")
      PROVE  h[a].offset > last /\ \E v \in Value : Holds(h, h[a].entry, v, h[a].offset)
  <2>1. h[a] = g[a] /\ Is(g[a], "meta")
    BY <1>3, <1>9
  <2>2. PICK v \in Value : Holds(g, g[a].entry, v, g[a].offset)
    BY <2>1 DEF PageOk
  <2>3. /\ g[a].entry \in Entry /\ g[a].offset \in Edge(g, last) .. Bottom
        /\ g[a].offset + Size(g[a].entry) <= Bottom
    BY <2>1, EdgeFacts
  <2>4. ASSUME NEW k \in 1 .. Size(g[a].entry) PROVE h[g[a].offset + k - 1] = g[g[a].offset + k - 1]
    <3>1. Size(g[a].entry) \in Nat
      BY <2>3, Sizes
    <3>2. g[a].offset + k - 1 \in Edge(g, last) .. Bottom - 1
      BY <1>1, <1>2, <2>3, <3>1
    <3> QED
      BY <3>2, <1>1, <1>2
  <2>5. Holds(h, g[a].entry, v, g[a].offset)
    BY <2>2, <2>4 DEF Holds
  <2> QED
    BY <2>1, <2>5 DEF PageOk
<1>10. ASSUME NEW a \in FirstMeta .. last, NEW b \in FirstMeta .. last, a < b, Is(h[a], "meta"), Is(h[b], "meta")
       PROVE  h[b].offset + Size(h[b].entry) <= h[a].offset
  <2>1. h[a] = g[a] /\ h[b] = g[b]
    BY <1>3
  <2> QED
    BY <1>10, <2>1 DEF PageOk
<1> QED
  BY <1>1, <1>5, <1>6, <1>7, <1>8, <1>9, <1>10 DEF PageOk

(* A meta is added to a page, for a record that is written.                *)
LEMMA NewMeta ==
    ASSUME NEW g \in PageOfCells, MetasOk(g), NEW last, PageOk(g, last),
           NEW e \in Entry, NEW v \in Value, NEW r \in Nat, NEW m \in Nat,
           last < m, m < r, r + Size(e) <= Edge(g, last),
           \A a \in last + 1 .. m - 1 : g[a] # BLANK, Holds(g, e, v, r),
           NEW h, h = [g EXCEPT ![m] = Meta(e, r)]
    PROVE  PageOk(h, m) /\ Edge(h, m) = r /\ m \in Cell
<1>1. /\ last \in 0 .. Bottom - 1 /\ Bottom \in Nat /\ FirstMeta = 1 /\ Cell = 0 .. Bottom
      /\ Size(e) \in Nat \ {0}
  BY Sizes DEF PageOk, FirstMeta, Cell, Bottom
<1>2. Edge(g, last) \in last + 1 .. Bottom
  BY EdgeFacts
<1>3. m \in 1 .. Bottom - 1 /\ m \in Cell
  BY <1>1, <1>2
<1>4. h[m] = Meta(e, r) /\ \A a \in Cell : a # m => h[a] = g[a]
  BY <1>3 DEF PageOfCells
<1>5. Is(h[m], "meta") /\ h[m].entry = e /\ h[m].offset = r /\ h[m] # BLANK
  BY <1>4, CellFacts
<1>6. Edge(h, m) = r
  BY <1>3, <1>5 DEF Edge
<1>7. ASSUME NEW a \in FirstMeta .. Bottom - 1, Is(h[a], "meta") PROVE a <= m
  <2>1. a \in Cell
    BY <1>1
  <2> QED
    BY <1>1, <1>3, <1>4, <1>7, <2>1 DEF PageOk
<1>8. ASSUME NEW a \in FirstMeta .. m PROVE h[a] # BLANK
  <2>1. a \in Cell
    BY <1>1, <1>3
  <2> QED
    BY <1>1, <1>3, <1>4, <1>5, <2>1 DEF PageOk
<1>9. ASSUME NEW a \in FirstMeta .. m, Is(h[a], "meta"), a # m
      PROVE  /\ a \in FirstMeta .. last /\ Is(g[a], "meta") /\ h[a] = g[a]
             /\ g[a].entry \in Entry /\ g[a].offset \in Edge(g, last) .. Bottom
             /\ g[a].offset + Size(g[a].entry) <= Bottom /\ Size(g[a].entry) \in Nat
  <2>1. a \in Cell /\ a \in FirstMeta .. Bottom - 1
    BY <1>1, <1>3
  <2>2. h[a] = g[a] /\ Is(g[a], "meta")
    BY <1>4, <1>9, <2>1
  <2>3. a \in FirstMeta .. last
    BY <1>1, <2>1, <2>2 DEF PageOk
  <2> QED
    BY <2>2, <2>3, EdgeFacts, Sizes
<1>10. ASSUME NEW f \in Entry, NEW w \in Value, NEW o \in m + 1 .. Bottom, o + Size(f) <= Bottom, Holds(g, f, w, o)
       PROVE  Holds(h, f, w, o)
  <2>1. ASSUME NEW k \in 1 .. Size(f) PROVE h[o + k - 1] = g[o + k - 1]
    <3>1. o + k - 1 \in Cell /\ o + k - 1 # m
      BY <1>1, <1>3, <1>10, Sizes
    <3> QED
      BY <3>1, <1>4
  <2> QED
    BY <1>10, <2>1 DEF Holds
<1>11. ASSUME NEW a \in FirstMeta .. m, Is(h[a], "meta")
       PROVE  h[a].offset > m /\ \E w \in Value : Holds(h, h[a].entry, w, h[a].offset)
  <2>1. CASE a = m
    <3>1. r \in m + 1 .. Bottom /\ r + Size(e) <= Bottom
      BY <1>1, <1>2
    <3>2. Holds(h, e, v, r)
      BY <3>1, <1>10
    <3> QED
      BY <2>1, <3>1, <3>2, <1>5
  <2>2. CASE a # m
    <3>1. PICK w \in Value : Holds(g, g[a].entry, w, g[a].offset)
      BY <1>9, <1>11, <2>2 DEF PageOk
    <3>2. g[a].offset \in m + 1 .. Bottom
      BY <1>1, <1>2, <1>9, <1>11, <2>2
    <3>3. Holds(h, g[a].entry, w, g[a].offset)
      BY <3>1, <3>2, <1>9, <1>10, <1>11, <2>2
    <3> QED
      BY <3>2, <3>3, <1>3, <1>9, <1>11, <2>2
  <2> QED
    BY <2>1, <2>2
<1>12. ASSUME NEW a \in FirstMeta .. m, NEW b \in FirstMeta .. m, a < b, Is(h[a], "meta"), Is(h[b], "meta")
       PROVE  h[b].offset + Size(h[b].entry) <= h[a].offset
  <2>1. CASE b = m
    <3>1. a # m
      BY <2>1, <1>12, <1>3
    <3>2. g[a].offset >= Edge(g, last) /\ h[a] = g[a]
      BY <3>1, <1>2, <1>9, <1>12
    <3> QED
      BY <2>1, <3>1, <3>2, <1>1, <1>2, <1>5, <1>9, <1>12
  <2>2. CASE b # m
    <3>1. a # m
      BY <2>2, <1>12, <1>3, <1>1
    <3> QED
      BY <2>2, <3>1, <1>9, <1>12 DEF PageOk
  <2> QED
    BY <2>1, <2>2
<1>13. \A a, b \in FirstMeta .. m : a < b /\ Is(h[a], "meta") /\ Is(h[b], "meta") =>
          h[b].offset + Size(h[b].entry) <= h[a].offset
  BY <1>12
<1>14. m \in 0 .. Bottom - 1
  BY <1>1, <1>3
<1>15. PageOk(h, m)
  BY <1>5, <1>7, <1>8, <1>11, <1>13, <1>14, Zenon DEF PageOk
<1> QED
  BY <1>3, <1>6, <1>15

-----------------------------------------------------------------------------
(* The commands of the flash controller.                                   *)
LEMMA Sectors ==
    /\ SECTORS \in Nat \ {0, 1}
    /\ \A a \in Cell : SectorOf(a) \in 0 .. SECTORS - 1
    /\ 0 \in Cell /\ Bottom \in Cell /\ SectorOf(0) = 0
<1>1. SECTORS \in Nat \ {0, 1} /\ PAGE \in Nat /\ PAGE % SECTORS = 0 /\ PAGE > 0
  BY NvStorageAssumption, Sizes
<1>2. PICK n, m : n = SECTORS /\ m = PAGE
  OBVIOUS
<1>3. PICK q \in Nat : m = n * q /\ q = m \div n
  <2>1. m \div n \in Nat /\ m = n * (m \div n) + (m % n)
    BY <1>1, <1>2
  <2> QED
    BY <2>1, <1>1, <1>2
<1>4. q > 0
  BY <1>1, <1>2, <1>3
<1>5. ASSUME NEW a \in 0 .. n * q - 1 PROVE a \div q \in 0 .. n - 1
  <2>1. n * q \in Nat /\ a \in Nat
    BY <1>1, <1>2
  <2>2. PICK d : d = a \div q
    OBVIOUS
  <2>3. d \in Nat /\ a = q * d + (a % q) /\ a % q \in Nat
    BY <1>4, <2>1, <2>2
  <2>4. q * d <= a
    BY <2>3, <2>1
  <2>5. CASE d >= n
    <3>1. q * n <= q * d
      BY <2>5, <2>3, <1>1, <1>2
    <3> QED
      BY <3>1, <2>4, <2>1, <2>3, <1>1, <1>2
  <2> QED
    BY <2>2, <2>3, <2>5, <1>1, <1>2
<1>6. 0 \div q = 0
  BY <1>4
<1>7. Cell = 0 .. m - 1 /\ Bottom = m - 1 /\ SectorOf(0) = 0 \div q
      /\ \A a : SectorOf(a) = a \div q
  BY <1>2, <1>3 DEF Cell, SectorOf, Bottom
<1> QED
  BY <1>1, <1>2, <1>3, <1>5, <1>6, <1>7

(* A page that is written or erased, with what cells may hold.             *)
LEMMA PageTypes ==
    ASSUME NEW f, FlashTypes(f), NEW p \in Page
    PROVE  f[p] \in PageOfCells /\ MetasOk(f[p]) /\ f \in [Page -> PageOfCells]
BY DEF FlashTypes, PageOfCells, MetasOk

LEMMA FlashTypesExcept ==
    ASSUME NEW f, FlashTypes(f), NEW p \in Page, NEW g \in [Page -> PageOfCells], MetasOk(g[p]),
           \A q \in Page \ {p} : g[q] = f[q]
    PROVE  FlashTypes(g)
<1>1. \A q \in Page : MetasOk(f[q])
  BY PageTypes
<1>2. \A q \in Page : MetasOk(g[q])
  BY <1>1
<1> QED
  BY <1>2 DEF FlashTypes, PageOfCells, MetasOk

(* Page h is g with the first cells of a record at a, and maybe one that   *)
(* is half written.                                                        *)
PartOf(h, g, a, cells, n) ==
    /\ h \in PageOfCells /\ MetasOk(h)
    /\ \A x \in Cell : x \notin a .. a + n - 1 => h[x] = g[x]
    /\ \A k \in 1 .. n : h[a + k - 1] \in {g[a + k - 1], TORN, cells[k]}
    /\ h[a + n - 1] \in {g[a + n - 1], TORN}

LEMMA WrittenFacts ==
    ASSUME NEW f, FlashTypes(f), NEW p \in Page, NEW a \in Cell, NEW n \in Nat \ {0}, a + n <= PAGE,
           NEW cells, \A k \in 1 .. n : cells[k] \in CellValue /\ MetaOk(cells[k], a + k - 1),
           NEW k \in 0 .. n
    PROVE  LET g == Written(f, Program(p, a, cells), k) IN
           /\ FlashTypes(g) /\ \A q \in Page \ {p} : g[q] = f[q]
           /\ \A x \in Cell : g[p][x] = IF x \in a .. a + k - 1 THEN cells[x - a + 1] ELSE f[p][x]
<1> DEFINE h == [x \in Cell |-> IF x - a + 1 \in 1 .. k THEN cells[x - a + 1] ELSE f[p][x]]
<1>1. PICK o : o = Program(p, a, cells)
  OBVIOUS
<1>2. o.page = p /\ o.address = a /\ o.cells = cells
  BY <1>1 DEF Program
<1>3. f \in [Page -> PageOfCells] /\ f[p] \in PageOfCells /\ MetasOk(f[p])
  BY PageTypes
<1>4. Written(f, o, k) = [f EXCEPT ![p] = h]
  BY <1>2, <1>3 DEF Written
<1>5. \A x \in Cell : x \in Nat /\ a \in Nat /\ k \in Nat /\ n \in Nat
  BY Sizes DEF Cell
<1>6. \A x \in Cell : h[x] = IF x \in a .. a + k - 1 THEN cells[x - a + 1] ELSE f[p][x]
  BY <1>5
<1>7. ASSUME NEW x \in Cell PROVE h[x] \in CellValue /\ MetaOk(h[x], x)
  <2>1. CASE x \in a .. a + k - 1
    <3>1. x - a + 1 \in 1 .. n /\ a + (x - a + 1) - 1 = x
      BY <2>1, <1>5
    <3> QED
      BY <2>1, <3>1, <1>6
  <2>2. CASE x \notin a .. a + k - 1
    BY <2>2, <1>3, <1>6 DEF PageOfCells, MetasOk
  <2> QED
    BY <2>1, <2>2
<1>8. h \in PageOfCells /\ MetasOk(h)
  BY <1>7 DEF PageOfCells, MetasOk
<1>9. PICK g : g = [f EXCEPT ![p] = h]
  OBVIOUS
<1> HIDE DEF h
<1>10. FlashTypes(g) /\ g[p] = h /\ \A q \in Page \ {p} : g[q] = f[q]
  <2>1. g \in [Page -> PageOfCells] /\ g[p] = h /\ \A q \in Page \ {p} : g[q] = f[q]
    BY <1>3, <1>8, <1>9
  <2> QED
    BY <2>1, <1>8, FlashTypesExcept
<1> QED
  BY <1>1, <1>4, <1>6, <1>9, <1>10

LEMMA InterruptedProgram ==
    ASSUME FlashTypes(flash), NEW p \in Page, NEW a \in Cell, NEW n \in Nat \ {0}, a + n <= PAGE,
           NEW cells, Len(cells) = n, \A k \in 1 .. n : cells[k] \in CellValue /\ MetaOk(cells[k], a + k - 1),
           todo # << >>, Head(todo) = Program(p, a, cells), NEW f \in Interrupted
    PROVE  /\ FlashTypes(f) /\ \A q \in Page \ {p} : f[q] = flash[q]
           /\ PartOf(f[p], flash[p], a, cells, n)
<1>1. PICK o : o = Program(p, a, cells)
  OBVIOUS
<1>2. o.page = p /\ o.address = a /\ o.cells = cells /\ o.op = "program"
  BY <1>1 DEF Program
<1>3. flash \in [Page -> PageOfCells] /\ \A q \in Page : flash[q] \in PageOfCells /\ MetasOk(flash[q])
  BY PageTypes
<1>4. a \in Nat /\ n \in Nat /\ Cell = 0 .. PAGE - 1 /\ PAGE \in Nat
  BY Sizes DEF Cell
<1>5. a + n - 1 \in Cell /\ \A k \in 1 .. n : a + k - 1 \in Cell
  BY <1>4
<1>6. /\ \A x \in Cell, k \in 0 .. n : x \in a .. a + k - 1 => x - a + 1 \in 1 .. k /\ a + (x - a + 1) - 1 = x
      /\ \A k \in 0 .. n, j \in 1 .. n : a + j - 1 \in a .. a + k - 1 <=> j <= k
      /\ \A j \in 1 .. n : (a + j - 1) - a + 1 = j
  BY <1>4
<1>7. CASE f = flash
  <2>1. PartOf(flash[p], flash[p], a, cells, n)
    BY <1>3 DEF PartOf
  <2> QED
    BY <1>7, <2>1
<1>8. ASSUME NEW k \in 0 .. n - 1, f = Written(flash, o, k)
      PROVE  FlashTypes(f) /\ (\A q \in Page \ {p} : f[q] = flash[q]) /\ PartOf(f[p], flash[p], a, cells, n)
  <2>1. k \in 0 .. n
    BY <1>4
  <2>2. /\ FlashTypes(f) /\ \A q \in Page \ {p} : f[q] = flash[q]
        /\ \A x \in Cell : f[p][x] = IF x \in a .. a + k - 1 THEN cells[x - a + 1] ELSE flash[p][x]
    BY <1>1, <1>8, <2>1, WrittenFacts
  <2>3. f[p] \in PageOfCells /\ MetasOk(f[p])
    BY <2>2, PageTypes
  <2>4. \A x \in Cell : x \notin a .. a + n - 1 => f[p][x] = flash[p][x]
    BY <2>2, <1>4
  <2>5. \A j \in 1 .. n : f[p][a + j - 1] \in {flash[p][a + j - 1], TORN, cells[j]}
    BY <2>1, <2>2, <1>5, <1>6
  <2>6. f[p][a + n - 1] = flash[p][a + n - 1]
    BY <2>2, <1>4, <1>5
  <2> QED
    BY <2>2, <2>3, <2>4, <2>5, <2>6 DEF PartOf
<1>9. ASSUME NEW k \in 1 .. n, f = [Written(flash, o, k - 1) EXCEPT ![o.page][o.address + k - 1] = TORN]
      PROVE  FlashTypes(f) /\ (\A q \in Page \ {p} : f[q] = flash[q]) /\ PartOf(f[p], flash[p], a, cells, n)
  <2>1. k - 1 \in 0 .. n /\ a + k - 1 \in Cell
    BY <1>4, <1>5
  <2>2. PICK w : w = Written(flash, o, k - 1)
    OBVIOUS
  <2>3. /\ FlashTypes(w) /\ \A q \in Page \ {p} : w[q] = flash[q]
        /\ \A x \in Cell : w[p][x] = IF x \in a .. a + (k - 1) - 1 THEN cells[x - a + 1] ELSE flash[p][x]
    BY <1>1, <2>1, <2>2, WrittenFacts
  <2>4. w \in [Page -> PageOfCells] /\ w[p] \in PageOfCells /\ MetasOk(w[p])
    BY <2>3, PageTypes
  <2>5. PICK h : h = [w[p] EXCEPT ![a + k - 1] = TORN]
    OBVIOUS
  <2>6. f = [w EXCEPT ![p] = h]
    BY <1>2, <1>9, <2>2, <2>4, <2>5
  <2>7. \A x \in Cell : h[x] = IF x = a + k - 1 THEN TORN ELSE w[p][x]
    BY <2>4, <2>5 DEF PageOfCells
  <2>8. h \in PageOfCells
    BY <2>4, <2>5, CellFacts DEF PageOfCells
  <2>9. MetasOk(h)
    BY <2>4, <2>7, CellFacts DEF MetasOk, MetaOk
  <2>10. FlashTypes(f) /\ f[p] = h /\ \A q \in Page \ {p} : f[q] = flash[q]
    <3>1. f \in [Page -> PageOfCells] /\ f[p] = h /\ \A q \in Page \ {p} : f[q] = w[q]
      BY <2>4, <2>6, <2>8
    <3>2. FlashTypes(f)
      BY <3>1, <2>3, <2>9, FlashTypesExcept
    <3> QED
      BY <3>1, <3>2, <2>3
  <2>11. \A x \in Cell : x \notin a .. a + n - 1 => h[x] = flash[p][x]
    BY <2>3, <2>7, <1>4
  <2>12. ASSUME NEW j \in 1 .. n PROVE h[a + j - 1] \in {flash[p][a + j - 1], TORN, cells[j]}
    BY <2>1, <2>3, <2>7, <1>5, <1>6
  <2>13. h[a + n - 1] \in {flash[p][a + n - 1], TORN}
    BY <2>3, <2>7, <1>4, <1>5
  <2> QED
    BY <2>8, <2>9, <2>10, <2>11, <2>12, <2>13 DEF PartOf
<1>10. \/ f = flash
       \/ \E k \in 0 .. n - 1 : f = Written(flash, o, k)
       \/ \E k \in 1 .. n : f = [Written(flash, o, k - 1) EXCEPT ![o.page][o.address + k - 1] = TORN]
  BY <1>1, <1>2, Zenon DEF Interrupted
<1> QED
  BY <1>7, <1>8, <1>9, <1>10

LEMMA ErasedFacts ==
    ASSUME FlashTypes(flash), NEW p \in Page, NEW s,
           NEW c \in {BLANK, TORN},
           NEW f, f = [flash EXCEPT ![p] = [a \in Cell |-> IF SectorOf(a) = s THEN c ELSE @[a]]]
    PROVE  /\ FlashTypes(f) /\ \A q \in Page \ {p} : f[q] = flash[q]
           /\ \A a \in Cell : f[p][a] = IF SectorOf(a) = s THEN c ELSE flash[p][a]
<1>1. flash[p] \in PageOfCells /\ MetasOk(flash[p]) /\ flash \in [Page -> PageOfCells]
  BY PageTypes
<1>2. PICK h : h = [a \in Cell |-> IF SectorOf(a) = s THEN c ELSE flash[p][a]]
  OBVIOUS
<1>3. f = [flash EXCEPT ![p] = h]
  BY <1>1, <1>2
<1>4. h \in PageOfCells
  BY <1>1, <1>2, CellFacts DEF PageOfCells
<1>5. MetasOk(h)
  BY <1>1, <1>2, CellFacts DEF MetasOk, MetaOk
<1>6. f \in [Page -> PageOfCells] /\ f[p] = h /\ \A q \in Page \ {p} : f[q] = flash[q]
  BY <1>1, <1>3, <1>4
<1>7. FlashTypes(f)
  BY <1>5, <1>6, FlashTypesExcept
<1> QED
  BY <1>2, <1>6, <1>7

LEMMA InterruptedErase ==
    ASSUME FlashTypes(flash), NEW p \in Page, NEW s, NEW t, todo # << >>, Head(todo) = EraseSectors(p, s, t),
           NEW f \in Interrupted
    PROVE  /\ FlashTypes(f) /\ \A q \in Page \ {p} : f[q] = flash[q]
           /\ f = flash \/ \A a \in Cell : f[p][a] = IF SectorOf(a) = s THEN TORN ELSE flash[p][a]
<1>1. PICK o : o = EraseSectors(p, s, t)
  OBVIOUS
<1>2. o.page = p /\ o.sector = s /\ o.op = "erase"
  BY <1>1 DEF EraseSectors
<1>3. \/ f = flash
      \/ f = [flash EXCEPT ![o.page] = [a \in Cell |-> IF SectorOf(a) = o.sector THEN TORN ELSE @[a]]]
  BY <1>1, <1>2, Zenon DEF Interrupted
<1> QED
  BY <1>2, <1>3, ErasedFacts

(* Anything may happen to a page that is not valid.                        *)
LEMMA InvalidPage ==
    ASSUME NEW f, FlashOk(f), NEW p \in Page, NEW g, \A q \in Page \ {p} : g[q] = f[q], ~Valid(g, p)
    PROVE  FlashOk(g)
<1>1. \A q \in Page : Valid(g, q) => q # p /\ g[q] = f[q] /\ Valid(f, q)
  BY DEF Valid
<1> QED
  BY <1>1 DEF FlashOk, Page

(* The newer page may grow.                                                *)
LEMMA NewerPage ==
    ASSUME NEW f, FlashOk(f), NEW p \in Page, Valid(f, p), f[p][0].n \in Nat,
           \A q \in Page \ {p} : Valid(f, q) => f[q][0].n \in Nat /\ f[q][0].n < f[p][0].n,
           NEW g, \A q \in Page \ {p} : g[q] = f[q],
           g[p][0] = f[p][0], g[p][Bottom] = f[p][Bottom],
           NEW last \in 0 .. Bottom - 1, PageOk(g[p], last), NoMetas(g[p]) => NoMetas(f[p])
    PROVE  FlashOk(g) /\ Valid(g, p) /\ \A q \in Page \ {p} : Valid(g, q) <=> Valid(f, q)
<1>1. \A q \in Page \ {p} : (Valid(g, q) <=> Valid(f, q)) /\ g[q] = f[q]
  BY DEF Valid
<1>2. Valid(g, p)
  BY DEF Valid
<1>3. ASSUME NEW q \in Page, Valid(g, q) PROVE \E l \in 0 .. Bottom - 1 : PageOk(g[q], l)
  BY <1>1, <1>3 DEF FlashOk
<1>4. ASSUME NEW q \in Page, NEW r \in Page, q # r, Valid(g, q), Valid(g, r)
      PROVE  /\ g[q][0].n # g[r][0].n
             /\ g[q][0].n > g[r][0].n /\ NoMetas(g[q]) => NoMetas(g[r])
  <2>1. CASE q = p
    <3>1. Valid(f, r) /\ g[r] = f[r] /\ f[r][0].n < f[p][0].n /\ f[r][0].n \in Nat
      BY <1>1, <1>4, <2>1
    <3> QED
      BY <1>4, <2>1, <3>1 DEF FlashOk
  <2>2. CASE r = p
    <3>1. Valid(f, q) /\ g[q] = f[q] /\ f[q][0].n < f[p][0].n /\ f[q][0].n \in Nat
      BY <1>1, <1>4, <2>2
    <3> QED
      BY <2>2, <3>1
  <2> QED
    BY <1>4, <2>1, <2>2 DEF Page
<1> QED
  BY <1>1, <1>2, <1>3, <1>4 DEF FlashOk

-----------------------------------------------------------------------------
(* What a power failure leaves.                                            *)
LEMMA Other ==
    ASSUME mNvActivePageId \in Page
    PROVE  /\ OtherPage \in Page /\ OtherPage # mNvActivePageId /\ Page \ {mNvActivePageId} = {OtherPage}
           /\ Page \ {OtherPage} = {mNvActivePageId} /\ Page = {mNvActivePageId, OtherPage}
           /\ OtherPage = 1 - mNvActivePageId /\ Page = {0, 1}
<1>1. mNvActivePageId = 0 \/ mNvActivePageId = 1
  BY DEF Page
<1> QED
  BY <1>1 DEF Page, OtherPage

LEMMA BetweenWrite ==
    ASSUME FlashTypes(flash), FlashOk(flash), mNvPageCounter \in Nat, NEW last, RamOk(last),
           NEW f, FlashTypes(f), f[OtherPage] = flash[OtherPage],
           \A a \in Cell : a \notin last + 1 .. Edge(flash[mNvActivePageId], last) - 1 =>
              f[mNvActivePageId][a] = flash[mNvActivePageId][a],
           \A a \in last + 1 .. Edge(flash[mNvActivePageId], last) - 1 : ~Is(f[mNvActivePageId][a], "meta")
    PROVE  /\ FlashOk(f) /\ PageOk(f[mNvActivePageId], last) /\ Valid(f, mNvActivePageId)
           /\ Edge(f[mNvActivePageId], last) = Edge(flash[mNvActivePageId], last)
           /\ f[mNvActivePageId][0] = flash[mNvActivePageId][0]
           /\ Valid(f, OtherPage) <=> Valid(flash, OtherPage)
<1>1. PICK p, q, g, h : p = mNvActivePageId /\ q = OtherPage /\ g = flash[p] /\ h = f[p]
  OBVIOUS
<1>2. /\ p \in Page /\ q \in Page /\ Page \ {p} = {q} /\ PageOk(g, last) /\ Valid(flash, p)
      /\ g[0] = Counter(mNvPageCounter)
      /\ Valid(flash, q) => flash[q][0].n < mNvPageCounter
  BY <1>1, Other DEF RamOk
<1>3. g \in PageOfCells /\ MetasOk(g)
  BY <1>1, <1>2, PageTypes
<1>4. /\ last \in 0 .. Bottom - 1 /\ Bottom \in Nat /\ FirstMeta = 1 /\ Cell = 0 .. Bottom
      /\ Edge(g, last) \in last + 1 .. Bottom
  BY <1>2, <1>3, EdgeFacts, Sizes DEF PageOk, FirstMeta, Cell, Bottom
<1>5. /\ \A a \in Cell : a \notin last + 1 .. Edge(g, last) - 1 => h[a] = g[a]
      /\ \A a \in last + 1 .. Edge(g, last) - 1 : ~Is(h[a], "meta")
  BY <1>1
<1>6. \A a \in Cell : a \in FirstMeta .. last \/ a \in Edge(g, last) .. Bottom - 1 => h[a] = g[a]
  BY <1>4, <1>5
<1>7. PageOk(h, last) /\ Edge(h, last) = Edge(g, last)
  BY <1>2, <1>3, <1>5, <1>6, BetweenKeepsPage
<1>8. h[0] = g[0] /\ h[Bottom] = g[Bottom]
  BY <1>4, <1>5
<1>9. NoMetas(h) => NoMetas(g)
  <2>1. ASSUME NEW a \in FirstMeta .. Bottom - 1, Is(g[a], "meta") PROVE Is(h[a], "meta")
    <3>1. a <= last
      BY <1>2, <2>1 DEF PageOk
    <3> QED
      BY <3>1, <2>1, <1>4, <1>6
  <2> QED
    BY <2>1 DEF NoMetas
<1>10. /\ g[0].n = mNvPageCounter
       /\ Valid(flash, q) => flash[q][0].n \in Nat
  <2>1. flash[q] \in PageOfCells /\ flash[q][0] \in CellValue
    BY <1>2, PageTypes, Sectors DEF PageOfCells
  <2> QED
    BY <1>2, <2>1, CellFacts DEF Valid
<1>11. FlashOk(f) /\ Valid(f, p) /\ (Valid(f, q) <=> Valid(flash, q))
  <2>1. \A r \in Page \ {p} : f[r] = flash[r]
    BY <1>1, <1>2
  <2>2. \A r \in Page \ {p} : Valid(flash, r) => flash[r][0].n \in Nat /\ flash[r][0].n < flash[p][0].n
    BY <1>1, <1>2, <1>10
  <2>3. flash[p][0].n \in Nat /\ f[p][0] = flash[p][0] /\ f[p][Bottom] = flash[p][Bottom] /\ PageOk(f[p], last)
        /\ (NoMetas(f[p]) => NoMetas(flash[p]))
    BY <1>1, <1>7, <1>8, <1>9, <1>10
  <2>4. last \in 0 .. Bottom - 1
    BY <1>4
  <2>5. FlashOk(f) /\ Valid(f, p) /\ \A r \in Page \ {p} : Valid(f, r) <=> Valid(flash, r)
    BY <2>1, <2>2, <2>3, <2>4, <1>2, NewerPage
  <2> QED
    BY <2>5, <1>2
<1> QED
  BY <1>1, <1>7, <1>8, <1>11

(* The data of a record, and where NvWriteRecord places it.                *)
LEMMA DataFacts ==
    ASSUME NEW e \in Entry, NEW v \in Value
    PROVE  /\ Len(Data(e, v)) = Size(e) /\ Data(e, v) \in Seq(CellValue)
           /\ \A k \in 1 .. Size(e) : \A a : Data(e, v)[k] \in CellValue /\ MetaOk(Data(e, v)[k], a)
<1>1. Size(e) \in Nat
  BY Sizes
<1>2. \A k \in 1 .. Size(e) : Data(e, v)[k] \in CellValue /\ ~Is(Data(e, v)[k], "meta")
  BY CellFacts
<1>3. Data(e, v) \in [1 .. Size(e) -> CellValue]
  BY <1>2 DEF Data, Size
<1>4. Data(e, v) \in Seq(CellValue)
  BY <1>1, <1>3, SeqDef
<1>5. Len(Data(e, v)) = Size(e)
  BY <1>1, <1>3, <1>4, LenProperties
<1> QED
  BY <1>2, <1>4, <1>5 DEF MetaOk

LEMMA PlacedFacts ==
    ASSUME Types, RamOk(LastActive), NEW e \in Entry, NEW r \in Cell, NEW m \in Cell, Placed(e, r, m)
    PROVE  /\ r + Size(e) <= PAGE /\ m + 1 <= PAGE /\ m \in FirstMeta .. Bottom - 1
           /\ Size(e) \in Nat \ {0} /\ LastActive \in 0 .. Bottom - 1
           /\ Edge(flash[mNvActivePageId], LastActive) \in LastActive + 1 .. Bottom
           /\ m \in LastActive + 1 .. Edge(flash[mNvActivePageId], LastActive) - 1
           /\ \A x \in r .. r + Size(e) - 1 : x \in m + 3 .. Edge(flash[mNvActivePageId], LastActive) - 1
           /\ \A a \in LastActive + 1 .. Edge(flash[mNvActivePageId], LastActive) - 1 :
                 ~Is(flash[mNvActivePageId][a], "meta")
           /\ MetaOk(Meta(e, r), m)
<1>1. PICK g, last : g = flash[mNvActivePageId] /\ last = LastActive
  OBVIOUS
<1>2. /\ g \in PageOfCells /\ MetasOk(g) /\ PageOk(g, last)
      /\ last < m /\ m + 3 <= r /\ r + Size(e) <= Edge(g, last)
  BY <1>1, PageTypes DEF Types, RamOk, Placed
<1>3. /\ Edge(g, last) \in last + 1 .. Bottom /\ last \in 0 .. Bottom - 1
      /\ Bottom \in Nat /\ Bottom = PAGE - 1 /\ PAGE \in Nat /\ FirstMeta = 1 /\ Cell = 0 .. Bottom
  BY <1>2, EdgeFacts, Sizes DEF PageOk, FirstMeta, Cell, Bottom
<1>4. Size(e) \in Nat \ {0}
  BY Sizes
<1>5. m \in Nat /\ r \in Nat
  BY <1>3
<1>6. ASSUME NEW a \in last + 1 .. Edge(g, last) - 1 PROVE ~Is(g[a], "meta")
  <2>1. a \in FirstMeta .. Bottom - 1 /\ ~(a <= last)
    BY <1>3
  <2> QED
    BY <2>1, <1>2 DEF PageOk
<1>7. MetaOk(Meta(e, r), m)
  <2>1. Meta(e, r).entry = e /\ Meta(e, r).offset = r
    BY <1>5, CellFacts
  <2>2. r \in m + 1 .. Bottom - Size(e)
    BY <1>2, <1>3, <1>4, <1>5
  <2> QED
    BY <2>1, <2>2 DEF MetaOk
<1>8. /\ r + Size(e) <= PAGE /\ m + 1 <= PAGE /\ m \in FirstMeta .. Bottom - 1
      /\ m \in last + 1 .. Edge(g, last) - 1
      /\ \A x \in r .. r + Size(e) - 1 : x \in m + 3 .. Edge(g, last) - 1
  BY <1>2, <1>3, <1>4, <1>5
<1> QED
  BY <1>1, <1>3, <1>4, <1>6, <1>7, <1>8

(* A page loses its counter with its first sector.                         *)
LEMMA ErasedInvalid ==
    ASSUME FlashTypes(flash), FlashOk(flash), NEW p \in Page, NEW s, NEW c \in {BLANK, TORN},
           s = 0 \/ ~Is(flash[p][0], "counter"),
           NEW f, \A q \in Page \ {p} : f[q] = flash[q],
           f = flash \/ \A a \in Cell : f[p][a] = IF SectorOf(a) = s THEN c ELSE flash[p][a]
    PROVE  FlashOk(f) /\ (f = flash \/ ~Is(f[p][0], "counter"))
<1>1. CASE f = flash
  BY <1>1
<1>2. CASE \A a \in Cell : f[p][a] = IF SectorOf(a) = s THEN c ELSE flash[p][a]
  <2>1. f[p][0] = IF 0 = s THEN c ELSE flash[p][0]
    BY <1>2, Sectors
  <2>2. ~Is(f[p][0], "counter")
    BY <2>1, CellFacts
  <2>3. ~Valid(f, p)
    BY <2>2 DEF Valid
  <2> QED
    BY <2>2, <2>3, InvalidPage
<1> QED
  BY <1>1, <1>2

LEMMA FromStart ==
    ASSUME NEW o, NEW p, ErasingFromStart(o, p)
    PROVE  \E s \in 0 .. SECTORS - 1 :
              /\ o = EraseSectors(p, s, SECTORS - 1)
              /\ \A a \in Cell : SectorOf(a) < s => flash[p][a] = BLANK
              /\ s = 0 \/ ~Is(flash[p][0], "counter")
<1>1. PICK s \in 0 .. SECTORS - 1 : /\ o = EraseSectors(p, s, SECTORS - 1)
                                    /\ \A a \in Cell : SectorOf(a) < s => flash[p][a] = BLANK
  BY DEF ErasingFromStart
<1>2. s = 0 \/ flash[p][0] = BLANK
  BY <1>1, Sectors
<1> QED
  BY <1>1, <1>2, CellFacts

(* What a command does to the flash: cells between the metas and the       *)
(* records of the active page change, or another page is or becomes        *)
(* invalid.                                                                *)
Between(f) ==
    LET p == mNvActivePageId
        free == LastActive + 1 .. Edge(flash[mNvActivePageId], LastActive) - 1
    IN  /\ f[OtherPage] = flash[OtherPage]
        /\ \A x \in Cell : x \notin free => f[p][x] = flash[p][x]
        /\ \A x \in free : ~Is(f[p][x], "meta")
LosesPage(f, p) == (\A q \in Page \ {p} : f[q] = flash[q]) /\ (f = flash \/ ~Valid(f, p))
KeptBy(f) ==
    \/ f = flash
    \/ RamOk(LastActive) /\ (Between(f) \/ LosesPage(f, OtherPage))
    \/ Switched /\ LosesPage(f, mNvActivePageId)
    \/ (AtFormatErase \/ AtFormatCounter) /\ \E p \in Page : LosesPage(f, p)

LEMMA InterruptedRecord ==
    ASSUME Types, FlashOk(flash), AtRecord \/ AtMeta, NEW f \in Interrupted
    PROVE  FlashTypes(f) /\ FlashOk(f) /\ RamOk(LastActive) /\ Between(f)
<1>1. RamOk(LastActive) /\ FlashTypes(flash) /\ mNvPageCounter \in Nat /\ mNvActivePageId \in Page
  BY DEF AtRecord, AtMeta, Types, RamOk
<1>2. PICK e \in Entry, v \in Value, r \in Cell, m \in Cell :
          /\ Placed(e, r, m)
          /\ todo # << >>
          /\ \/ Head(todo) = Program(mNvActivePageId, r, Data(e, v))
             \/ Head(todo) = Program(mNvActivePageId, m, <<Meta(e, r)>>)
  BY DEF AtRecord, AtMeta, Top
<1>3. PICK p, g, edge, last : /\ p = mNvActivePageId /\ g = flash[p] /\ last = LastActive /\ edge = Edge(g, last)
  OBVIOUS
<1>4. /\ r + Size(e) <= PAGE /\ m + 1 <= PAGE
      /\ Size(e) \in Nat \ {0} /\ last \in 0 .. Bottom - 1
      /\ edge \in last + 1 .. Bottom
      /\ m \in last + 1 .. edge - 1
      /\ \A x \in r .. r + Size(e) - 1 : x \in m + 3 .. edge - 1
      /\ \A a \in last + 1 .. edge - 1 : ~Is(g[a], "meta")
      /\ MetaOk(Meta(e, r), m)
  BY <1>1, <1>2, <1>3, PlacedFacts
<1>5. Bottom \in Nat /\ Cell = 0 .. Bottom /\ r \in Nat /\ m \in Nat
  BY Sizes DEF Cell, Bottom
<1>6. \E a, n, cells :
        /\ a \in Cell /\ n \in Nat \ {0}
        /\ FlashTypes(f) /\ (\A q \in Page \ {p} : f[q] = flash[q]) /\ PartOf(f[p], flash[p], a, cells, n)
        /\ \A x \in a .. a + n - 1 : x \in last + 1 .. edge - 1
        /\ (\A k \in 1 .. n : ~Is(cells[k], "meta")) \/ n = 1
  <2>1. CASE Head(todo) = Program(p, r, Data(e, v))
    <3>1. PICK n : n = Size(e)
      OBVIOUS
    <3>2. PICK cells : cells = Data(e, v)
      OBVIOUS
    <3>3. /\ n \in Nat \ {0} /\ Len(cells) = n /\ r + n <= PAGE
          /\ \A k \in 1 .. n : cells[k] \in CellValue /\ MetaOk(cells[k], r + k - 1) /\ ~Is(cells[k], "meta")
      BY <3>1, <3>2, <1>4, DataFacts, CellFacts
    <3>4. Head(todo) = Program(p, r, cells)
      BY <2>1, <3>2
    <3>5. p \in Page
      BY <1>1, <1>3
    <3>6. /\ FlashTypes(f) /\ \A q \in Page \ {p} : f[q] = flash[q]
          /\ PartOf(f[p], flash[p], r, cells, n)
      BY <3>3, <3>4, <3>5, <1>1, <1>2, InterruptedProgram
    <3>7. \A x \in r .. r + n - 1 : x \in last + 1 .. edge - 1
      BY <3>1, <1>4, <1>5
    <3> QED
      BY <3>3, <3>6, <3>7
  <2>2. CASE Head(todo) = Program(p, m, <<Meta(e, r)>>)
    <3>1. PICK c : c = Meta(e, r)
      OBVIOUS
    <3>2. PICK cells : cells = <<c>>
      OBVIOUS
    <3>8. PICK n : n = 1
      OBVIOUS
    <3>3. Len(cells) = n /\ cells[n] = c /\ n \in Nat \ {0}
      BY <3>2, <3>8
    <3>4. \A k \in 1 .. n : cells[k] \in CellValue /\ MetaOk(cells[k], m + k - 1)
      BY <3>1, <3>3, <3>8, <1>4, <1>5, CellFacts
    <3>5. Head(todo) = Program(p, m, cells) /\ p \in Page /\ m + n <= PAGE
      BY <2>2, <3>1, <3>2, <3>8, <1>1, <1>3, <1>4
    <3>6. /\ FlashTypes(f) /\ \A q \in Page \ {p} : f[q] = flash[q]
          /\ PartOf(f[p], flash[p], m, cells, n)
      BY <3>3, <3>4, <3>5, <1>1, <1>2, InterruptedProgram
    <3>7. \A x \in m .. m + n - 1 : x \in last + 1 .. edge - 1
      BY <3>8, <1>4, <1>5
    <3> QED
      BY <3>3, <3>6, <3>7, <3>8
  <2> QED
    BY <2>1, <2>2, <1>2, <1>3
<1>7. PICK a, n, cells :
        /\ a \in Cell /\ n \in Nat \ {0}
        /\ FlashTypes(f) /\ (\A q \in Page \ {p} : f[q] = flash[q]) /\ PartOf(f[p], flash[p], a, cells, n)
        /\ \A x \in a .. a + n - 1 : x \in last + 1 .. edge - 1
        /\ (\A k \in 1 .. n : ~Is(cells[k], "meta")) \/ n = 1
  BY <1>6
<1>8. \A x \in Cell : x \notin last + 1 .. edge - 1 => f[p][x] = g[x]
  BY <1>3, <1>7 DEF PartOf
<1>9. ASSUME NEW x \in last + 1 .. edge - 1 PROVE ~Is(f[p][x], "meta")
  <2>1. x \in Cell
    BY <1>4, <1>5
  <2>2. CASE x \in a .. a + n - 1
    <3>1. PICK k : k = x - a + 1
      OBVIOUS
    <3>4. a \in Int /\ n \in Int /\ x \in Int
      BY <1>7, <2>1 DEF Cell
    <3>5. x >= a /\ x <= a + n - 1
      BY <2>2, <3>4
    <3>6. k \in Int
      BY <3>1, <3>4
    <3>2. k \in 1 .. n /\ x = a + k - 1 /\ (n = 1 => x = a + n - 1)
      BY <3>1, <3>4, <3>5, <3>6
    <3>3. f[p][x] \in {g[x], TORN, cells[k]} /\ (n = 1 => f[p][x] \in {g[x], TORN})
      BY <3>2, <1>3, <1>7 DEF PartOf
    <3> QED
      BY <3>2, <3>3, <1>4, <1>7, CellFacts
  <2>3. CASE x \notin a .. a + n - 1
    <3>1. f[p][x] = g[x]
      BY <2>1, <2>3, <1>3, <1>7 DEF PartOf
    <3> QED
      BY <3>1, <1>4
  <2> QED
    BY <2>2, <2>3
<1>10. f[OtherPage] = flash[OtherPage]
  BY <1>1, <1>3, <1>7, Other
<1>11. /\ \A x \in Cell : x \notin LastActive + 1 .. Edge(flash[mNvActivePageId], LastActive) - 1 =>
                             f[mNvActivePageId][x] = flash[mNvActivePageId][x]
       /\ \A x \in LastActive + 1 .. Edge(flash[mNvActivePageId], LastActive) - 1 : ~Is(f[mNvActivePageId][x], "meta")
  BY <1>3, <1>8, <1>9
<1>12. Between(f)
  BY <1>10, <1>11 DEF Between
<1> QED
  BY <1>1, <1>7, <1>10, <1>11, <1>12, BetweenWrite

LEMMA InterruptedCopy ==
    ASSUME Types, FlashOk(flash), AtCopyRecord \/ AtCopyMeta, NEW f \in Interrupted
    PROVE  FlashTypes(f) /\ FlashOk(f) /\ RamOk(LastActive) /\ LosesPage(f, OtherPage)
<1>1. RamOk(LastActive) /\ FlashTypes(flash) /\ mNvActivePageId \in Page
  BY DEF AtCopyRecord, AtCopyMeta, Types, RamOk
<1>2. PICK q, b : q = OtherPage /\ b = flash[mNvActivePageId]
  OBVIOUS
<1>3. q \in Page /\ b \in PageOfCells /\ MetasOk(b) /\ Bottom \in Nat /\ Cell = 0 .. Bottom /\ PAGE = Bottom + 1
  BY <1>1, <1>2, Other, PageTypes, Sizes DEF Cell, Bottom
<1>4. PICK a, dst, to, v, e :
          /\ a \in Cell /\ dst \in Cell /\ to \in Cell /\ v \in Value
          /\ e = b[a].entry /\ Is(b[a], "meta") /\ to > dst
          /\ \E s : CopyOk(a, dst, to + Size(e), s) /\ s > dst
          /\ todo # << >>
          /\ \/ Head(todo) = Program(q, to, Data(e, v))
             \/ Head(todo) = Program(q, dst, <<Meta(e, to)>>)
  <2>1. CASE AtCopyRecord
    <3>1. PICK a \in Cell, dst \in Cell, to \in Cell, v \in Value, e \in Entry :
              /\ CopyNext(a, dst, to, v, e, to + Size(e))
              /\ todo # << >> /\ Head(todo) = Program(q, to, Data(e, v))
      BY <2>1, <1>2 DEF AtCopyRecord, Top
    <3>2. e = b[a].entry /\ Is(b[a], "meta") /\ to > dst /\ CopyOk(a, dst, to + Size(e), to + Size(e))
      BY <3>1, <1>2 DEF CopyNext, Newest
    <3>3. to + Size(e) > dst
      BY <3>1, <3>2, <1>3, Sizes
    <3> QED
      BY <3>1, <3>2, <3>3
  <2>2. CASE AtCopyMeta
    <3>1. PICK a \in Cell, dst \in Cell, to \in Cell, v \in Value, e \in Entry :
              /\ CopyNext(a, dst, to, v, e, to)
              /\ todo # << >> /\ Head(todo) = Program(q, dst, <<Meta(e, to)>>)
      BY <2>2, <1>2 DEF AtCopyMeta, Top
    <3>2. e = b[a].entry /\ Is(b[a], "meta") /\ to > dst /\ CopyOk(a, dst, to + Size(e), to)
      BY <3>1, <1>2 DEF CopyNext, Newest
    <3> QED
      BY <3>1, <3>2
  <2> QED
    BY <2>1, <2>2
<1>5. PICK s : CopyOk(a, dst, to + Size(e), s) /\ s > dst
  BY <1>4
<1>6. /\ flash[q][0] = BLANK /\ flash[q] \in PageOfCells
      /\ PageOk(flash[q], dst - 1) /\ to + Size(e) = Edge(flash[q], dst - 1) /\ MetasOk(flash[q])
  BY <1>2, <1>3, <1>5, <1>1, PageTypes, Sectors DEF CopyOk
<1>7. e \in Entry /\ Size(e) \in Nat \ {0}
  BY <1>3, <1>4, Sizes DEF MetasOk, MetaOk
<1>8. dst \in 1 .. Bottom - 1 /\ to \in 1 .. Bottom - 1 /\ to + Size(e) <= Bottom
  <2>1. Edge(flash[q], dst - 1) \in (dst - 1) + 1 .. Bottom /\ dst - 1 \in 0 .. Bottom - 1
    BY <1>6, EdgeFacts DEF PageOk
  <2> QED
    BY <2>1, <1>3, <1>4, <1>6, <1>7
<1>9. FlashTypes(f) /\ (\A p \in Page \ {q} : f[p] = flash[p]) /\ f[q][0] = BLANK
  <2>1. CASE Head(todo) = Program(q, to, Data(e, v))
    <3>1. PICK n : n = Size(e)
      OBVIOUS
    <3>2. PICK cells : cells = Data(e, v)
      OBVIOUS
    <3>3. /\ n \in Nat \ {0} /\ Len(cells) = n /\ to + n <= PAGE
          /\ \A k \in 1 .. n : cells[k] \in CellValue /\ MetaOk(cells[k], to + k - 1)
      <4>1. e \in Entry /\ v \in Value
        BY <1>4, <1>7
      <4>2. Len(cells) = n /\ \A k \in 1 .. n : \A x : cells[k] \in CellValue /\ MetaOk(cells[k], x)
        BY <4>1, <3>1, <3>2, DataFacts, Zenon
      <4>3. n \in Nat \ {0} /\ to + n <= PAGE
        BY <3>1, <1>3, <1>7, <1>8
      <4> QED
        BY <4>2, <4>3
    <3>4. Head(todo) = Program(q, to, cells)
      BY <2>1, <3>2
    <3>5. /\ FlashTypes(f) /\ \A p \in Page \ {q} : f[p] = flash[p]
          /\ PartOf(f[q], flash[q], to, cells, n)
      <4>1. /\ FlashTypes(flash) /\ q \in Page /\ to \in Cell /\ todo # << >> /\ f \in Interrupted
            /\ n \in Nat \ {0} /\ to + n <= PAGE /\ Len(cells) = n /\ Head(todo) = Program(q, to, cells)
        BY <1>1, <1>3, <1>4, <3>3, <3>4
      <4> QED
        BY <3>3, <4>1, InterruptedProgram, SMTT(30)
    <3>6. 0 \notin to .. to + n - 1 /\ 0 \in Cell
      BY <1>3, <1>8
    <3> QED
      BY <3>5, <3>6, <1>6 DEF PartOf
  <2>2. CASE Head(todo) = Program(q, dst, <<Meta(e, to)>>)
    <3>1. PICK c : c = Meta(e, to)
      OBVIOUS
    <3>2. PICK cells : cells = <<c>>
      OBVIOUS
    <3>3. PICK n : n = 1
      OBVIOUS
    <3>4. Len(cells) = n /\ cells[n] = c /\ n \in Nat \ {0}
      BY <3>2, <3>3
    <3>5. c \in CellValue /\ MetaOk(c, dst)
      <4>1. c.entry = e /\ c.offset = to /\ c \in CellValue
        BY <3>1, <1>7, <1>8, CellFacts
      <4>2. to \in dst + 1 .. Bottom - Size(e)
        BY <1>3, <1>4, <1>7, <1>8
      <4> QED
        BY <4>1, <4>2, <1>7 DEF MetaOk
    <3>6. \A k \in 1 .. n : cells[k] \in CellValue /\ MetaOk(cells[k], dst + k - 1)
      BY <3>3, <3>4, <3>5, <1>8
    <3>7. Head(todo) = Program(q, dst, cells) /\ dst + n <= PAGE
      BY <2>2, <3>1, <3>2, <3>3, <1>3, <1>8
    <3>8. /\ FlashTypes(f) /\ \A p \in Page \ {q} : f[p] = flash[p]
          /\ PartOf(f[q], flash[q], dst, cells, n)
      BY <3>4, <3>6, <3>7, <1>1, <1>3, <1>4, InterruptedProgram
    <3>9. 0 \notin dst .. dst + n - 1 /\ 0 \in Cell
      BY <3>3, <1>3, <1>8
    <3> QED
      BY <3>8, <3>9, <1>6 DEF PartOf
  <2> QED
    BY <2>1, <2>2, <1>4
<1>10. ~Valid(f, q)
  BY <1>9, CellFacts DEF Valid
<1>11. LosesPage(f, OtherPage)
  BY <1>2, <1>9, <1>10 DEF LosesPage
<1> QED
  BY <1>1, <1>3, <1>9, <1>10, <1>11, InvalidPage

(* A counter that is half written does not make a page valid.              *)
LEMMA InterruptedCounter ==
    ASSUME FlashTypes(flash), FlashOk(flash), mNvPageCounter \in Nat, NEW p \in Page, todo # << >>,
           \/ Head(todo) = Program(p, 0, <<Counter(mNvPageCounter)>>) /\ flash[p][0] = BLANK
           \/ /\ Head(todo) = Program(p, Bottom, <<Counter(mNvPageCounter)>>)
              /\ flash[p][0] = Counter(mNvPageCounter) /\ flash[p][Bottom] = BLANK,
           NEW f \in Interrupted
    PROVE  FlashTypes(f) /\ FlashOk(f) /\ LosesPage(f, p)
<1>1. PICK c, cells, n : c = Counter(mNvPageCounter) /\ cells = <<c>> /\ n = 1
  OBVIOUS
<1>2. Len(cells) = n /\ cells[n] = c /\ n \in Nat \ {0}
  BY <1>1
<1>3. c \in CellValue /\ c \notin {BLANK, TORN} /\ \A a : MetaOk(c, a)
  BY <1>1, CellFacts DEF MetaOk
<1>4. Bottom \in Nat /\ PAGE = Bottom + 1 /\ 0 \in Cell /\ Bottom \in Cell /\ Bottom # 0
  BY Sizes, Sectors
<1>5. PICK a \in Cell : /\ Head(todo) = Program(p, a, cells) /\ a \in {0, Bottom} /\ flash[p][a] = BLANK
                        /\ a = Bottom => flash[p][0] = c
  BY <1>1, <1>4
<1>6. \A k \in 1 .. n : cells[k] \in CellValue /\ MetaOk(cells[k], a + k - 1)
  BY <1>1, <1>2, <1>3
<1>7. a + n <= PAGE /\ a + n - 1 = a
  BY <1>1, <1>4, <1>5
<1>8. /\ FlashTypes(f) /\ \A q \in Page \ {p} : f[q] = flash[q]
      /\ PartOf(f[p], flash[p], a, cells, n)
  BY <1>2, <1>5, <1>6, <1>7, InterruptedProgram
<1>9. f[p][a] \in {BLANK, TORN} /\ (a = Bottom => f[p][0] = c)
  <2>1. a = Bottom => 0 \notin a .. a + n - 1
    BY <1>4, <1>7
  <2> QED
    BY <1>4, <1>5, <1>7, <1>8, <2>1 DEF PartOf
<1>10. ~Valid(f, p)
  BY <1>3, <1>5, <1>9, CellFacts DEF Valid
<1>11. LosesPage(f, p)
  BY <1>8, <1>10 DEF LosesPage
<1> QED
  BY <1>8, <1>10, <1>11, InvalidPage

LEMMA FormatFlash ==
    /\ BlankPage \in PageOfCells /\ \A a \in Cell : BlankPage[a] = BLANK
    /\ \A c : [BlankPage EXCEPT ![0] = c][0] = c /\ [BlankPage EXCEPT ![0] = c][Bottom] = BLANK
<1>1. BlankPage \in PageOfCells /\ \A a \in Cell : BlankPage[a] = BLANK
  BY CellFacts DEF BlankPage, PageOfCells
<1>2. 0 \in Cell /\ Bottom \in Cell /\ Bottom # 0
  BY Sectors, Sizes
<1> QED
  BY <1>1, <1>2 DEF BlankPage

(* A power failure leaves every valid page well formed.                    *)
LEMMA InterruptedOk ==
    ASSUME Types, FlashOk(flash), Phase, NEW f \in Interrupted
    PROVE  FlashTypes(f) /\ FlashOk(f) /\ KeptBy(f)
<1>1. FlashTypes(flash) /\ mNvPageCounter \in Nat
  BY DEF Types
<1>2. CASE f = flash
  BY <1>1, <1>2 DEF KeptBy
<1>3. CASE f # flash
  <2>1. todo # << >> /\ Head(todo).op \in {"program", "erase"}
    BY <1>3, Zenon DEF Interrupted
  <2>2. Head(todo).op \notin QuietNames
    BY <2>1 DEF QuietNames
  <2>3. \/ AtRecord \/ AtMeta \/ AtCopyRecord \/ AtCopyMeta \/ AtFirstCounter \/ AtLastCounter \/ AtFormatCounter
        \/ AtCopyErase \/ AtSyncErase \/ AtIdleErase \/ AtFormatErase
    BY <2>1, <2>2, PhaseOf
  <2>4. CASE AtRecord \/ AtMeta
    BY <2>4, InterruptedRecord DEF KeptBy
  <2>5. CASE AtCopyRecord \/ AtCopyMeta
    BY <2>5, InterruptedCopy DEF KeptBy
  <2>6. CASE AtFirstCounter
    <3>1. mNvActivePageId \in Page /\ flash[mNvActivePageId][0] = BLANK
          /\ Head(todo) = Program(mNvActivePageId, 0, <<Counter(mNvPageCounter)>>)
      BY <2>6 DEF AtFirstCounter, Switched
    <3>2. FlashTypes(f) /\ FlashOk(f) /\ LosesPage(f, mNvActivePageId)
      BY <1>1, <2>1, <3>1, InterruptedCounter
    <3> QED
      BY <2>6, <3>2 DEF AtFirstCounter, KeptBy
  <2>7. CASE AtLastCounter
    <3>1. mNvActivePageId \in Page /\ flash[mNvActivePageId][0] = Counter(mNvPageCounter)
          /\ flash[mNvActivePageId][Bottom] = BLANK
          /\ Head(todo) = Program(mNvActivePageId, Bottom, <<Counter(mNvPageCounter)>>)
      BY <2>7 DEF AtLastCounter, Switched
    <3>2. FlashTypes(f) /\ FlashOk(f) /\ LosesPage(f, mNvActivePageId)
      BY <1>1, <2>1, <3>1, InterruptedCounter
    <3> QED
      BY <2>7, <3>2 DEF AtLastCounter, KeptBy
  <2>8. CASE AtFormatCounter
    <3>1. PICK x : \/ flash[0] = BlankPage /\ todo = Formatted(<<x>>)
                   \/ /\ flash[0] = [BlankPage EXCEPT ![0] = Counter(mNvPageCounter)]
                      /\ todo = Tail(Formatted(<<x>>))
      BY <2>8 DEF AtFormatCounter
    <3>2. 0 \in Page /\ 0 \in Cell
      BY Sectors DEF Page
    <3>3. \/ Head(todo) = Program(0, 0, <<Counter(mNvPageCounter)>>) /\ flash[0][0] = BLANK
          \/ /\ Head(todo) = Program(0, Bottom, <<Counter(mNvPageCounter)>>)
             /\ flash[0][0] = Counter(mNvPageCounter) /\ flash[0][Bottom] = BLANK
      BY <3>1, <3>2, FormattedStack, FormatFlash
    <3>4. FlashTypes(f) /\ FlashOk(f) /\ LosesPage(f, 0)
      BY <1>1, <2>1, <3>2, <3>3, InterruptedCounter
    <3> QED
      BY <2>8, <3>2, <3>4 DEF KeptBy
  <2>9. CASE AtCopyErase \/ AtSyncErase \/ AtIdleErase \/ AtFormatErase
    <3>1. PICK p, s, t : /\ p \in Page /\ Head(todo) = EraseSectors(p, s, t)
                         /\ s = 0 \/ ~Is(flash[p][0], "counter")
                         /\ AtFormatErase \/ (RamOk(LastActive) /\ p = OtherPage)
      <4>1. CASE AtCopyErase \/ AtSyncErase
        <5>1. OtherPage \in Page /\ ErasingFromStart(Head(todo), OtherPage)
          BY <4>1, Other DEF AtCopyErase, AtSyncErase, RamOk
        <5> QED
          BY <4>1, <5>1, FromStart DEF AtCopyErase, AtSyncErase
      <4>2. CASE AtIdleErase
        <5>1. OtherPage \in Page
          BY <4>2, Other DEF AtIdleErase, RamOk
        <5>2. PICK s \in 0 .. SECTORS - 1 : /\ s > 0 => ~Is(flash[OtherPage][0], "counter")
                                            /\ Head(todo) = EraseSectors(OtherPage, s, s)
          BY <4>2 DEF AtIdleErase
        <5> QED
          BY <4>2, <5>1, <5>2 DEF AtIdleErase
      <4>3. CASE AtFormatErase
        <5>1. PICK p \in Page : ErasingFromStart(Head(todo), p)
          BY <4>3 DEF AtFormatErase, Page
        <5> QED
          BY <4>3, <5>1, FromStart
      <4> QED
        BY <2>9, <4>1, <4>2, <4>3
    <3>2. /\ FlashTypes(f) /\ \A q \in Page \ {p} : f[q] = flash[q]
          /\ f = flash \/ \A a \in Cell : f[p][a] = IF SectorOf(a) = s THEN TORN ELSE flash[p][a]
      BY <1>1, <2>1, <3>1, InterruptedErase
    <3>3. FlashOk(f) /\ LosesPage(f, p)
      BY <1>1, <3>1, <3>2, ErasedInvalid DEF LosesPage, Valid
    <3> QED
      BY <3>1, <3>2, <3>3 DEF KeptBy
  <2> QED
    BY <2>3, <2>4, <2>5, <2>6, <2>7, <2>8, <2>9
<1> QED
  BY <1>2, <1>3


-----------------------------------------------------------------------------
(* Each action keeps the invariant.                                        *)
LEMMA PowerLossStep ==
    ASSUME FlashInv, PowerLoss
    PROVE  FlashInv'
<1>1. Types /\ FlashOk(flash) /\ Phase
  BY DEF FlashInv
<1>2. PICK f \in Interrupted : flash' = f /\ stored' = Restored(f)
  BY DEF PowerLoss, BecomesFlash
<1>3. FlashTypes(flash') /\ FlashOk(flash')
  BY <1>1, <1>2, InterruptedOk
<1>4. Default \in Value
  BY NvStorageAssumption DEF Default
<1>5. Bottom \in Nat /\ 4 < Bottom /\ SECTORS \in Nat
  BY Sizes, Sectors
<1>6. Types'
  <2>1. FlashTypes(flash)'
    BY <1>3
  <2>2. ram' \in [Entry -> Value] /\ NvLastMetaInfoAddress' \in [Page -> 0 .. Bottom - 1]
    BY <1>4, <1>5 DEF PowerLoss, gEmptyPageMetaAddress_c
  <2>3. mNvErasePgCmdStatus' \in [pending : BOOLEAN, page : Page, sector : 0 .. SECTORS]
    BY <1>5 DEF PowerLoss, Page
  <2>4. mNvActivePageId' \in Page \union {gVirtualPageNone_c} /\ mNvPageCounter' \in Nat
    BY DEF PowerLoss
  <2>5. mNvPendingSavesQueue' \in Seq(Entry \union {ALL})
    BY DEF PowerLoss
  <2>6. /\ mNvCopyOperationIsPending' \in BOOLEAN /\ mNvModuleInitialized' \in BOOLEAN
        /\ mNvCriticalSectionFlag' \in Nat /\ boot' \in {"off", "NvModuleInit", "ok"}
    BY DEF PowerLoss
  <2> QED
    BY <2>1, <2>2, <2>3, <2>4, <2>5, <2>6 DEF Types
<1>7. Phase'
  BY QuietEmpty DEF PowerLoss, Phase, AtQuiet
<1>8. BootOk'
  BY DEF PowerLoss, BootOk
<1> QED
  BY <1>2, <1>3, <1>6, <1>7, <1>8 DEF FlashInv

LEMMA RestStep ==
    ASSUME FlashInv, UNCHANGED <<flash, stored>>, Types', BootOk', Phase'
    PROVE  FlashInv'
BY DEF FlashInv

(* What the RAM knows of the flash stays as it is.                         *)
LEMMA RamFrame ==
    ASSUME UNCHANGED <<flash, mNvActivePageId, mNvPageCounter, mNvModuleInitialized>>, NEW last, RamOk(last)
    PROVE  RamOk(last)' /\ OtherPage' = OtherPage
BY DEF RamOk, OtherPage

LEMMA ActiveFrame ==
    ASSUME UNCHANGED <<flash, mNvActivePageId, mNvPageCounter, mNvModuleInitialized, NvLastMetaInfoAddress>>
    PROVE  LastActive' = LastActive /\ OtherPage' = OtherPage /\ (RamOk(LastActive) => RamOk(LastActive)')
           /\ (Fresh => Fresh')
BY DEF RamOk, OtherPage, LastActive, Fresh

LEMMA EraseFrame ==
    ASSUME UNCHANGED <<flash, mNvActivePageId, mNvErasePgCmdStatus>>
    PROVE  (EraseOk => EraseOk') /\ (ToErase => ToErase')
BY DEF EraseOk, ToErase, OtherPage

LEMMA StillQuiet ==
    ASSUME AtQuiet, mNvModuleInitialized, Quiet(todo'),
           UNCHANGED <<flash, mNvActivePageId, mNvPageCounter, NvLastMetaInfoAddress, mNvErasePgCmdStatus,
                       mNvModuleInitialized>>
    PROVE  AtQuiet'
<1>1. RamOk(LastActive) /\ EraseOk
  BY DEF AtQuiet
<1>2. RamOk(LastActive)' /\ EraseOk'
  BY <1>1, ActiveFrame, EraseFrame
<1> QED
  BY <1>2 DEF AtQuiet

(* What runs is one of these, and the module is initialised.               *)
LEMMA QuietRunning ==
    ASSUME FlashInv, todo # << >>,
           Head(todo).op \in QuietNames \ {"NvWriteRecord", "NvIdle", "NvShutdown"}
    PROVE  AtQuiet /\ mNvModuleInitialized /\ Quiet(Rest) /\ Head(todo) \in QuietOp /\ Quiet(todo)
           /\ RamOk(LastActive) /\ EraseOk
<1>1. AtQuiet
  BY PhaseOf DEF FlashInv, QuietNames
<1>2. Quiet(todo) /\ Quiet(Rest) /\ Head(todo) \in QuietOp
  BY <1>1, QuietTail DEF AtQuiet, Rest
<1>3. mNvModuleInitialized
  <2>1. Head(<<Call("NvIdle")>>).op = "NvIdle" /\ Head(<<Call("NvShutdown")>>).op = "NvShutdown"
    BY StackCall
  <2> QED
    BY <1>1, <2>1 DEF AtQuiet
<1> QED
  BY <1>1, <1>2, <1>3 DEF AtQuiet

(* Actions after which only quiet operations are left.                     *)
LEMMA BootFrame ==
    ASSUME BootOk, mNvModuleInitialized, UNCHANGED <<boot, mNvModuleInitialized>>
    PROVE  BootOk'
BY DEF BootOk

LEMMA QueueTypes ==
    ASSUME Types, mNvPendingSavesQueue' \in Seq(Entry \union {ALL}), mNvCopyOperationIsPending' \in BOOLEAN,
           UNCHANGED <<flash, mNvActivePageId, mNvPageCounter, NvLastMetaInfoAddress, mNvErasePgCmdStatus,
                       mNvModuleInitialized, mNvCriticalSectionFlag, ram, boot>>
    PROVE  Types'
BY DEF Types

LEMMA QuietAction ==
    ASSUME FlashInv, AtQuiet, mNvModuleInitialized, Quiet(todo'),
           mNvPendingSavesQueue' \in Seq(Entry \union {ALL}), mNvCopyOperationIsPending' \in BOOLEAN,
           UNCHANGED <<flash, stored, mNvActivePageId, mNvPageCounter, NvLastMetaInfoAddress, mNvErasePgCmdStatus,
                       mNvModuleInitialized, mNvCriticalSectionFlag, ram, boot>>
    PROVE  FlashInv'
<1>1. AtQuiet'
  BY StillQuiet
<1>2. Types' /\ BootOk'
  BY BootFrame, QueueTypes DEF FlashInv
<1> QED
  BY <1>1, <1>2, RestStep DEF Phase

LEMMA QuietFields ==
    ASSUME NEW o \in QuietOp
    PROVE  /\ o.op \in {"NvAddSaveRequestToQueue", "NvPushPendingSave"} => o.entry \in Entry \union {ALL}
           /\ o.op = "NvSyncSave" => o.entry \in Entry /\ o.last \in Entry
           /\ o.op = "NvWriteRecord" => o.entry \in Entry
                                          /\ o.by \in {"NvSyncSave", "NvIdle", "NvProcessFirstSaveInQueue"}
<1>1. CASE o \in [op : {"NvAtomicSave", "NvProcessFirstSaveInQueue", "NvIdle", "erase sector", "saves",
                        "NvCompletePendingOperations", "NvShutdown"}]
  BY <1>1
<1>2. CASE o \in [op : {"NvAddSaveRequestToQueue", "NvPushPendingSave"}, entry : Entry \union {ALL}]
  BY <1>2
<1>3. CASE o \in [op : {"NvSyncSave"}, entry : Entry, last : Entry]
  BY <1>3
<1>4. CASE o \in [op : {"NvWriteRecord"}, entry : Entry, by : {"NvSyncSave", "NvIdle", "NvProcessFirstSaveInQueue"}]
  BY <1>4
<1> QED
  BY <1>1, <1>2, <1>3, <1>4 DEF QuietOp

LEMMA QuietOps ==
    /\ \A name \in {"NvAtomicSave", "NvProcessFirstSaveInQueue", "NvIdle", "erase sector", "saves",
                    "NvCompletePendingOperations", "NvShutdown"} : Call(name) \in QuietOp
    /\ \A e \in Entry \union {ALL} : /\ CallFor("NvAddSaveRequestToQueue", e) \in QuietOp
                                     /\ CallFor("NvPushPendingSave", e) \in QuietOp
    /\ \A e, l \in Entry : SyncSave(e, l) \in QuietOp
    /\ \A e \in Entry : /\ WriteRecord(e, "NvSyncSave") \in QuietOp
                        /\ WriteRecord(e, "NvIdle") \in QuietOp
                        /\ WriteRecord(e, "NvProcessFirstSaveInQueue") \in QuietOp
<1>1. \A name \in {"NvAtomicSave", "NvProcessFirstSaveInQueue", "NvIdle", "erase sector", "saves",
                   "NvCompletePendingOperations", "NvShutdown"} : Call(name) \in QuietOp
  BY DEF QuietOp, Call
<1>2. \A e \in Entry \union {ALL} : /\ CallFor("NvAddSaveRequestToQueue", e) \in QuietOp
                                    /\ CallFor("NvPushPendingSave", e) \in QuietOp
  BY DEF QuietOp, CallFor
<1>3. \A e, l \in Entry : SyncSave(e, l) \in QuietOp
  BY DEF QuietOp, SyncSave
<1>4. \A e \in Entry : /\ WriteRecord(e, "NvSyncSave") \in QuietOp
                       /\ WriteRecord(e, "NvIdle") \in QuietOp
                       /\ WriteRecord(e, "NvProcessFirstSaveInQueue") \in QuietOp
  BY DEF QuietOp, WriteRecord
<1> QED
  BY <1>1, <1>2, <1>3, <1>4

LEMMA QuietPush2 ==
    ASSUME NEW q, Quiet(q), NEW a \in QuietOp, NEW b \in QuietOp
    PROVE  Quiet(<<a, b>> \o q)
<1>1. Quiet(<<b>> \o q)
  BY QuietPush
<1>2. Quiet(<<a>> \o (<<b>> \o q))
  BY <1>1, QuietPush
<1>3. <<a, b>> \o q = <<a>> \o (<<b>> \o q)
  BY StackPush2 DEF Quiet
<1> QED
  BY <1>2, <1>3, Zenon

LEMMA QueueSteps ==
    ASSUME FlashInv, NvAddSaveRequestToQueue \/ NvPushPendingSave
    PROVE  FlashInv'
<1>1. PICK e : e = Head(todo).entry
  OBVIOUS
<1>2. /\ AtQuiet /\ mNvModuleInitialized /\ Quiet(Rest) /\ e \in Entry \union {ALL}
      /\ mNvPendingSavesQueue \in Seq(Entry \union {ALL}) /\ mNvCopyOperationIsPending \in BOOLEAN
  BY <1>1, QuietRunning, QuietFields DEF NvAddSaveRequestToQueue, NvPushPendingSave, Running, QuietNames, FlashInv, Types
<1>3. Append(mNvPendingSavesQueue, e) \in Seq(Entry \union {ALL})
  BY <1>2
<1>4. Quiet(<<Call("NvProcessFirstSaveInQueue"), CallFor("NvPushPendingSave", e)>> \o Rest)
  BY <1>2, QuietPush2, QuietOps
<1>5. Quiet(todo') /\ mNvPendingSavesQueue' \in Seq(Entry \union {ALL})
  BY <1>1, <1>2, <1>3, <1>4 DEF NvAddSaveRequestToQueue, NvPushPendingSave
<1> QED
  BY <1>2, <1>5, QuietAction DEF NvAddSaveRequestToQueue, NvPushPendingSave

LEMMA PopSteps ==
    ASSUME FlashInv, NvProcessFirstSaveInQueue \/ NvIdle_saves
    PROVE  FlashInv'
<1>1. /\ AtQuiet /\ mNvModuleInitialized /\ Quiet(Rest) /\ Quiet(todo)
      /\ mNvPendingSavesQueue \in Seq(Entry \union {ALL}) /\ mNvCopyOperationIsPending \in BOOLEAN
  BY QuietRunning DEF NvProcessFirstSaveInQueue, NvIdle_saves, Running, QuietNames, FlashInv, Types
<1>2. ASSUME mNvPendingSavesQueue # << >>,
             NEW by \in {"NvIdle", "NvProcessFirstSaveInQueue"}, NEW more, Quiet(more), Pop(by, more)
      PROVE  Quiet(todo') /\ mNvPendingSavesQueue' \in Seq(Entry \union {ALL})
  <2>1. PICK e : e = Head(mNvPendingSavesQueue)
    OBVIOUS
  <2>2. e \in Entry \union {ALL} /\ Tail(mNvPendingSavesQueue) \in Seq(Entry \union {ALL})
    BY <1>1, <1>2, <2>1
  <2>3. Quiet(<<Call("NvAtomicSave")>> \o todo)
    BY <1>1, QuietPush, QuietOps
  <2>4. e # ALL => Quiet(<<WriteRecord(e, by)>> \o more)
    BY <1>2, <2>2, QuietPush, QuietOps
  <2> QED
    BY <1>2, <2>1, <2>2, <2>3, <2>4 DEF Pop
<1>3. Quiet(todo') /\ mNvPendingSavesQueue' \in Seq(Entry \union {ALL})
  BY <1>1, <1>2 DEF NvProcessFirstSaveInQueue, NvIdle_saves
<1> QED
  BY <1>1, <1>3, QuietAction DEF NvProcessFirstSaveInQueue, NvIdle_saves

LEMMA SyncSaveSteps ==
    ASSUME FlashInv, NvSyncSave \/ NvAtomicSave \/ NvCompletePendingOperations
    PROVE  FlashInv'
<1>1. PICK o : o = Head(todo)
  OBVIOUS
<1>2. /\ AtQuiet /\ mNvModuleInitialized /\ Quiet(Rest) /\ Quiet(todo) /\ o \in QuietOp
      /\ mNvPendingSavesQueue \in Seq(Entry \union {ALL}) /\ mNvCopyOperationIsPending \in BOOLEAN
  BY <1>1, QuietRunning DEF NvSyncSave, NvAtomicSave, NvCompletePendingOperations, Running, QuietNames, FlashInv, Types
<1>3. CASE NvSyncSave
  <2>1. o.entry \in Entry /\ o.last \in Entry
    BY <1>1, <1>2, <1>3, QuietFields DEF NvSyncSave, Running
  <2>2. Quiet(<<CallFor("NvAddSaveRequestToQueue", o.entry)>> \o Rest)
    BY <1>2, <2>1, QuietPush, QuietOps
  <2>3. o.entry + 1 \in Entry \/ ~(o.entry < o.last)
    BY <2>1, Sizes
  <2>4. Stack(Rest) /\ << >> \o Rest = Rest
    BY <1>2, StackAgain DEF Quiet
  <2>5. Quiet(<<WriteRecord(o.entry, "NvSyncSave")>> \o Rest)
    BY <1>2, <2>1, QuietPush, QuietOps
  <2>6. o.entry < o.last => Quiet(<<WriteRecord(o.entry, "NvSyncSave"), SyncSave(o.entry + 1, o.last)>> \o Rest)
    BY <1>2, <2>1, <2>3, QuietPush2, QuietOps
  <2>7. \A a, b : <<a>> \o <<b>> = <<a, b>> /\ <<a>> \o << >> = <<a>>
    BY StackPair, Zenon
  <2>8. Quiet(todo')
    BY <1>1, <1>3, <2>2, <2>5, <2>6, <2>7 DEF NvSyncSave
  <2> QED
    BY <1>2, <1>3, <2>8, QuietAction DEF NvSyncSave, ramState
<1>4. CASE NvAtomicSave
  <2>1. Stack(Rest) /\ << >> \o Rest = Rest
    BY <1>2, StackAgain DEF Quiet
  <2>2. Quiet(<<SyncSave(1, Len(pNVM_DataTable))>> \o Rest)
    <3>1. SyncSave(1, Len(pNVM_DataTable)) \in QuietOp
      <4>1. 1 \in Entry /\ Len(pNVM_DataTable) \in Entry
        BY Sizes
      <4> QED
        BY <4>1, QuietOps, Zenon
    <3> QED
      BY <1>2, <3>1, QuietPush
  <2>3. Quiet(todo')
    BY <1>2, <1>4, <2>1, <2>2 DEF NvAtomicSave
  <2>4. mNvPendingSavesQueue' \in Seq(Entry \union {ALL})
    <3>1. << >> \in Seq(Entry \union {ALL}) /\ <<ALL>> \in Seq(Entry \union {ALL})
      OBVIOUS
    <3> QED
      BY <1>4, <3>1 DEF NvAtomicSave
  <2> QED
    BY <1>2, <1>4, <2>3, <2>4, QuietAction DEF NvAtomicSave
<1>5. CASE NvCompletePendingOperations
  <2>1. Quiet(<<Call("NvIdle")>> \o todo)
    BY <1>2, QuietPush, QuietOps
  <2>2. Quiet(todo')
    BY <1>2, <1>5, <2>1 DEF NvCompletePendingOperations
  <2> QED
    BY <1>2, <1>5, <2>2, QuietAction DEF NvCompletePendingOperations, ramState
<1> QED
  BY <1>3, <1>4, <1>5

(* Where NvWriteRecord places a record.                                    *)
LEMMA MinFacts ==
    ASSUME NEW T, T \subseteq Nat, T # {}
    PROVE  Min(T) \in T /\ \A k \in T : Min(T) <= k
<1>1. \E m \in T : \A k \in T : m <= k
  BY LeastNat
<1> QED
  BY <1>1 DEF Min

LEMMA FreeSpace ==
    ASSUME Types, RamOk(LastActive)
    PROVE  LET g == flash[mNvActivePageId] IN
           /\ NvGetPageFreeSpace(mNvActivePageId, LastActive) = Edge(g, LastActive) - (LastActive + 1)
           /\ Edge(g, LastActive) \in LastActive + 1 .. Bottom /\ LastActive \in 0 .. Bottom - 1
           /\ g \in PageOfCells /\ MetasOk(g) /\ PageOk(g, LastActive) /\ Bottom \in Nat /\ PAGE = Bottom + 1
<1>1. /\ flash[mNvActivePageId] \in PageOfCells /\ MetasOk(flash[mNvActivePageId])
      /\ PageOk(flash[mNvActivePageId], LastActive) /\ Bottom \in Nat /\ PAGE = Bottom + 1
  BY PageTypes, Sizes DEF Types, RamOk, Bottom
<1>2. /\ Edge(flash[mNvActivePageId], LastActive) \in LastActive + 1 .. Bottom
      /\ LastActive \in 0 .. Bottom - 1
  BY <1>1, EdgeFacts DEF PageOk
<1> QED
  BY <1>1, <1>2 DEF NvGetPageFreeSpace, gEmptyPageMetaAddress_c, Edge

LEMMA RoomFacts ==
    ASSUME Types, RamOk(LastActive), NEW e \in Entry, NEW at \in Room(e)
    PROVE  /\ at.record \in Cell /\ at.meta \in Cell /\ Placed(e, at.record, at.meta)
           /\ \A k \in 1 .. Size(e) : flash[mNvActivePageId][at.record + k - 1] = BLANK
<1>1. PICK g, last, size, edge, p :
          /\ p = mNvActivePageId /\ g = flash[p] /\ last = LastActive /\ size = Size(e) /\ edge = Edge(g, last)
  OBVIOUS
<1>2. /\ NvGetPageFreeSpace(p, last) = edge - (last + 1)
      /\ edge \in last + 1 .. Bottom /\ last \in 0 .. Bottom - 1
      /\ Bottom \in Nat /\ PAGE = Bottom + 1 /\ Cell = 0 .. Bottom
  BY <1>1, FreeSpace DEF Cell
<1>3. size \in Nat \ {0}
  BY <1>1, Sizes
<1>4. PICK skipped : skipped = {i \in 0 .. PAGE : NvIsMemoryAreaAvailable(p, (edge - size) - i * size, size)}
  OBVIOUS
<1>5. PICK metas : metas = {a \in last + 1 .. Bottom : NvIsMemoryAreaAvailable(p, a, 1)}
  OBVIOUS
<1>6. edge = IF last = 0 THEN Bottom ELSE g[last].offset
  BY <1>1 DEF Edge
<1>7. /\ skipped # {} /\ metas # {}
      /\ size + 2 < (edge - (last + 1)) - Min(skipped) * size - (Min(metas) - (last + 1))
      /\ at = [record |-> (edge - size) - Min(skipped) * size, meta |-> Min(metas)]
  <2>1. Room(e) = IF \/ skipped = {} \/ metas = {}
                     \/ size + 2 >= (edge - (last + 1)) - Min(skipped) * size - (Min(metas) - (last + 1))
                  THEN {} ELSE {[record |-> (edge - size) - Min(skipped) * size, meta |-> Min(metas)]}
    BY <1>1, <1>2, <1>4, <1>5, <1>6 DEF Room, gEmptyPageMetaAddress_c, LastActive, Size
  <2>2. (Min(skipped) \in Nat /\ Min(metas) \in Nat) \/ skipped = {} \/ metas = {}
    <3>1. skipped \subseteq Nat /\ metas \subseteq Nat
      BY <1>2, <1>4, <1>5
    <3> QED
      BY <3>1, MinFacts
  <2> QED
    BY <2>1, <2>2, <1>2, <1>3
<1>8. PICK i, m : i = Min(skipped) /\ m = Min(metas)
  OBVIOUS
<1>9. /\ i \in skipped /\ m \in metas /\ \A a \in metas : m <= a
  <2>1. skipped \subseteq Nat /\ metas \subseteq Nat
    BY <1>2, <1>4, <1>5
  <2> QED
    BY <2>1, <1>7, <1>8, MinFacts
<1>10. PICK s : s = i * size
  OBVIOUS
<1>11. s \in Nat /\ i \in Nat
  <2>1. i \in Nat
    BY <1>2, <1>4, <1>9
  <2> QED
    BY <2>1, <1>3, <1>10
<1>12. PICK r : r = (edge - size) - s
  OBVIOUS
<1>13. /\ r >= 0 /\ r + size <= PAGE /\ \A b \in r .. r + size - 1 : g[b] = BLANK
  BY <1>1, <1>4, <1>9, <1>10, <1>12 DEF NvIsMemoryAreaAvailable
<1>14. m \in last + 1 .. Bottom /\ g[m] = BLANK
  BY <1>1, <1>2, <1>5, <1>9 DEF NvIsMemoryAreaAvailable
<1>15. size + 2 < (edge - (last + 1)) - s - (m - (last + 1)) /\ at.record = r /\ at.meta = m
  BY <1>7, <1>8, <1>10, <1>12
<1>16. /\ r \in Cell /\ m \in Cell /\ last < m /\ m + 3 <= r /\ r + size <= edge
  BY <1>2, <1>3, <1>11, <1>12, <1>13, <1>14, <1>15
<1>17. ASSUME NEW a \in last + 1 .. m - 1
       PROVE  g[a] # BLANK
  <2>1. a \in last + 1 .. Bottom /\ a \in Nat /\ a < m /\ ~(m <= a)
    BY <1>2, <1>14
  <2>2. ~NvIsMemoryAreaAvailable(p, a, 1)
    BY <2>1, <1>5, <1>9
  <2>3. a >= 0 /\ a + 1 <= PAGE /\ a .. a + 1 - 1 = {a}
    BY <2>1, <1>2
  <2> QED
    BY <2>2, <2>3, <1>1 DEF NvIsMemoryAreaAvailable
<1>18. Placed(e, r, m)
  BY <1>1, <1>14, <1>16, <1>17 DEF Placed
<1>19. \A k \in 1 .. Size(e) : g[r + k - 1] = BLANK
  BY <1>1, <1>2, <1>3, <1>13, <1>16
<1> QED
  BY <1>1, <1>15, <1>16, <1>18, <1>19

(* After a page copy there is room for every record.                       *)
LEMMA RoomAfterCopy ==
    ASSUME Types, RamOk(LastActive), Fresh, NEW e \in Entry
    PROVE  Room(e) # {}
<1>1. PICK g, last, size, edge, p :
          /\ p = mNvActivePageId /\ g = flash[p] /\ last = LastActive /\ size = Size(e) /\ edge = Edge(g, last)
  OBVIOUS
<1>2. /\ NvGetPageFreeSpace(p, last) = edge - (last + 1)
      /\ edge \in last + 1 .. Bottom /\ last \in 0 .. Bottom - 1
      /\ Bottom \in Nat /\ PAGE = Bottom + 1 /\ Cell = 0 .. Bottom
  BY <1>1, FreeSpace DEF Cell
<1>3. size \in Nat \ {0} /\ size + 2 < edge - (last + 1) /\ \A a \in last + 1 .. edge - 1 : g[a] = BLANK
  BY <1>1, Sizes DEF Fresh
<1>4. PICK skipped : skipped = {i \in 0 .. PAGE : NvIsMemoryAreaAvailable(p, (edge - size) - i * size, size)}
  OBVIOUS
<1>5. PICK metas : metas = {a \in last + 1 .. Bottom : NvIsMemoryAreaAvailable(p, a, 1)}
  OBVIOUS
<1>6. edge = IF last = 0 THEN Bottom ELSE g[last].offset
  BY <1>1 DEF Edge
<1>7. NvIsMemoryAreaAvailable(p, edge - size, size) /\ NvIsMemoryAreaAvailable(p, last + 1, 1)
  <2>1. /\ edge - size >= 0 /\ (edge - size) + size <= PAGE
        /\ \A b \in edge - size .. (edge - size) + size - 1 : g[b] = BLANK
    BY <1>2, <1>3
  <2>2. last + 1 >= 0 /\ (last + 1) + 1 <= PAGE /\ \A b \in last + 1 .. (last + 1) + 1 - 1 : g[b] = BLANK
    BY <1>2, <1>3
  <2> QED
    BY <2>1, <2>2, <1>1 DEF NvIsMemoryAreaAvailable
<1>8. 0 \in skipped /\ last + 1 \in metas /\ skipped \subseteq Nat /\ metas \subseteq last + 1 .. Bottom
  <2>1. (edge - size) - 0 * size = edge - size
    BY <1>2, <1>3
  <2> QED
    BY <2>1, <1>2, <1>4, <1>5, <1>7
<1>9. Min(skipped) = 0 /\ Min(metas) = last + 1
  <2>1. metas \subseteq Nat /\ skipped # {} /\ metas # {}
    BY <1>2, <1>8
  <2>2. Min(skipped) \in Nat /\ Min(skipped) <= 0 /\ Min(metas) \in last + 1 .. Bottom /\ Min(metas) <= last + 1
    BY <2>1, <1>8, MinFacts
  <2> QED
    BY <2>2, <1>2
<1>10. PICK i, m : i = Min(skipped) /\ m = Min(metas)
  OBVIOUS
<1>11. Room(e) = IF skipped = {} \/ metas = {} \/ size + 2 >= (edge - (last + 1)) - i * size - (m - (last + 1))
                 THEN {} ELSE {[record |-> (edge - size) - i * size, meta |-> m]}
  BY <1>1, <1>2, <1>4, <1>5, <1>6, <1>10 DEF Room, gEmptyPageMetaAddress_c, LastActive, Size
<1>12. i * size = 0 /\ ~(size + 2 >= (edge - (last + 1)) - i * size - (m - (last + 1)))
  BY <1>2, <1>3, <1>9, <1>10
<1> QED
  BY <1>8, <1>11, <1>12

LEMMA StackAssoc ==
    ASSUME NEW q, Stack(q), NEW r, Stack(r), NEW s, Stack(s)
    PROVE  (q \o r) \o s = q \o (r \o s)
<1> DEFINE S == {q[k] : k \in DOMAIN q} \union {r[k] : k \in DOMAIN r} \union {s[k] : k \in DOMAIN s}
<1>1. ASSUME NEW t, Stack(t), {t[k] : k \in DOMAIN t} \subseteq S
      PROVE  t \in Seq(S)
  <2>1. t \in Seq({t[k] : k \in DOMAIN t})
    BY <1>1 DEF Stack
  <2>2. t \in [1 .. Len(t) -> {t[k] : k \in DOMAIN t}] /\ Len(t) \in Nat
    BY <2>1, LenProperties
  <2>3. t \in [1 .. Len(t) -> S]
    BY <2>2, <1>1
  <2> QED
    BY <2>2, <2>3, SeqDef
<1>2. q \in Seq(S) /\ r \in Seq(S) /\ s \in Seq(S)
  BY <1>1
<1> HIDE DEF S
<1> QED
  BY <1>2, ConcatAssociative

LEMMA NotEmpty ==
    ASSUME NEW w, Len(w) \in Nat \ {0}
    PROVE  w # << >>
<1>1. w = << >> => Len(w) = Len(<< >>)
  BY Zenon
<1>2. Len(<< >>) = 0
  OBVIOUS
<1> QED
  BY <1>1, <1>2

(* The head and the tail of what is pushed.                                *)
LEMMA PushedTail ==
    ASSUME NEW q, Stack(q), NEW w, Stack(w), w # << >>, NEW s, s = w \o q
    PROVE  Stack(s) /\ s # << >> /\ Head(s) = w[1] /\ Tail(s) = Tail(w) \o q /\ Stack(Tail(w))
<1> DEFINE S == {q[k] : k \in DOMAIN q} \union {w[k] : k \in DOMAIN w}
<1>1. ASSUME NEW t, Stack(t), {t[k] : k \in DOMAIN t} \subseteq S
      PROVE  t \in Seq(S)
  <2>1. t \in Seq({t[k] : k \in DOMAIN t})
    BY <1>1 DEF Stack
  <2>2. t \in [1 .. Len(t) -> {t[k] : k \in DOMAIN t}] /\ Len(t) \in Nat
    BY <2>1, LenProperties
  <2>3. t \in [1 .. Len(t) -> S]
    BY <2>2, <1>1
  <2> QED
    BY <2>2, <2>3, SeqDef
<1>2. q \in Seq(S) /\ w \in Seq(S)
  BY <1>1
<1> HIDE DEF S
<1>3. Stack(w) /\ w # << >> /\ Stack(Tail(w)) /\ Len(w) \in Nat \ {0}
  BY StackTail
<1>4. PICK t : t = Tail(w)
  OBVIOUS
<1>5. t \in Seq(S) /\ Len(t) = Len(w) - 1 /\ \A k \in 1 .. Len(t) : t[k] = w[k + 1]
  BY <1>2, <1>4, HeadTailProperties
<1>6. /\ s \in Seq(S) /\ Len(s) = Len(w) + Len(q) /\ Len(q) \in Nat
      /\ \A k \in 1 .. Len(s) : s[k] = IF k <= Len(w) THEN w[k] ELSE q[k - Len(w)]
  BY <1>2, ConcatProperties, LenProperties
<1>7. s # << >> /\ Head(s) = w[1]
  BY <1>3, <1>6
<1>8. PICK u : u = t \o q
  OBVIOUS
<1>9. /\ u \in Seq(S) /\ Len(u) = Len(t) + Len(q)
      /\ \A k \in 1 .. Len(u) : u[k] = IF k <= Len(t) THEN t[k] ELSE q[k - Len(t)]
  BY <1>2, <1>5, <1>8, ConcatProperties
<1>10. PICK x : x = Tail(s)
  OBVIOUS
<1>11. x \in Seq(S) /\ Len(x) = Len(s) - 1 /\ \A k \in 1 .. Len(x) : x[k] = s[k + 1]
  BY <1>6, <1>7, <1>10, HeadTailProperties
<1>12. \A k \in 1 .. Len(x) : x[k] = u[k]
  BY <1>3, <1>5, <1>6, <1>9, <1>11
<1>13. x = u
  <2>1. Len(x) = Len(u)
    BY <1>3, <1>5, <1>6, <1>9, <1>11
  <2> QED
    BY <1>9, <1>11, <1>12, <2>1, SeqEqual, SMTT(30)
<1>14. Stack(s)
  <2>1. s \in [1 .. Len(s) -> S] /\ Len(s) \in Nat /\ DOMAIN s = 1 .. Len(s)
    BY <1>6, LenProperties
  <2>2. PICK R : R = {s[k] : k \in DOMAIN s}
    OBVIOUS
  <2>3. s \in [1 .. Len(s) -> R]
    BY <2>1, <2>2
  <2>4. s \in Seq(R)
    BY <2>1, <2>3, SeqDef
  <2> QED
    BY <2>2, <2>4 DEF Stack
<1> QED
  BY <1>3, <1>4, <1>7, <1>8, <1>10, <1>13, <1>14

Push2(s, w, q) ==
    /\ Stack(s) /\ s # << >> /\ Head(s) = w[1]
    /\ Stack(Tail(s)) /\ Tail(s) # << >> /\ Head(Tail(s)) = w[2]
    /\ Tail(Tail(s)) = q
LEMMA Pushed2 ==
    ASSUME NEW q, Stack(q), NEW w, Stack(w), Len(w) = 2, NEW s, s = w \o q
    PROVE  Push2(s, w, q)
<1>1. PICK t : t = Tail(w)
  OBVIOUS
<1>2. w # << >> /\ Stack(t) /\ Len(t) = 1 /\ t # << >> /\ t[1] = w[2]
  <2>1. w # << >>
    BY NotEmpty, SMTT(30)
  <2>2. /\ Stack(t) /\ Len(t) = Len(w) - 1 /\ DOMAIN t = 1 .. Len(t)
        /\ \A k \in DOMAIN t : t[k] = w[k + 1]
    BY <1>1, <2>1, StackTail
  <2>3. Len(t) = 1 /\ Len(t) \in Nat \ {0} /\ \A k \in 1 .. 1 : k \in DOMAIN t
    BY <2>2
  <2>4. t # << >>
    BY <2>3, NotEmpty
  <2> QED
    BY <2>1, <2>2, <2>3, <2>4
<1>3. Stack(s) /\ s # << >> /\ Head(s) = w[1] /\ Tail(s) = t \o q
  BY <1>1, <1>2, PushedTail
<1>4. PICK u : u = Tail(s)
  OBVIOUS
<1>5. Stack(u) /\ u # << >> /\ Head(u) = t[1] /\ Tail(u) = Tail(t) \o q
  BY <1>2, <1>3, <1>4, PushedTail
<1>6. Tail(t) = << >>
  <2>1. Stack(Tail(t)) /\ Len(Tail(t)) = 0
    BY <1>2, StackTail
  <2> QED
    BY <2>1, EmptySeq DEF Stack
<1>7. Tail(u) = q
  BY <1>5, <1>6, StackAgain, Zenon
<1> QED
  BY <1>2, <1>3, <1>4, <1>5, <1>7, Zenon DEF Push2

Push3(s, w, q) ==
    /\ Stack(s) /\ s # << >> /\ Head(s) = w[1]
    /\ Stack(Tail(s)) /\ Tail(s) # << >> /\ Head(Tail(s)) = w[2]
    /\ Stack(Tail(Tail(s))) /\ Tail(Tail(s)) # << >> /\ Head(Tail(Tail(s))) = w[3]
    /\ Tail(Tail(Tail(s))) = q
LEMMA Pushed3 ==
    ASSUME NEW q, Stack(q), NEW w, Stack(w), Len(w) = 3, NEW s, s = w \o q
    PROVE  Push3(s, w, q)
<1>1. PICK t : t = Tail(w)
  OBVIOUS
<1>2. w # << >> /\ Stack(t) /\ Len(t) = 2 /\ t[1] = w[2] /\ t[2] = w[3]
  <2>1. w # << >>
    BY NotEmpty
  <2>2. /\ Stack(t) /\ Len(t) = Len(w) - 1 /\ DOMAIN t = 1 .. Len(t)
        /\ \A k \in DOMAIN t : t[k] = w[k + 1]
    BY <1>1, <2>1, StackTail
  <2>3. Len(t) = 2 /\ Len(t) \in Nat \ {0} /\ \A k \in 1 .. 2 : k \in DOMAIN t
    BY <2>2
  <2>4. t # << >>
    BY <2>3, NotEmpty
  <2> QED
    BY <2>1, <2>2, <2>3, <2>4
<1>3. Stack(s) /\ s # << >> /\ Head(s) = w[1] /\ Tail(s) = t \o q
  BY <1>1, <1>2, PushedTail
<1>4. PICK u : u = Tail(s)
  OBVIOUS
<1>5. /\ Stack(u) /\ u # << >> /\ Head(u) = w[2]
      /\ Stack(Tail(u)) /\ Tail(u) # << >> /\ Head(Tail(u)) = w[3] /\ Tail(Tail(u)) = q
  <2>1. u = t \o q
    BY <1>3, <1>4
  <2>2. Push2(u, t, q)
    <3>1. Stack(t) /\ Len(t) = 2
      BY <1>2
    <3> QED
      BY <2>1, <3>1, Pushed2
  <2> QED
    BY <2>2, <1>2, Zenon DEF Push2
<1> QED
  BY <1>3, <1>4, <1>5, Zenon DEF Push3

(* A page copy and the erases and saves of the idle task after it.         *)
LEMMA Pushed4 ==
    ASSUME NEW q, Stack(q), NEW w, Stack(w), Len(w) = 2, NEW x, Stack(x), NEW s, s = (w \o x) \o q
    PROVE  Push2(s, w, x \o q)
<1>1. PICK t : t = x \o q
  OBVIOUS
<1>2. s = w \o t
  BY <1>1, StackAssoc, SMTT(30)
<1>3. Stack(t)
  <2>1. x = << >> => t = q
    BY <1>1, StackAgain
  <2>2. x # << >> => Stack(t)
    BY <1>1, PushedTail
  <2> QED
    BY <2>1, <2>2
<1>4. Push2(s, w, t)
  BY <1>2, <1>3, Pushed2
<1> QED
  BY <1>1, <1>4

LEMMA WriteRunning ==
    ASSUME FlashInv, Running("NvWriteRecord")
    PROVE  /\ Types /\ RamOk(LastActive) /\ EraseOk /\ mNvModuleInitialized /\ mNvActivePageId \in Page
           /\ Quiet(Rest) /\ Head(todo).entry \in Entry
           /\ \/ AtQuiet /\ Head(todo).by \in {"NvSyncSave", "NvIdle", "NvProcessFirstSaveInQueue"}
              \/ AtSecond /\ Fresh /\ ~mNvCopyOperationIsPending /\ Head(todo).by \in {"again", "after copy"}
<1>1. Types /\ todo # << >> /\ Head(todo).op = "NvWriteRecord" /\ (AtQuiet \/ AtSecond)
  BY PhaseOf DEF FlashInv, Running
<1>2. CASE AtQuiet
  <2>1. Quiet(Rest) /\ Head(todo) \in QuietOp
    BY <1>1, <1>2, QuietTail DEF AtQuiet, Rest
  <2>2. mNvModuleInitialized
    <3>1. Head(<<Call("NvIdle")>>).op = "NvIdle" /\ Head(<<Call("NvShutdown")>>).op = "NvShutdown"
      BY StackCall
    <3> QED
      BY <1>1, <1>2, <3>1 DEF AtQuiet
  <2> QED
    BY <1>1, <1>2, <2>1, <2>2, QuietFields DEF AtQuiet, RamOk
<1>3. CASE AtSecond
  BY <1>1, <1>3 DEF AtSecond, RamOk, Rest
<1> QED
  BY <1>1, <1>2, <1>3

LEMMA WriteRecordStep ==
    ASSUME FlashInv, NvWriteRecord
    PROVE  FlashInv'
<1>1. PICK e, by : e = Head(todo).entry /\ by = Head(todo).by
  OBVIOUS
<1>2. /\ Types /\ RamOk(LastActive) /\ EraseOk /\ mNvModuleInitialized /\ mNvActivePageId \in Page
      /\ Quiet(Rest) /\ Stack(Rest) /\ e \in Entry
      /\ \/ AtQuiet /\ by \in {"NvSyncSave", "NvIdle", "NvProcessFirstSaveInQueue"}
         \/ AtSecond /\ Fresh /\ ~mNvCopyOperationIsPending /\ by \in {"again", "after copy"}
  BY <1>1, WriteRunning DEF NvWriteRecord, Quiet
<1>3. /\ UNCHANGED <<flash, mNvActivePageId, mNvPageCounter, NvLastMetaInfoAddress, mNvErasePgCmdStatus,
                     mNvModuleInitialized, mNvPendingSavesQueue, mNvCriticalSectionFlag, ram, boot, stored>>
      /\ mNvCopyOperationIsPending' \in BOOLEAN
  BY <1>2 DEF NvWriteRecord, Types
<1>4. Types' /\ BootOk' /\ RamOk(LastActive)' /\ EraseOk'
  <2>1. Types' /\ BootOk'
    BY <1>2, <1>3, QueueTypes, BootFrame DEF FlashInv, Types
  <2> QED
    BY <1>2, <1>3, <2>1, ActiveFrame, EraseFrame
<1>5. ASSUME NEW at \in Room(e),
             todo' = <<Program(mNvActivePageId, at.record, Data(e, ram[e])),
                       Program(mNvActivePageId, at.meta, <<Meta(e, at.record)>>),
                       [op |-> "written", entry |-> e, meta |-> at.meta]>> \o Rest
      PROVE  AtRecord'
  <2>1. PICK r, m, v : r = at.record /\ m = at.meta /\ v = ram[e]
    OBVIOUS
  <2>2. /\ r \in Cell /\ m \in Cell /\ v \in Value /\ Placed(e, r, m)
        /\ \A k \in 1 .. Size(e) : flash[mNvActivePageId][r + k - 1] = BLANK
    BY <1>2, <1>5, <2>1, RoomFacts DEF Types
  <2>3. Placed(e, r, m)' /\ \A k \in 1 .. Size(e) : flash'[mNvActivePageId'][r + k - 1] = BLANK
    BY <1>3, <2>2 DEF Placed, LastActive
  <2>4. PICK a, b, c : /\ a = Program(mNvActivePageId, r, Data(e, v))
                       /\ b = Program(mNvActivePageId, m, <<Meta(e, r)>>) /\ c = WrittenCall(e, m)
    OBVIOUS
  <2>5. PICK w : w = <<a, b, c>>
    OBVIOUS
  <2>a. todo' = w \o Rest
    BY <1>5, <2>1, <2>4, <2>5, Zenon DEF WrittenCall
  <2>b. Stack(w) /\ Len(w) = 3 /\ w[1] = a /\ w[2] = b /\ w[3] = c
    BY <2>5 DEF Stack
  <2>c. PICK s, q : s = todo' /\ q = Rest
    OBVIOUS
  <2>d. Stack(w) /\ Len(w) = 3 /\ Stack(q) /\ s = w \o q
    BY <1>2, <2>a, <2>b, <2>c
  <2>e. Push3(s, w, q)
    BY <2>d, Pushed3
  <2>6. /\ todo' # << >> /\ Head(todo') = a /\ Tail(todo') # << >> /\ Head(Tail(todo')) = b
        /\ Tail(Tail(todo')) # << >> /\ Head(Tail(Tail(todo'))) = c /\ Tail(Tail(Tail(todo'))) = Rest
    BY <2>b, <2>c, <2>e, Zenon DEF Push3
  <2>7. /\ a.op = "program" /\ b.op = "program" /\ c.op = "written"
        /\ a = Program(mNvActivePageId, r, Data(e, v))' /\ b = Program(mNvActivePageId, m, <<Meta(e, r)>>)'
    BY <1>3, <2>4 DEF Program, WrittenCall
  <2> QED
    BY <1>2, <1>4, <2>2, <2>3, <2>4, <2>6, <2>7 DEF AtRecord, Top, Rest
<1>6. ASSUME todo' = WhenPending(e, by), by \in {"NvSyncSave", "NvIdle", "NvProcessFirstSaveInQueue"}
      PROVE  Quiet(todo') \/ AtCopyPage'
  <2>1. CASE by = "NvSyncSave"
    <3>1. todo' = <<Call("NvCopyPage"), CallFor("erase old page", e)>> \o Rest
      BY <1>6, <2>1 DEF WhenPending
    <3>2. PICK a, b : a = Call("NvCopyPage") /\ b = CallFor("erase old page", e)
      OBVIOUS
    <3>a. PICK w : w = <<a, b>>
      OBVIOUS
    <3>b. Stack(w) /\ Len(w) = 2 /\ w[1] = a /\ w[2] = b
      BY <3>a DEF Stack
    <3>c. PICK s, q : s = todo' /\ q = Rest
      OBVIOUS
    <3>d. todo' = w \o Rest
      BY <3>1, <3>2, <3>a, Zenon
    <3>f. Stack(w) /\ Len(w) = 2 /\ Stack(q) /\ s = w \o q
      BY <1>2, <3>b, <3>c, <3>d
    <3>e. Push2(s, w, q)
      BY <3>f, Pushed2
    <3>3. /\ todo' # << >> /\ Head(todo') = a /\ Tail(todo') # << >> /\ Head(Tail(todo')) = b
          /\ Tail(Tail(todo')) = Rest /\ Stack(Tail(todo'))
      BY <3>b, <3>c, <3>e, Zenon DEF Push2
    <3>4. a.op = "NvCopyPage" /\ b.op = "erase old page" /\ b.entry \in Entry
      BY <1>2, <3>2 DEF Call, CallFor
    <3> QED
      BY <1>2, <1>4, <3>3, <3>4 DEF AtCopyPage, Top, Caller, Rest
  <2>2. CASE by = "NvIdle"
    <3>1. todo' = <<CallFor("NvAddSaveRequestToQueue", e)>> \o Without(Rest, "saves")
      BY <1>6, <2>2 DEF WhenPending
    <3> QED
      BY <1>2, <3>1, QuietWithout, QuietPush, QuietOps
  <2>3. CASE by = "NvProcessFirstSaveInQueue"
    <3>1. todo' = <<Call("NvCopyPage"), Call("copied"), WriteRecord(e, "after copy")>> \o Rest
      BY <1>6, <2>3 DEF WhenPending
    <3>2. PICK a, b, c : a = Call("NvCopyPage") /\ b = Call("copied") /\ c = WriteRecord(e, "after copy")
      OBVIOUS
    <3>a. PICK w : w = <<a, b, c>>
      OBVIOUS
    <3>b. Stack(w) /\ Len(w) = 3 /\ w[1] = a /\ w[2] = b /\ w[3] = c
      BY <3>a DEF Stack
    <3>c. PICK s, q : s = todo' /\ q = Rest
      OBVIOUS
    <3>3. todo' = w \o Rest
      BY <3>1, <3>2, <3>a, Zenon
    <3>d. Stack(w) /\ Len(w) = 3 /\ Stack(q) /\ s = w \o q
      BY <1>2, <3>3, <3>b, <3>c
    <3>e. Push3(s, w, q)
      BY <3>d, Pushed3
    <3>4. /\ todo' # << >> /\ Head(todo') = a /\ Tail(todo') # << >> /\ Head(Tail(todo')) = b
          /\ Tail(Tail(todo')) # << >> /\ Head(Tail(Tail(todo'))) = c
          /\ Tail(Tail(Tail(todo'))) = Rest /\ Stack(Tail(todo'))
      BY <3>b, <3>c, <3>e, Zenon DEF Push3
    <3>5. a.op = "NvCopyPage" /\ b.op = "copied" /\ c.op = "NvWriteRecord" /\ c.by = "after copy" /\ c.entry \in Entry
      BY <1>2, <3>2 DEF Call, WriteRecord
    <3> QED
      BY <1>2, <1>4, <3>4, <3>5 DEF AtCopyPage, Top, Caller, Rest
  <2> QED
    BY <1>6, <2>1, <2>2, <2>3
<1>7. CASE \E at \in Room(e) :
              todo' = <<Program(mNvActivePageId, at.record, Data(e, ram[e])),
                        Program(mNvActivePageId, at.meta, <<Meta(e, at.record)>>),
                        [op |-> "written", entry |-> e, meta |-> at.meta]>> \o Rest
  BY <1>3, <1>4, <1>5, <1>7, RestStep DEF Phase
<1>8. CASE (mNvCopyOperationIsPending \/ Room(e) = {}) /\ todo' = WhenPending(e, by)
  <2>1. AtQuiet /\ by \in {"NvSyncSave", "NvIdle", "NvProcessFirstSaveInQueue"}
    BY <1>2, <1>8, RoomAfterCopy
  <2>2. AtQuiet' \/ AtCopyPage'
    BY <1>2, <1>3, <1>6, <1>8, <2>1, StillQuiet
  <2> QED
    BY <1>3, <1>4, <2>2, RestStep DEF Phase
<1> QED
  BY <1>1, <1>7, <1>8 DEF NvWriteRecord

LEMMA WrittenStep ==
    ASSUME FlashInv, NvWriteRecord_written
    PROVE  FlashInv'
<1>1. Types /\ AtWritten /\ todo # << >>
  BY PhaseOf DEF FlashInv, NvWriteRecord_written, Running, QuietNames
<1>2. PICK e \in Entry, m \in Cell : RamOk(m) /\ Head(todo) = WrittenCall(e, m)
  BY <1>1 DEF AtWritten
<1>3. mNvActivePageId \in Page /\ mNvModuleInitialized /\ m \in 0 .. Bottom - 1 /\ Head(todo).meta = m
  BY <1>2 DEF RamOk, PageOk, WrittenCall
<1>4. LastActive' = m /\ NvLastMetaInfoAddress' \in [Page -> 0 .. Bottom - 1]
  BY <1>1, <1>3 DEF NvWriteRecord_written, LastActive, Types
<1>5. UNCHANGED <<flash, mNvActivePageId, mNvPageCounter, mNvErasePgCmdStatus, mNvModuleInitialized,
                  mNvPendingSavesQueue, mNvCriticalSectionFlag, ram, boot, stored, mNvCopyOperationIsPending>>
  BY DEF NvWriteRecord_written
<1>6. RamOk(m)' /\ EraseOk'
  BY <1>1, <1>2, <1>5, RamFrame, EraseFrame DEF AtWritten
<1>7. RamOk(LastActive)'
  BY <1>4, <1>6 DEF RamOk
<1>8. AtQuiet'
  BY <1>1, <1>3, <1>5, <1>6, <1>7 DEF AtQuiet, AtWritten, NvWriteRecord_written
<1>9. Types'
  BY <1>1, <1>4, <1>5 DEF Types
<1> QED
  BY <1>3, <1>5, <1>8, <1>9, RestStep, BootFrame DEF Phase, FlashInv

LEMMA TypesFrame ==
    ASSUME Types, UNCHANGED <<flash, ramState, mNvCriticalSectionFlag, ram, boot>>
    PROVE  Types'
BY DEF Types, ramState

LEMMA BootStays ==
    ASSUME BootOk, todo # << >> \/ todo' = << >>,
           UNCHANGED <<boot, mNvModuleInitialized, mNvPendingSavesQueue, requested, mNvCopyOperationIsPending,
                       mNvErasePgCmdStatus>>
    PROVE  BootOk'
BY DEF BootOk

(* A call whose only effect on the storage is what it goes on with.        *)
LEMMA OnlyCall ==
    ASSUME FlashInv, UNCHANGED <<flash, stored, ramState, mNvCriticalSectionFlag, ram, boot, requested>>,
           todo # << >> \/ todo' = << >>, Phase'
    PROVE  FlashInv'
BY TypesFrame, BootStays, RestStep DEF FlashInv, ramState

LEMMA NamesRunning ==
    ASSUME FlashInv, Running("NvIdle") \/ Running("NvShutdown")
    PROVE  /\ AtQuiet /\ Types /\ todo # << >> /\ Quiet(Rest) /\ Quiet(todo)
           /\ ~mNvModuleInitialized => Rest = << >>
<1>1. Types /\ todo # << >> /\ AtQuiet
  BY PhaseOf DEF FlashInv, Running, QuietNames
<1>2. Quiet(todo) /\ Quiet(Rest)
  BY <1>1, QuietTail DEF AtQuiet, Rest
<1>3. Tail(<<Call("NvIdle")>>) = << >> /\ Tail(<<Call("NvShutdown")>>) = << >>
  BY StackCall
<1> QED
  BY <1>1, <1>2, <1>3 DEF AtQuiet, Rest

LEMMA IdleStep ==
    ASSUME FlashInv, NvIdle
    PROVE  FlashInv'
<1>1. /\ AtQuiet /\ Types /\ todo # << >> /\ Quiet(Rest) /\ Stack(Rest)
      /\ ~mNvModuleInitialized => Rest = << >>
  BY NamesRunning DEF NvIdle, Quiet
<1>2. UNCHANGED <<flash, stored, ramState, mNvCriticalSectionFlag, ram, boot, requested>>
  BY DEF NvIdle
<1>3. << >> \o Rest = Rest
  BY <1>1, StackAgain
<1>4. CASE ~mNvModuleInitialized
  <2>1. todo' = << >>
    BY <1>1, <1>3, <1>4 DEF NvIdle
  <2>2. AtQuiet'
    BY <1>1, <1>2, <1>4, <2>1, QuietEmpty DEF AtQuiet, ramState
  <2> QED
    BY <1>1, <1>2, <2>2, OnlyCall DEF Phase
<1>5. CASE mNvModuleInitialized
  <2>1. RamOk(LastActive)' /\ EraseOk'
    BY <1>1, <1>2, <1>5, ActiveFrame, EraseFrame DEF AtQuiet, ramState
  <2>a. PICK a, b, c, d : /\ a = Call("NvCopyPage") /\ b = Call("copied")
                          /\ c = Call("erase sector") /\ d = Call("saves")
    OBVIOUS
  <2>b. PICK x : x = <<c, d>>
    OBVIOUS
  <2>c. PICK w : w = <<a, b>>
    OBVIOUS
  <2>d. Stack(x) /\ Len(x) = 2 /\ x[1] = c /\ x[2] = d
    BY <2>b DEF Stack
  <2>e. Stack(w) /\ Len(w) = 2 /\ w[1] = a /\ w[2] = b
    BY <2>c DEF Stack
  <2>2. x = <<Call("erase sector"), Call("saves")>> /\ w = <<Call("NvCopyPage"), Call("copied")>>
    BY <2>a, <2>b, <2>c, Zenon
  <2>3. /\ todo' = Rest \/ todo' = (<< >> \o x) \o Rest \/ todo' = (w \o x) \o Rest
    BY <1>3, <1>5, <2>2, Zenon DEF NvIdle
  <2>4. Quiet(x \o Rest)
    BY <1>1, <2>2, QuietPush2, QuietOps
  <2>5. CASE todo' = Rest
    BY <1>1, <1>2, <1>5, <2>1, <2>5, OnlyCall DEF Phase, AtQuiet, ramState
  <2>6. CASE todo' = (<< >> \o x) \o Rest
    <3>2. << >> \o x = x
      BY <2>d, StackAgain
    <3>3. Quiet(todo')
      BY <2>4, <2>6, <3>2
    <3> QED
      BY <1>1, <1>2, <1>5, <2>1, <3>3, OnlyCall DEF Phase, AtQuiet, ramState
  <2>7. CASE todo' = (w \o x) \o Rest
    <3>3. PICK s, q : s = todo' /\ q = Rest
      OBVIOUS
    <3>4. Push2(s, w, x \o q)
      <4>1. Stack(q) /\ Stack(w) /\ Len(w) = 2 /\ Stack(x) /\ s = (w \o x) \o q
        BY <1>1, <2>7, <2>d, <2>e, <3>3
      <4> QED
        BY <4>1, Pushed4
    <3>4a. /\ s # << >> /\ Head(s) = a /\ Stack(Tail(s)) /\ Tail(s) # << >> /\ Head(Tail(s)) = b
           /\ Tail(Tail(s)) = x \o Rest
      BY <3>3, <3>4, <2>e, Zenon DEF Push2
    <3>5. a.op = "NvCopyPage" /\ b.op = "copied"
      BY <2>a DEF Call
    <3>6. AtCopyPage'
      <4>1. Quiet(Tail(Tail(s)))
        BY <2>4, <3>4a, Zenon
      <4>2. Caller(Tail(s))
        BY <4>1, <3>4a, <3>5, Zenon DEF Caller, Top
      <4> QED
        BY <2>1, <3>3, <3>4a, <3>5, <4>2 DEF AtCopyPage, Top, Rest
    <3> QED
      BY <1>1, <1>2, <3>6, OnlyCall DEF Phase
  <2> QED
    BY <2>3, <2>5, <2>6, <2>7
<1> QED
  BY <1>4, <1>5

LEMMA ShutdownStep ==
    ASSUME FlashInv, NvShutdown
    PROVE  FlashInv'
<1>1. /\ AtQuiet /\ Types /\ todo # << >> /\ Quiet(Rest)
      /\ ~mNvModuleInitialized => Rest = << >>
  BY NamesRunning DEF NvShutdown
<1>2. UNCHANGED <<flash, stored, ramState, mNvCriticalSectionFlag, ram, boot, requested>> /\ todo' = Rest
  BY DEF NvShutdown
<1>3. AtQuiet'
  BY <1>1, <1>2, ActiveFrame, EraseFrame DEF AtQuiet, ramState
<1> QED
  BY <1>1, <1>2, <1>3, OnlyCall DEF Phase

(* The flag of a pending erase is taken back.                              *)
LEMMA EraseDoneFacts ==
    ASSUME Types, RamOk(LastActive), EraseDone, mNvErasePgCmdStatus.pending, mNvErasePgCmdStatus.page = OtherPage,
           UNCHANGED <<flash, mNvActivePageId, mNvPageCounter, mNvModuleInitialized>>
    PROVE  /\ RamOk(LastActive)' /\ EraseOk' /\ LastActive' = LastActive
           /\ NvLastMetaInfoAddress' \in [Page -> 0 .. Bottom - 1]
           /\ mNvErasePgCmdStatus' \in [pending : BOOLEAN, page : Page, sector : 0 .. SECTORS]
           /\ Fresh => Fresh'
<1>1. mNvActivePageId \in Page /\ OtherPage \in Page /\ OtherPage # mNvActivePageId /\ 0 \in 0 .. Bottom - 1
  BY Other, Sizes DEF RamOk
<1>2. NvLastMetaInfoAddress' = [NvLastMetaInfoAddress EXCEPT ![OtherPage] = 0]
  BY DEF EraseDone, gEmptyPageMetaAddress_c
<1>3. LastActive' = LastActive /\ NvLastMetaInfoAddress' \in [Page -> 0 .. Bottom - 1]
  BY <1>1, <1>2 DEF LastActive, Types
<1>4. /\ mNvErasePgCmdStatus' \in [pending : BOOLEAN, page : Page, sector : 0 .. SECTORS]
      /\ ~mNvErasePgCmdStatus'.pending
  BY DEF EraseDone, Types
<1>5. RamOk(LastActive)'
  BY <1>3, RamFrame DEF RamOk
<1> QED
  BY <1>3, <1>4, <1>5 DEF EraseOk, Fresh

LEMMA IdleEraseStep ==
    ASSUME FlashInv, NvIdle_erase
    PROVE  FlashInv'
<1>1. /\ AtQuiet /\ mNvModuleInitialized /\ Quiet(Rest) /\ RamOk(LastActive) /\ EraseOk /\ Types /\ todo # << >>
  BY QuietRunning DEF NvIdle_erase, Running, QuietNames, FlashInv
<1>2. /\ UNCHANGED <<flash, stored, mNvActivePageId, mNvPageCounter, mNvCopyOperationIsPending, mNvPendingSavesQueue,
                     mNvModuleInitialized, mNvCriticalSectionFlag, ram, boot, requested>>
  BY DEF NvIdle_erase
<1>3. BootOk'
  BY <1>1, <1>2, BootFrame DEF FlashInv
<1>4. PICK c : c = mNvErasePgCmdStatus
  OBVIOUS
<1>5. c \in [pending : BOOLEAN, page : Page, sector : 0 .. SECTORS] /\ SECTORS \in Nat \ {0, 1}
  BY <1>1, <1>4, Sectors DEF Types
<1>6. Quiet(Without(Rest, "saves")) /\ Stack(Without(Rest, "saves"))
  BY <1>1, QuietWithout DEF Quiet
<1>7. CASE ~c.pending /\ todo' = Rest /\ UNCHANGED <<NvLastMetaInfoAddress, mNvErasePgCmdStatus>>
  <2>1. AtQuiet'
    BY <1>1, <1>2, <1>7, StillQuiet
  <2> QED
    BY <1>1, <1>2, <1>3, <1>7, <2>1, TypesFrame, RestStep DEF Phase, ramState
<1>8. CASE c.pending /\ EraseDone /\ todo' = Without(Rest, "saves")
  <2>1. /\ RamOk(LastActive)' /\ EraseOk'
        /\ NvLastMetaInfoAddress' \in [Page -> 0 .. Bottom - 1]
        /\ mNvErasePgCmdStatus' \in [pending : BOOLEAN, page : Page, sector : 0 .. SECTORS]
    BY <1>1, <1>2, <1>4, <1>8, EraseDoneFacts DEF EraseOk
  <2>2. AtQuiet'
    BY <1>1, <1>2, <1>6, <1>8, <2>1 DEF AtQuiet
  <2>3. Types'
    BY <1>1, <1>2, <2>1 DEF Types
  <2> QED
    BY <1>2, <1>3, <2>2, <2>3, RestStep DEF Phase
<1>9. CASE /\ c.pending /\ c.sector < SECTORS
           /\ mNvErasePgCmdStatus' = [c EXCEPT !.sector = @ + 1]
           /\ todo' = <<EraseSectors(c.page, c.sector, c.sector)>> \o Without(Rest, "saves")
           /\ UNCHANGED NvLastMetaInfoAddress
  <2>1. /\ mNvErasePgCmdStatus' \in [pending : BOOLEAN, page : Page, sector : 0 .. SECTORS]
        /\ mNvErasePgCmdStatus'.pending /\ mNvErasePgCmdStatus'.page = c.page
        /\ mNvErasePgCmdStatus'.sector = c.sector + 1 /\ c.sector \in 0 .. SECTORS - 1
    BY <1>5, <1>9
  <2>2. PICK a : a = EraseSectors(c.page, c.sector, c.sector)
    OBVIOUS
  <2>3. todo' # << >> /\ Head(todo') = a /\ Tail(todo') = Without(Rest, "saves") /\ a.op = "erase"
    <3>1. PICK q : q = Without(Rest, "saves")
      OBVIOUS
    <3>2. Stack(q) /\ todo' = <<a>> \o q
      BY <1>6, <1>9, <2>2, <3>1
    <3>3. todo' # << >> /\ Head(todo') = a /\ Tail(todo') = q
      BY <3>2, StackPush, Zenon
    <3> QED
      BY <2>2, <3>1, <3>3 DEF EraseSectors
  <2>4. RamOk(LastActive)' /\ OtherPage' = OtherPage
    BY <1>1, <1>2, <1>9, ActiveFrame
  <2>5. c.page = OtherPage /\ (c.sector > 0 => ~Is(flash[OtherPage][0], "counter"))
    BY <1>1, <1>4, <1>9 DEF EraseOk
  <2>6. AtIdleErase'
    <3>1. /\ mNvErasePgCmdStatus'.sector = c.sector + 1
          /\ c.sector > 0 => ~Is(flash'[OtherPage'][0], "counter")
          /\ Top(todo', "erase") /\ Head(todo') = EraseSectors(OtherPage', c.sector, c.sector)
      BY <1>2, <2>1, <2>2, <2>3, <2>4, <2>5 DEF Top
    <3>2. Quiet(Tail(todo'))
      BY <1>6, <2>3
    <3> QED
      BY <2>1, <2>4, <2>5, <3>1, <3>2 DEF AtIdleErase, Rest
  <2>7. Types'
    BY <1>1, <1>2, <1>9, <2>1 DEF Types
  <2> QED
    BY <1>2, <1>3, <2>6, <2>7, RestStep DEF Phase
<1> QED
  BY <1>4, <1>7, <1>8, <1>9 DEF NvIdle_erase

-----------------------------------------------------------------------------
(* What the records of a set of data sets need.                            *)
LEMMA AddsBound ==
    ASSUME NEW S \in SUBSET Entry, NEW T \in SUBSET Entry, S \subseteq T,
           NEW u \in [Table -> Int], Adds(u, S), NEW w \in [Table -> Int], Adds(w, T),
           NEW k \in Table
    PROVE  u[k] <= w[k] /\ \A e \in T \ S : e <= k => u[k] + Size(e) + 1 <= w[k]
<1> DEFINE Good(j) == u[j] <= w[j] /\ \A e \in T \ S : e <= j => u[j] + Size(e) + 1 <= w[j]
<1>1. PICK bad : bad = {j \in Table : ~Good(j)}
  OBVIOUS
<1>2. Table = 0 .. Len(pNVM_DataTable) /\ Len(pNVM_DataTable) \in Nat /\ Entry = 1 .. Len(pNVM_DataTable)
  BY Sizes DEF Table
<1>3. bad \subseteq Nat
  BY <1>1, <1>2
<1>4. SUFFICES ASSUME bad # {} PROVE FALSE
  BY <1>1, <1>4
<1>5. PICK m \in bad : \A j \in bad : m <= j
  BY <1>3, <1>4, LeastNat
<1>6. m \in Table /\ ~Good(m) /\ m \in Nat
  BY <1>1, <1>3, <1>5
<1>7. m # 0
  <2>1. u[0] = 0 /\ w[0] = 0
    BY DEF Adds
  <2>2. \A e \in Entry : ~(e <= 0)
    BY <1>2
  <2> QED
    BY <1>6, <2>1, <2>2
<1>8. m - 1 \in Table /\ m \in Entry /\ m - 1 \in Nat
  BY <1>2, <1>6, <1>7
<1>9. Good(m - 1)
  <2>1. ~(m <= m - 1)
    BY <1>6
  <2> QED
    BY <1>1, <1>5, <1>8, <2>1
<1>10. /\ u[m] = u[m - 1] + (IF m \in S THEN Size(m) + 1 ELSE 0)
       /\ w[m] = w[m - 1] + (IF m \in T THEN Size(m) + 1 ELSE 0)
  BY <1>8 DEF Adds, Size
<1>11. u[m] \in Int /\ w[m] \in Int /\ u[m - 1] \in Int /\ w[m - 1] \in Int /\ Size(m) \in Nat \ {0}
  BY <1>6, <1>8, Sizes
<1>12. u[m] <= w[m]
  BY <1>9, <1>10, <1>11
<1>13. ASSUME NEW e \in T \ S, e <= m
       PROVE  u[m] + Size(e) + 1 <= w[m]
  <2>0. e \in Entry
    OBVIOUS
  <2>1. e \in Entry /\ Size(e) \in Nat /\ e \in Nat
    BY <1>2, <2>0, Sizes
  <2>2. CASE e = m
    BY <1>9, <1>10, <1>11, <1>13, <2>2
  <2>3. CASE e # m
    <3>1. e <= m - 1
      BY <1>6, <1>13, <2>1, <2>3
    <3>2. u[m - 1] + Size(e) + 1 <= w[m - 1]
      BY <1>9, <1>13, <3>1
    <3>3. m \in S => m \in T
      OBVIOUS
    <3> QED
      BY <1>10, <1>11, <2>1, <3>2, <3>3
  <2> QED
    BY <2>2, <2>3
<1> QED
  BY <1>6, <1>12, <1>13

(* The whole table, and what is left of a page for one more record.        *)
LEMMA AddsRoom ==
    ASSUME NEW S \in SUBSET Entry, NEW u \in [Table -> Int], Adds(u, S)
    PROVE  LET n == Len(pNVM_DataTable) IN
           /\ \A k \in Table : u[k] <= PAGE
           /\ \A e \in Entry : Size(e) + 2 < Bottom - FirstMeta - u[n]
           /\ \A e \in Entry \ S : 2 * Size(e) + 3 < Bottom - FirstMeta - u[n]
<1>1. PICK n : n = Len(pNVM_DataTable)
  OBVIOUS
<1>2. PICK w \in [Table -> 0 .. PAGE] :
          Adds(w, Entry) /\ \A e \in Entry : w[n] + Size(e) + 2 < PAGE - 2
  BY <1>1, NvStorageAssumption DEF Size
<1>3. n \in Table /\ PAGE \in Nat /\ Bottom = PAGE - 1 /\ Entry = 1 .. n /\ \A e \in Entry : Size(e) \in Nat
  BY <1>1, Sizes DEF Table
<1>4. w \in [Table -> Int] /\ \A k \in Table : w[k] <= PAGE
  BY <1>2, <1>3
<1>5. \A k \in Table : u[k] <= w[k] /\ \A e \in Entry \ S : e <= k => u[k] + Size(e) + 1 <= w[k]
  BY <1>2, <1>4, AddsBound
<1>6. ASSUME NEW k \in Table PROVE u[k] <= PAGE
  BY <1>3, <1>4, <1>5
<1>7. ASSUME NEW e \in Entry PROVE Size(e) + 2 < Bottom - FirstMeta - u[n]
  <2>1. u[n] \in Int /\ w[n] \in Int /\ Size(e) \in Nat /\ u[n] <= w[n] /\ w[n] + Size(e) + 2 < PAGE - 2
    BY <1>2, <1>3, <1>4, <1>5
  <2> QED
    BY <2>1, <1>3 DEF FirstMeta
<1>8. ASSUME NEW e \in Entry \ S PROVE 2 * Size(e) + 3 < Bottom - FirstMeta - u[n]
  <2>1. u[n] \in Int /\ w[n] \in Int /\ Size(e) \in Nat /\ e <= n /\ w[n] + Size(e) + 2 < PAGE - 2
    BY <1>2, <1>3, <1>4
  <2>2. u[n] + Size(e) + 1 <= w[n]
    BY <1>3, <1>5, <2>1
  <2> QED
    BY <2>1, <2>2, <1>3 DEF FirstMeta
<1> QED
  BY <1>1, <1>6, <1>7, <1>8

LEMMA AddsMore ==
    ASSUME NEW S \in SUBSET Entry, NEW u \in [Table -> 0 .. PAGE], Adds(u, S), NEW e \in Entry \ S
    PROVE  \E w \in [Table -> 0 .. PAGE] :
              /\ Adds(w, S \union {e})
              /\ w[Len(pNVM_DataTable)] = u[Len(pNVM_DataTable)] + Size(e) + 1
<1>1. PICK n : n = Len(pNVM_DataTable)
  OBVIOUS
<1>2. Table = 0 .. n /\ Entry = 1 .. n /\ n \in Nat /\ PAGE \in Nat /\ Size(e) \in Nat /\ e \in 1 .. n
  BY <1>1, Sizes DEF Table
<1>3. PICK w : w = [k \in Table |-> u[k] + (IF e <= k THEN Size(e) + 1 ELSE 0)]
  OBVIOUS
<1>4. \A k \in Table : u[k] \in Nat /\ w[k] = u[k] + (IF e <= k THEN Size(e) + 1 ELSE 0) /\ w[k] \in Nat
  BY <1>2, <1>3
<1>5. w \in [Table -> Int]
  BY <1>3, <1>4
<1>6. Adds(w, S \union {e})
  <2>1. w[0] = 0
    <3>1. 0 \in Table /\ ~(e <= 0) /\ u[0] = 0
      BY <1>2 DEF Adds
    <3> QED
      BY <1>4, <3>1
  <2>2. ASSUME NEW k \in Entry
        PROVE  w[k] = w[k - 1] + (IF k \in S \union {e} THEN Size(k) + 1 ELSE 0)
    <3>1. k \in Table /\ k - 1 \in Table /\ Size(k) \in Nat /\ k \in Nat
      BY <1>2, Sizes
    <3>2. u[k] = u[k - 1] + (IF k \in S THEN Size(k) + 1 ELSE 0)
      BY DEF Adds, Size
    <3>3. e <= k <=> e <= k - 1 \/ e = k
      BY <1>2, <3>1
    <3>4. ~(e <= e - 1)
      BY <1>2
    <3>5. /\ w[k] = u[k] + (IF e <= k THEN Size(e) + 1 ELSE 0) /\ u[k] \in Nat
          /\ w[k - 1] = u[k - 1] + (IF e <= k - 1 THEN Size(e) + 1 ELSE 0) /\ u[k - 1] \in Nat
      BY <1>4, <3>1
    <3>6. CASE e = k
      <4>1. k \notin S /\ k \in S \union {e} /\ e <= k /\ ~(e <= k - 1) /\ Size(k) = Size(e)
        BY <3>3, <3>4, <3>6
      <4> QED
        BY <1>2, <3>1, <3>2, <3>5, <4>1
    <3>7. CASE e # k
      <4>1. (k \in S <=> k \in S \union {e}) /\ (e <= k <=> e <= k - 1)
        BY <3>3, <3>7
      <4>2. PICK x : x = IF e <= k THEN Size(e) + 1 ELSE 0
        OBVIOUS
      <4>3. PICK y : y = IF k \in S THEN Size(k) + 1 ELSE 0
        OBVIOUS
      <4>4. w[k] = u[k] + x /\ w[k - 1] = u[k - 1] + x /\ x \in Nat
        BY <1>2, <3>5, <4>1, <4>2
      <4>5. u[k] = u[k - 1] + y /\ (IF k \in S \union {e} THEN Size(k) + 1 ELSE 0) = y /\ y \in Nat
        BY <3>1, <3>2, <4>1, <4>3
      <4>6. w[k] = w[k - 1] + y
        BY <3>5, <4>4, <4>5
      <4> QED
        BY <4>5, <4>6
    <3> QED
      BY <3>6, <3>7
  <2> QED
    BY <2>1, <2>2 DEF Adds, Size
<1>7. \A k \in Table : w[k] <= PAGE
  <2>1. S \union {e} \in SUBSET Entry
    OBVIOUS
  <2> QED
    BY <1>5, <1>6, <2>1, AddsRoom
<1>8. w \in [Table -> 0 .. PAGE]
  BY <1>2, <1>3, <1>4, <1>7
<1>9. w[n] = u[n] + Size(e) + 1
  BY <1>2, <1>4
<1> QED
  BY <1>1, <1>6, <1>8, <1>9

(* A page copy begins with a blank page.                                   *)
LEMMA StartCopy ==
    ASSUME Types, RamOk(LastActive), flash[OtherPage] = BlankPage
    PROVE  CopyOk(LastActive, FirstMeta, Bottom, Bottom)
<1>1. LastActive \in 0 .. Bottom - 1 /\ Bottom \in Nat /\ 4 < Bottom /\ FirstMeta = 1
  BY Sizes DEF RamOk, PageOk, FirstMeta
<1>2. PICK h : h = flash[OtherPage]
  OBVIOUS
<1>3. \A a \in Cell : h[a] = BLANK
  BY <1>2 DEF BlankPage
<1>4. \A a \in FirstMeta .. Bottom - 1 : ~Is(h[a], "meta")
  BY <1>1, <1>3, Sizes DEF Cell, Is, Bottom
<1>5. PageOk(h, 0) /\ Edge(h, 0) = Bottom
  BY <1>1, <1>4 DEF PageOk, Edge
<1>6. FirstMeta .. FirstMeta - 1 = {} /\ FirstMeta - 1 = 0 /\ LastActive + 1 .. LastActive = {}
  BY <1>1
<1>7. CopiedEntries(FirstMeta) = {}
  BY <1>6 DEF CopiedEntries
<1>8. \E used \in [Table -> 0 .. PAGE] :
          Adds(used, {}) /\ Bottom - FirstMeta = Bottom - FirstMeta - used[Len(pNVM_DataTable)]
  <2>1. PICK used : used = [k \in Table |-> 0]
    OBVIOUS
  <2>2. Table = 0 .. Len(pNVM_DataTable) /\ Entry = 1 .. Len(pNVM_DataTable) /\ Len(pNVM_DataTable) \in Nat /\ PAGE \in Nat
    BY Sizes DEF Table
  <2>3. used \in [Table -> 0 .. PAGE] /\ \A k \in Table : used[k] = 0
    BY <2>1, <2>2
  <2>4. Adds(used, {})
    BY <2>2, <2>3 DEF Adds
  <2>5. used[Len(pNVM_DataTable)] = 0
    BY <2>2, <2>3
  <2> QED
    BY <1>1, <2>3, <2>4, <2>5
<1>9. PageOk(flash[OtherPage], FirstMeta - 1) /\ Bottom = Edge(flash[OtherPage], FirstMeta - 1)
  BY <1>2, <1>5, <1>6, Zenon
<1>10. LastActive \in 0 .. LastActive
  BY <1>1
<1>11. \A a \in Cell : flash[OtherPage][a] = BLANK
  BY <1>2, <1>3
<1>12. \E used \in [Table -> 0 .. PAGE] :
           /\ Adds(used, CopiedEntries(FirstMeta))
           /\ Bottom - FirstMeta = Bottom - FirstMeta - used[Len(pNVM_DataTable)]
  BY <1>7, <1>8, Zenon
<1> QED
  BY <1>6, <1>9, <1>10, <1>11, <1>12, Zenon DEF CopyOk

LEMMA CopyFrame ==
    ASSUME UNCHANGED <<flash, mNvActivePageId, NvLastMetaInfoAddress>>
    PROVE  /\ \A src, dst, record, free : CopyOk(src, dst, record, free) => CopyOk(src, dst, record, free)'
           /\ \A a : Newest(a) => Newest(a)'
           /\ \A dst : CopiedEntries(dst)' = CopiedEntries(dst)
<1>1. LastActive' = LastActive /\ OtherPage' = OtherPage
  BY DEF LastActive, OtherPage
<1>2. \A dst : CopiedEntries(dst)' = CopiedEntries(dst)
  BY <1>1 DEF CopiedEntries
<1>3. \A a : Newest(a)' <=> Newest(a)
  BY <1>1 DEF Newest
<1>4. \A b, a : CopyOf(b, a)' <=> CopyOf(b, a)
  BY <1>1 DEF CopyOf
<1>5. ASSUME NEW src, NEW dst, NEW record, NEW free, CopyOk(src, dst, record, free)
      PROVE  CopyOk(src, dst, record, free)'
  BY <1>1, <1>2, <1>3, <1>4, <1>5 DEF CopyOk
<1> QED
  BY <1>2, <1>3, <1>5

LEMMA EraseBegins ==
    ASSUME NEW q
    PROVE  Erase(q).op = "erase" /\ ErasingFromStart(Erase(q), q)'
<1>1. SECTORS \in Nat \ {0, 1} /\ \A x \in Cell : SectorOf(x) \in 0 .. SECTORS - 1
  BY Sectors
<1>2. 0 \in 0 .. SECTORS - 1 /\ Erase(q) = EraseSectors(q, 0, SECTORS - 1) /\ Erase(q).op = "erase"
  BY <1>1 DEF Erase, EraseSectors
<1>3. \A x \in Cell : ~(SectorOf(x) < 0)
  BY <1>1
<1> QED
  BY <1>2, <1>3 DEF ErasingFromStart

LEMMA FromZero ==
    ASSUME NEW q, q = OtherPage'
    PROVE  Erase(q).op = "erase" /\ ErasingFromStart(Erase(q), OtherPage)'
<1>1. Erase(q).op = "erase" /\ ErasingFromStart(Erase(q), q)'
  BY EraseBegins
<1> QED
  BY <1>1 DEF ErasingFromStart

LEMMA CopyPageStep ==
    ASSUME FlashInv, NvCopyPage
    PROVE  FlashInv'
<1>1. Types /\ AtCopyPage /\ todo # << >>
  BY PhaseOf DEF FlashInv, NvCopyPage, Running, QuietNames
<1>2. RamOk(LastActive) /\ EraseOk /\ Caller(Rest) /\ Stack(Rest)
  <2>1. Stack(<<Call("return")>>)
    BY StackCall
  <2> QED
    BY <1>1, <2>1 DEF AtCopyPage, Caller
<1>3. UNCHANGED <<flash, stored, ramState, mNvCriticalSectionFlag, ram, boot, requested>>
  BY DEF NvCopyPage
<1>4. RamOk(LastActive)' /\ EraseOk' /\ OtherPage' = OtherPage /\ LastActive' = LastActive
  BY <1>2, <1>3, ActiveFrame, EraseFrame DEF ramState
<1>5. PICK c : c = CopyRecords(LastActive, FirstMeta, Bottom)
  OBVIOUS
<1>6. /\ c.op = "copy records" /\ c = CopyRecords(LastActive', FirstMeta, Bottom)
  BY <1>4, <1>5 DEF CopyRecords
<1>7. todo' = ((IF flash[OtherPage] # BlankPage THEN <<Erase(OtherPage)>> ELSE << >>) \o <<c>>) \o Rest
  BY <1>5 DEF NvCopyPage, LastActive
<1>8. CASE flash[OtherPage] # BlankPage
  <2>1. PICK a : a = Erase(OtherPage)
    OBVIOUS
  <2>2. PICK w : w = <<a, c>>
    OBVIOUS
  <2>3. Stack(w) /\ Len(w) = 2 /\ w[1] = a /\ w[2] = c
    BY <2>2 DEF Stack
  <2>4. todo' = w \o Rest
    <3>1. <<a>> \o <<c>> = w
      BY <2>2, StackPair, Zenon
    <3>2. todo' = (<<a>> \o <<c>>) \o Rest
      BY <1>7, <1>8, <2>1
    <3> QED
      BY <3>1, <3>2, Zenon
  <2>5. PICK s, q : s = todo' /\ q = Rest
    OBVIOUS
  <2>6. Push2(s, w, q)
    <3>1. Stack(q) /\ s = w \o q /\ Stack(w) /\ Len(w) = 2
      BY <1>2, <2>3, <2>4, <2>5
    <3> QED
      BY <3>1, Pushed2
  <2>7. /\ todo' # << >> /\ Head(todo') = a /\ Tail(todo') # << >> /\ Head(Tail(todo')) = c
        /\ Tail(Tail(todo')) = Rest /\ Stack(Tail(todo'))
    BY <2>3, <2>5, <2>6, Zenon DEF Push2
  <2>8. a.op = "erase" /\ ErasingFromStart(a, OtherPage)'
    BY <1>4, <2>1, FromZero
  <2>9. AtCopyErase'
    BY <1>2, <1>4, <1>6, <2>7, <2>8 DEF AtCopyErase, Top, Rest
  <2> QED
    BY <1>1, <1>3, <2>9, OnlyCall DEF Phase
<1>9. CASE flash[OtherPage] = BlankPage
  <2>1. todo' = <<c>> \o Rest
    <3>1. Stack(<<c>>) /\ << >> \o <<c>> = <<c>>
      BY StackOne, StackAgain
    <3> QED
      BY <1>7, <1>9, <3>1
  <2>2. todo' # << >> /\ Head(todo') = c /\ Tail(todo') = Rest
    BY <1>2, <2>1, StackPush, Zenon
  <2>3. CopyOk(LastActive, FirstMeta, Bottom, Bottom)'
    <3>1. CopyOk(LastActive, FirstMeta, Bottom, Bottom)
      BY <1>1, <1>2, <1>9, StartCopy
    <3>2. PICK last : last = LastActive
      OBVIOUS
    <3>3. CopyOk(last, FirstMeta, Bottom, Bottom)'
      BY <1>3, <3>1, <3>2, CopyFrame DEF ramState
    <3> QED
      BY <1>4, <3>2, <3>3
  <2>4. LastActive' \in Cell /\ FirstMeta \in Cell /\ Bottom \in Cell
    BY <1>4, Sizes DEF RamOk, PageOk, Cell, FirstMeta
  <2>5. AtCopy'
    BY <1>2, <1>4, <1>6, <2>2, <2>3, <2>4 DEF AtCopy, Top, Rest
  <2> QED
    BY <1>1, <1>3, <2>5, OnlyCall DEF Phase
<1> QED
  BY <1>8, <1>9

(* A record that is copied next, and what the copies still leave.          *)
LEMMA NextCopy ==
    ASSUME Types, RamOk(LastActive), NEW src \in Cell, NEW dst \in Cell, NEW record \in Cell,
           CopyOk(src, dst, record, record), NEW a \in NotCopied(src), \A b \in NotCopied(src) : b <= a
    PROVE  LET e == flash[mNvActivePageId][a].entry IN
           /\ a \in Cell /\ e \in Entry /\ Newest(a) /\ CopyOk(a, dst, record, record) /\ e \notin CopiedEntries(dst)
           /\ record - Size(e) \in Cell /\ record - Size(e) > dst /\ Size(e) \in Nat
           /\ \E v \in Value : Holds(flash[mNvActivePageId], e, v, flash[mNvActivePageId][a].offset)
<1>1. PICK g, h, e, last : g = flash[mNvActivePageId] /\ h = flash[OtherPage] /\ e = g[a].entry /\ last = LastActive
  OBVIOUS
<1>2. /\ mNvActivePageId \in Page /\ OtherPage \in Page /\ g \in PageOfCells /\ MetasOk(g)
      /\ h \in PageOfCells /\ MetasOk(h) /\ PageOk(g, last) /\ last \in 0 .. Bottom - 1
  BY <1>1, Other, PageTypes DEF Types, RamOk, PageOk
<1>3. /\ src \in 0 .. last /\ PageOk(h, dst - 1) /\ record = Edge(h, dst - 1)
      /\ \A b \in FirstMeta .. dst - 1 : Is(h[b], "meta") /\ \E x \in src + 1 .. last : Newest(x) /\ CopyOf(b, x)
      /\ \A x \in src + 1 .. last : Is(g[x], "meta") => g[x].entry \in CopiedEntries(dst)
      /\ \A x \in Cell : x = 0 \/ x \in dst .. record - 1 \/ x = Bottom => h[x] = BLANK
      /\ \E used \in [Table -> 0 .. PAGE] :
            Adds(used, CopiedEntries(dst)) /\ record - dst = Bottom - FirstMeta - used[Len(pNVM_DataTable)]
  BY <1>1 DEF CopyOk
<1>4. Bottom \in Nat /\ PAGE = Bottom + 1 /\ Cell = 0 .. Bottom /\ FirstMeta = 1 /\ 4 < Bottom
  BY Sizes DEF Cell, Bottom, FirstMeta
<1>5. /\ a \in 1 .. src /\ Is(g[a], "meta")
      /\ ~\E b \in FirstMeta .. Bottom - 1 : Is(h[b], "meta") /\ h[b].entry = e
  BY <1>1, <1>4 DEF NotCopied
<1>6. a \in Cell /\ e \in Entry /\ Size(e) \in Nat \ {0}
  <2>1. a \in Cell
    BY <1>2, <1>3, <1>4, <1>5
  <2> QED
    BY <1>1, <1>2, <1>5, <2>1, Sizes DEF MetasOk, MetaOk
<1>7. dst - 1 \in 0 .. Bottom - 1
  BY <1>3 DEF PageOk
<1>8. e \notin CopiedEntries(dst)
  <2>1. SUFFICES ASSUME e \in CopiedEntries(dst) PROVE FALSE
    OBVIOUS
  <2>2. PICK b \in FirstMeta .. dst - 1 : h[b].entry = e
    BY <1>1, <2>1 DEF CopiedEntries
  <2>3. b \in FirstMeta .. Bottom - 1 /\ Is(h[b], "meta")
    BY <1>3, <1>4, <1>7, <2>2
  <2> QED
    BY <1>5, <2>2, <2>3
<1>9. ASSUME NEW x \in a + 1 .. last, Is(g[x], "meta")
      PROVE  g[x].entry \in CopiedEntries(dst)
  <2>1. CASE x \in src + 1 .. last
    BY <1>3, <1>9, <2>1
  <2>2. CASE x \in a + 1 .. src
    <3>1. x \in FirstMeta .. src /\ ~(x <= a)
      BY <1>3, <1>4, <1>5, <2>2
    <3>2. x \notin NotCopied(src)
      BY <3>1
    <3>3. PICK b \in FirstMeta .. Bottom - 1 : Is(h[b], "meta") /\ h[b].entry = g[x].entry
      BY <1>1, <1>9, <3>1, <3>2 DEF NotCopied
    <3>4. b \in FirstMeta .. dst - 1
      BY <1>3, <1>4, <1>7, <3>3 DEF PageOk
    <3> QED
      BY <1>1, <3>3, <3>4 DEF CopiedEntries
  <2> QED
    BY <1>3, <1>5, <2>1, <2>2
<1>10. Newest(a)
  BY <1>1, <1>5, <1>8, <1>9 DEF Newest
<1>11. CopyOk(a, dst, record, record)
  <2>1. a \in 0 .. last
    BY <1>2, <1>3, <1>4, <1>5
  <2>2. src + 1 .. last \subseteq a + 1 .. last
    BY <1>2, <1>3, <1>4, <1>5
  <2>3. \A b \in FirstMeta .. dst - 1 : Is(h[b], "meta") /\ \E x \in a + 1 .. last : Newest(x) /\ CopyOf(b, x)
    BY <1>3, <2>2
  <2> QED
    BY <1>1, <1>3, <1>9, <2>1, <2>3 DEF CopyOk
<1>12. record - Size(e) > dst
  <2>1. PICK used \in [Table -> 0 .. PAGE] :
            Adds(used, CopiedEntries(dst)) /\ record - dst = Bottom - FirstMeta - used[Len(pNVM_DataTable)]
    BY <1>3
  <2>2. CopiedEntries(dst) \in SUBSET Entry
    <3>1. ASSUME NEW b \in FirstMeta .. dst - 1 PROVE h[b].entry \in Entry
      <4>1. b \in Cell /\ Is(h[b], "meta")
        BY <1>3, <1>4, <1>7, <3>1
      <4> QED
        BY <1>2, <4>1 DEF MetasOk, MetaOk
    <3> QED
      BY <1>1, <3>1 DEF CopiedEntries
  <2>3. used \in [Table -> Int]
    BY <1>4, <2>1
  <2>4. 2 * Size(e) + 3 < Bottom - FirstMeta - used[Len(pNVM_DataTable)]
    BY <1>6, <1>8, <2>1, <2>2, <2>3, AddsRoom
  <2>5. 2 * Size(e) + 3 < record - dst
    BY <2>1, <2>4
  <2> QED
    BY <1>4, <1>6, <1>7, <2>5
<1>13. record - Size(e) \in Cell
  BY <1>4, <1>6, <1>7, <1>12
<1>14. \E v \in Value : Holds(g, e, v, g[a].offset)
  <2>1. a \in FirstMeta .. last
    BY <1>2, <1>3, <1>4, <1>5
  <2> QED
    BY <1>1, <1>2, <1>5, <2>1 DEF PageOk
<1> QED
  BY <1>1, <1>6, <1>8, <1>10, <1>11, <1>12, <1>13, <1>14

LEMMA CopyNextFrame ==
    ASSUME UNCHANGED <<flash, mNvActivePageId, NvLastMetaInfoAddress>>,
           NEW a, NEW dst, NEW to, NEW v, NEW e, NEW free, CopyNext(a, dst, to, v, e, free)
    PROVE  CopyNext(a, dst, to, v, e, free)'
<1>1. PICK t : t = to + Size(e)
  OBVIOUS
<1>2. Newest(a) /\ CopyOk(a, dst, t, free) /\ e \notin CopiedEntries(dst)
  BY <1>1 DEF CopyNext
<1>3. Newest(a)' /\ CopyOk(a, dst, t, free)' /\ e \notin CopiedEntries(dst)'
  BY <1>2, CopyFrame
<1>4. CopyOk(a, dst, to + Size(e), free)'
  BY <1>1, <1>3, Zenon
<1> QED
  BY <1>3, <1>4 DEF CopyNext

LEMMA InternalCopyStep ==
    ASSUME FlashInv, NvInternalCopy
    PROVE  FlashInv'
<1>1. Types /\ AtCopy /\ todo # << >>
  BY PhaseOf DEF FlashInv, NvInternalCopy, Running, QuietNames
<1>2. RamOk(LastActive) /\ EraseOk /\ Caller(Rest) /\ Stack(Rest)
  <2>1. Stack(<<Call("return")>>)
    BY StackCall
  <2> QED
    BY <1>1, <2>1 DEF AtCopy, Caller
<1>3. UNCHANGED <<flash, stored, ramState, mNvCriticalSectionFlag, ram, boot, requested>>
  BY DEF NvInternalCopy
<1>4. RamOk(LastActive)' /\ EraseOk' /\ OtherPage' = OtherPage /\ LastActive' = LastActive
  BY <1>2, <1>3, ActiveFrame, EraseFrame DEF ramState
<1>5. PICK src \in Cell, dst \in Cell, record \in Cell :
          Head(todo) = CopyRecords(src, dst, record) /\ CopyOk(src, dst, record, record)
  BY <1>1 DEF AtCopy
<1>6. Head(todo).src = src /\ Head(todo).dst = dst /\ Head(todo).record = record
  <2>1. CopyRecords(src, dst, record).src = src /\ CopyRecords(src, dst, record).dst = dst
        /\ CopyRecords(src, dst, record).record = record
    BY DEF CopyRecords
  <2> QED
    BY <1>5, <2>1, Zenon
<1>7. PICK a \in NotCopied(src) :
          LET m == flash[mNvActivePageId][a]
              size == pNVM_DataTable[m.entry]
              to == record - size
          IN  /\ \A b \in NotCopied(src) : b <= a
              /\ todo' = <<Program(OtherPage, to, [i \in 1 .. size |-> flash[mNvActivePageId][m.offset + i - 1]]),
                           Program(OtherPage, dst, <<Meta(m.entry, to)>>),
                           CopyRecords(a - 1, dst + 1, to)>> \o Rest
  BY <1>6 DEF NvInternalCopy
<1>8. PICK g, e, to : g = flash[mNvActivePageId] /\ e = g[a].entry /\ to = record - Size(e)
  OBVIOUS
<1>9. /\ a \in Cell /\ e \in Entry /\ Newest(a) /\ CopyOk(a, dst, record, record) /\ e \notin CopiedEntries(dst)
      /\ to \in Cell /\ to > dst /\ Size(e) \in Nat
      /\ \E v \in Value : Holds(g, e, v, g[a].offset)
  BY <1>1, <1>2, <1>5, <1>7, <1>8, NextCopy
<1>10. PICK v \in Value : Holds(g, e, v, g[a].offset)
  BY <1>9
<1>11. [i \in 1 .. Size(e) |-> g[g[a].offset + i - 1]] = Data(e, v)
  BY <1>10 DEF Holds, Data, Size
<1>12. PICK b, c, d : /\ b = Program(OtherPage, to, Data(e, v))
                      /\ c = Program(OtherPage, dst, <<Meta(e, to)>>) /\ d = CopyRecords(a - 1, dst + 1, to)
  OBVIOUS
<1>13. PICK w : w = <<b, c, d>>
  OBVIOUS
<1>14. Stack(w) /\ Len(w) = 3 /\ w[1] = b /\ w[2] = c /\ w[3] = d
  BY <1>13 DEF Stack
<1>15. todo' = w \o Rest
  <2>1. todo' = <<Program(OtherPage, to, [i \in 1 .. Size(e) |-> g[g[a].offset + i - 1]]),
                  Program(OtherPage, dst, <<Meta(e, to)>>), CopyRecords(a - 1, dst + 1, to)>> \o Rest
    BY <1>7, <1>8, Zenon DEF Size
  <2> QED
    BY <2>1, <1>11, <1>12, <1>13, Zenon
<1>16. PICK s, q : s = todo' /\ q = Rest
  OBVIOUS
<1>17. Push3(s, w, q)
  <2>1. Stack(q) /\ s = w \o q /\ Stack(w) /\ Len(w) = 3
    BY <1>2, <1>14, <1>15, <1>16
  <2> QED
    BY <2>1, Pushed3
<1>18. /\ todo' # << >> /\ Head(todo') = b /\ Tail(todo') # << >> /\ Head(Tail(todo')) = c
       /\ Tail(Tail(todo')) # << >> /\ Head(Tail(Tail(todo'))) = d /\ Tail(Tail(Tail(todo'))) = Rest
  BY <1>14, <1>16, <1>17, Zenon DEF Push3
<1>19. b.op = "program" /\ c.op = "program" /\ d.op = "copy records"
  BY <1>12 DEF Program, CopyRecords
<1>20. CopyNext(a, dst, to, v, e, to + Size(e))
  <2>1. to + Size(e) = record
    BY <1>5, <1>8, <1>9, Sizes DEF Cell
  <2> QED
    BY <1>8, <1>9, <1>10, <2>1 DEF CopyNext
<1>21. PICK t : t = to + Size(e)
  OBVIOUS
<1>22. CopyNext(a, dst, to, v, e, t)'
  BY <1>3, <1>20, <1>21, CopyNextFrame DEF ramState
<1>23. AtCopyRecord'
  <2>1. /\ Top(todo', "program") /\ Top(Tail(todo'), "program") /\ Top(Tail(Tail(todo')), "copy records")
        /\ Caller(Tail(Tail(Tail(todo')))) /\ Head(Tail(Tail(todo'))) = CopyRecords(a - 1, dst + 1, to)
        /\ Head(todo') = Program(OtherPage', to, Data(e, v))
        /\ Head(Tail(todo')) = Program(OtherPage', dst, <<Meta(e, to)>>)
    BY <1>2, <1>4, <1>12, <1>18, <1>19 DEF Top
  <2> QED
    BY <1>4, <1>5, <1>9, <1>10, <1>21, <1>22, <2>1 DEF AtCopyRecord, Rest
<1> QED
  BY <1>1, <1>3, <1>23, OnlyCall DEF Phase

-----------------------------------------------------------------------------
(* What is read back from a page.                                          *)
LEMMA MaxFacts ==
    ASSUME NEW T, NEW n \in Nat, T \subseteq 0 .. n, T # {}
    PROVE  Max(T) \in T /\ \A k \in T : k <= Max(T)
<1>1. PICK R : R = {j \in Nat : \E k \in T : j = n - k}
  OBVIOUS
<1>2. R \subseteq Nat /\ R # {}
  <2>1. PICK k : k \in T
    OBVIOUS
  <2>2. n - k \in Nat
    BY <2>1
  <2> QED
    BY <1>1, <2>1, <2>2
<1>3. PICK m \in R : \A j \in R : m <= j
  BY <1>2, LeastNat
<1>4. PICK k \in T : m = n - k
  BY <1>1, <1>3
<1>5. ASSUME NEW x \in T PROVE x <= k
  <2>1. n - x \in R
    BY <1>1
  <2> QED
    BY <1>3, <1>4, <2>1
<1>6. \E x \in T : \A y \in T : x >= y
  BY <1>5
<1> QED
  BY <1>6 DEF Max

(* The newest meta of a data set and the value its record holds.           *)
NewestOf(g, last, e, m) ==
    /\ m \in FirstMeta .. last /\ Is(g[m], "meta") /\ g[m].entry = e
    /\ \A b \in m + 1 .. last : Is(g[b], "meta") => g[b].entry # e
MetasOf(g, last, e) == {a \in FirstMeta .. last : Is(g[a], "meta") /\ g[a].entry = e}

LEMMA ReadRecordValue ==
    ASSUME NEW f, NEW p, NEW e \in Entry, NEW a, NEW v \in Value, Holds(f[p], e, v, a)
    PROVE  ReadRecord(f, p, e, a) = v
<1>1. PICK cells : cells = [k \in 1 .. pNVM_DataTable[e] |-> f[p][a + k - 1]]
  OBVIOUS
<1>2. cells = Data(e, v)
  BY <1>1 DEF Holds, Data, Size
<1>3. ASSUME NEW w \in Value, cells = Data(e, w) PROVE w = v
  BY <1>2, <1>3, DataInjective
<1>4. (CHOOSE w \in Value : cells = Data(e, w)) = v
  BY <1>2, <1>3
<1> QED
  BY <1>1, <1>2, <1>4 DEF ReadRecord

LEMMA ReadBack ==
    ASSUME NEW f, NEW p, f[p] \in PageOfCells, NEW last, PageOk(f[p], last), NEW e \in Entry
    PROVE  \/ MetasOf(f[p], last, e) = {} /\ NvRestoreData(f, p, last, e) = NONE
           \/ \E m \in FirstMeta .. last, v \in Value :
                 NewestOf(f[p], last, e, m) /\ Holds(f[p], e, v, f[p][m].offset) /\ NvRestoreData(f, p, last, e) = v
<1>1. PICK g, metas : g = f[p] /\ metas = MetasOf(g, last, e)
  OBVIOUS
<1>2. NvRestoreData(f, p, last, e) = IF metas = {} THEN NONE ELSE ReadRecord(f, p, e, g[Max(metas)].offset)
  BY <1>1 DEF NvRestoreData, MetasOf
<1>3. last \in Nat /\ metas \subseteq 0 .. last
  BY <1>1, Sizes DEF PageOk, MetasOf, FirstMeta
<1>4. CASE metas # {}
  <2>1. PICK m : m = Max(metas)
    OBVIOUS
  <2>2. m \in metas /\ \A k \in metas : k <= m
    BY <1>3, <1>4, <2>1, MaxFacts
  <2>3. NewestOf(g, last, e, m)
    <3>1. m \in FirstMeta .. last /\ Is(g[m], "meta") /\ g[m].entry = e
      BY <1>1, <2>2 DEF MetasOf
    <3>2. ASSUME NEW b \in m + 1 .. last, Is(g[b], "meta") PROVE g[b].entry # e
      <4>1. b \in FirstMeta .. last /\ ~(b <= m)
        BY <1>3, <3>1 DEF FirstMeta
      <4> QED
        BY <1>1, <2>2, <3>2, <4>1 DEF MetasOf
    <3> QED
      BY <3>1, <3>2 DEF NewestOf
  <2>4. PICK v \in Value : Holds(g, e, v, g[m].offset)
    BY <1>1, <2>3 DEF NewestOf, PageOk
  <2>5. ReadRecord(f, p, e, g[m].offset) = v
    BY <1>1, <2>4, ReadRecordValue
  <2>6. NvRestoreData(f, p, last, e) = v
    BY <1>2, <1>4, <2>1, <2>5
  <2>7. m \in FirstMeta .. last
    BY <2>3 DEF NewestOf
  <2> QED
    BY <1>1, <2>3, <2>4, <2>6, <2>7
<1> QED
  BY <1>1, <1>2, <1>4

-----------------------------------------------------------------------------
(* The end of a page copy.                                                 *)
LEMMA CopiedSubset ==
    ASSUME Types, RamOk(LastActive), NEW src, NEW dst \in Int, NEW record, NEW free,
           CopyOk(src, dst, record, free)
    PROVE  /\ CopiedEntries(dst) \in SUBSET Entry /\ dst \in 1 .. Bottom
           /\ PageOk(flash[OtherPage], dst - 1) /\ record = Edge(flash[OtherPage], dst - 1)
           /\ flash[OtherPage] \in PageOfCells /\ MetasOk(flash[OtherPage]) /\ OtherPage \in Page
           /\ record \in dst .. Bottom
<1>1. mNvActivePageId \in Page /\ OtherPage \in Page
  BY Other DEF RamOk
<1>2. PICK h : h = flash[OtherPage]
  OBVIOUS
<1>3. /\ h \in PageOfCells /\ MetasOk(h) /\ PageOk(h, dst - 1) /\ record = Edge(h, dst - 1)
      /\ \A b \in FirstMeta .. dst - 1 : Is(h[b], "meta")
  BY <1>1, <1>2, PageTypes DEF Types, CopyOk
<1>4. Bottom \in Nat /\ Cell = 0 .. Bottom /\ FirstMeta = 1
  BY Sizes DEF Cell, FirstMeta
<1>5. dst - 1 \in 0 .. Bottom - 1
  BY <1>3 DEF PageOk
<1>6. record \in (dst - 1) + 1 .. Bottom
  BY <1>3, EdgeFacts
<1>7. CopiedEntries(dst) \in SUBSET Entry
  <2>1. ASSUME NEW b \in FirstMeta .. dst - 1 PROVE h[b].entry \in Entry
    <3>1. b \in Cell /\ Is(h[b], "meta")
      BY <1>3, <1>4, <1>5
    <3> QED
      BY <1>3, <3>1 DEF MetasOk, MetaOk
  <2> QED
    BY <1>2, <2>1 DEF CopiedEntries
<1> QED
  BY <1>1, <1>2, <1>3, <1>4, <1>5, <1>6, <1>7

LEMMA CopiedData ==
    ASSUME Types, RamOk(LastActive), NEW src \in Cell, NEW dst \in Cell, NEW record \in Cell,
           CopyOk(src, dst, record, record), NotCopied(src) = {}
    PROVE  /\ NoMetas(flash[mNvActivePageId]) <=> NoMetas(flash[OtherPage])
           /\ \A e \in Entry : NvRestoreData(flash, mNvActivePageId, LastActive, e)
                                 = NvRestoreData(flash, OtherPage, dst - 1, e)
<1>1. PICK p, q, g, h, last :
          p = mNvActivePageId /\ q = OtherPage /\ g = flash[p] /\ h = flash[q] /\ last = LastActive
  OBVIOUS
<1>2. /\ g \in PageOfCells /\ MetasOk(g) /\ h \in PageOfCells /\ MetasOk(h)
      /\ PageOk(g, last) /\ last \in 0 .. Bottom - 1 /\ PageOk(h, dst - 1) /\ dst - 1 \in 0 .. Bottom - 1
  BY <1>1, Other, PageTypes DEF Types, RamOk, PageOk, CopyOk
<1>3. /\ src \in 0 .. last
      /\ \A b \in FirstMeta .. dst - 1 : Is(h[b], "meta") /\ \E x \in src + 1 .. last : Newest(x) /\ CopyOf(b, x)
      /\ \A x \in src + 1 .. last : Is(g[x], "meta") => g[x].entry \in CopiedEntries(dst)
  BY <1>1 DEF CopyOk
<1>4. Bottom \in Nat /\ Cell = 0 .. Bottom /\ FirstMeta = 1
  BY Sizes DEF Cell, FirstMeta
<1>5. ASSUME NEW a \in FirstMeta .. last, Is(g[a], "meta")
      PROVE  \E b \in FirstMeta .. dst - 1 : Is(h[b], "meta") /\ h[b].entry = g[a].entry
  <2>1. CASE a \in src + 1 .. last
    BY <1>1, <1>3, <1>5, <2>1 DEF CopiedEntries
  <2>2. CASE a \in FirstMeta .. src
    <3>1. PICK b \in FirstMeta .. Bottom - 1 : Is(h[b], "meta") /\ h[b].entry = g[a].entry
      BY <1>1, <1>5, <2>2 DEF NotCopied
    <3>2. b \in FirstMeta .. dst - 1
      BY <1>2, <1>4, <3>1 DEF PageOk
    <3> QED
      BY <3>1, <3>2
  <2> QED
    BY <1>2, <1>3, <1>4, <2>1, <2>2
<1>6. ASSUME NEW b \in FirstMeta .. dst - 1
      PROVE  \E a \in FirstMeta .. last : NewestOf(g, last, h[b].entry, a) /\ CopyOf(b, a)
  <2>1. PICK a \in src + 1 .. last : Newest(a) /\ CopyOf(b, a)
    BY <1>3
  <2>2. a \in FirstMeta .. last
    BY <1>2, <1>3, <1>4
  <2>3. g[a].entry = h[b].entry
    BY <1>1, <2>1 DEF CopyOf
  <2> QED
    BY <1>1, <2>1, <2>2, <2>3 DEF NewestOf, Newest
<1>7. NoMetas(g) <=> NoMetas(h)
  <2>1. ASSUME NEW a \in FirstMeta .. Bottom - 1, Is(g[a], "meta") PROVE ~NoMetas(h)
    <3>1. a \in FirstMeta .. last
      BY <1>2, <1>4, <2>1 DEF PageOk
    <3>2. PICK b \in FirstMeta .. dst - 1 : Is(h[b], "meta")
      BY <1>5, <2>1, <3>1
    <3>3. b \in FirstMeta .. Bottom - 1
      BY <1>2, <1>4
    <3> QED
      BY <3>2, <3>3 DEF NoMetas
  <2>2. ASSUME NEW b \in FirstMeta .. Bottom - 1, Is(h[b], "meta") PROVE ~NoMetas(g)
    <3>1. b \in FirstMeta .. dst - 1
      BY <1>2, <1>4, <2>2 DEF PageOk
    <3>2. PICK a \in FirstMeta .. last : Is(g[a], "meta")
      BY <1>6, <3>1 DEF NewestOf
    <3>3. a \in FirstMeta .. Bottom - 1
      BY <1>2, <1>4
    <3> QED
      BY <3>2, <3>3 DEF NoMetas
  <2> QED
    BY <2>1, <2>2 DEF NoMetas
<1>8. ASSUME NEW e \in Entry
      PROVE  NvRestoreData(flash, p, last, e) = NvRestoreData(flash, q, dst - 1, e)
  <2>1. \/ MetasOf(g, last, e) = {} /\ NvRestoreData(flash, p, last, e) = NONE
        \/ \E m \in FirstMeta .. last, v \in Value :
              NewestOf(g, last, e, m) /\ Holds(g, e, v, g[m].offset) /\ NvRestoreData(flash, p, last, e) = v
    BY <1>1, <1>2, ReadBack
  <2>2. \/ MetasOf(h, dst - 1, e) = {} /\ NvRestoreData(flash, q, dst - 1, e) = NONE
        \/ \E m \in FirstMeta .. dst - 1, v \in Value :
              /\ NewestOf(h, dst - 1, e, m) /\ Holds(h, e, v, h[m].offset)
              /\ NvRestoreData(flash, q, dst - 1, e) = v
    BY <1>1, <1>2, ReadBack
  <2>3. MetasOf(g, last, e) # {} => MetasOf(h, dst - 1, e) # {}
    BY <1>5 DEF MetasOf
  <2>4. ASSUME NEW m \in FirstMeta .. dst - 1, NEW v \in Value,
               NewestOf(h, dst - 1, e, m), Holds(h, e, v, h[m].offset)
        PROVE  NvRestoreData(flash, p, last, e) = v
    <3>1. PICK a \in FirstMeta .. last : NewestOf(g, last, h[m].entry, a) /\ CopyOf(m, a)
      BY <1>6
    <3>2. h[m].entry = e /\ NewestOf(g, last, e, a)
      BY <2>4, <3>1 DEF NewestOf
    <3>3. a \in MetasOf(g, last, e)
      BY <3>1, <3>2 DEF MetasOf, NewestOf
    <3>4. PICK n \in FirstMeta .. last, w \in Value :
              NewestOf(g, last, e, n) /\ Holds(g, e, w, g[n].offset) /\ NvRestoreData(flash, p, last, e) = w
      BY <2>1, <3>3
    <3>5. n = a
      <4>1. ~(n \in a + 1 .. last) /\ ~(a \in n + 1 .. last)
        BY <3>2, <3>4 DEF NewestOf
      <4> QED
        BY <1>2, <1>4, <3>1, <3>4, <4>1
    <3>6. \A k \in 1 .. Size(e) : h[h[m].offset + k - 1] = g[g[a].offset + k - 1]
      BY <1>1, <3>1, <3>2 DEF CopyOf
    <3>7. 1 \in 1 .. Size(e)
      BY Sizes
    <3>8. Data(e, v)[1] = Data(e, w)[1]
      BY <2>4, <3>4, <3>5, <3>6, <3>7 DEF Holds
    <3> QED
      BY <3>4, <3>8, DataInjective
  <2>5. \A m \in FirstMeta .. last : NewestOf(g, last, e, m) => MetasOf(g, last, e) # {}
    BY DEF NewestOf, MetasOf
  <2>6. CASE MetasOf(h, dst - 1, e) = {} /\ NvRestoreData(flash, q, dst - 1, e) = NONE
    BY <2>1, <2>3, <2>5, <2>6
  <2> QED
    BY <2>2, <2>4, <2>6
<1> QED
  BY <1>1, <1>7, <1>8

LEMMA SwitchStep ==
    ASSUME FlashInv, NvCopyPage_switch
    PROVE  FlashInv'
<1>1. Types /\ AtCopy /\ todo # << >> /\ BootOk
  BY PhaseOf DEF FlashInv, NvCopyPage_switch, Running, QuietNames
<1>2. RamOk(LastActive) /\ Caller(Rest) /\ Stack(Rest) /\ mNvModuleInitialized /\ mNvActivePageId \in Page
  <2>1. Stack(<<Call("return")>>)
    BY StackCall
  <2> QED
    BY <1>1, <2>1 DEF AtCopy, Caller, RamOk
<1>3. PICK src \in Cell, dst \in Cell, record \in Cell :
          Head(todo) = CopyRecords(src, dst, record) /\ CopyOk(src, dst, record, record)
  BY <1>1 DEF AtCopy
<1>4. Head(todo).src = src /\ Head(todo).dst = dst
  <2>1. CopyRecords(src, dst, record).src = src /\ CopyRecords(src, dst, record).dst = dst
    BY DEF CopyRecords
  <2> QED
    BY <1>3, <2>1, Zenon
<1>5. PICK p, q, g, h, n :
          p = mNvActivePageId /\ q = OtherPage /\ g = flash[p] /\ h = flash[q] /\ n = mNvPageCounter
  OBVIOUS
<1>6. /\ UNCHANGED <<flash, stored, mNvCopyOperationIsPending, mNvPendingSavesQueue, mNvModuleInitialized,
                     mNvCriticalSectionFlag, ram, boot, requested>>
      /\ NotCopied(src) = {}
      /\ mNvErasePgCmdStatus' = [pending |-> TRUE, page |-> p, sector |-> 0]
      /\ mNvActivePageId' = q
      /\ NvLastMetaInfoAddress' = [NvLastMetaInfoAddress EXCEPT ![q] = dst - 1]
      /\ mNvPageCounter' = n + 1
      /\ todo' = NvSaveRamTable(q, n + 1) \o Rest
  BY <1>4, <1>5 DEF NvCopyPage_switch
<1>7. /\ p \in Page /\ q \in Page /\ p # q /\ n \in Nat /\ OtherPage' = p
      /\ Page = {p, q}
  <2>1. p \in Page /\ q \in Page /\ p # q /\ q = 1 - p /\ Page = {0, 1}
    BY <1>2, <1>5, Other
  <2>2. OtherPage' = (q + 1) % 2
    BY <1>6 DEF OtherPage
  <2>3. OtherPage' = p
    BY <2>1, <2>2
  <2> QED
    BY <1>1, <1>5, <2>1, <2>3 DEF Types
<1>8. /\ CopiedEntries(dst) \in SUBSET Entry /\ dst \in 1 .. Bottom /\ PageOk(h, dst - 1) /\ record = Edge(h, dst - 1)
      /\ Bottom \in Nat /\ Cell = 0 .. Bottom /\ record \in dst .. Bottom
  BY <1>1, <1>2, <1>3, <1>5, CopiedSubset, Sizes DEF Cell
<1>9. /\ \A a \in Cell : a = 0 \/ a \in dst .. record - 1 \/ a = Bottom => h[a] = BLANK
      /\ \E used \in [Table -> 0 .. PAGE] :
            Adds(used, CopiedEntries(dst)) /\ record - dst = Bottom - FirstMeta - used[Len(pNVM_DataTable)]
  BY <1>3, <1>5 DEF CopyOk
<1>10. /\ NoMetas(g) <=> NoMetas(h)
       /\ \A e \in Entry : NvRestoreData(flash, p, LastActive, e) = NvRestoreData(flash, q, dst - 1, e)
  BY <1>1, <1>2, <1>3, <1>5, <1>6, CopiedData
<1>11. /\ NvLastMetaInfoAddress'[q] = dst - 1 /\ NvLastMetaInfoAddress'[p] = LastActive /\ LastActive' = dst - 1
       /\ NvLastMetaInfoAddress' \in [Page -> 0 .. Bottom - 1]
  BY <1>1, <1>5, <1>6, <1>7, <1>8 DEF Types, LastActive
<1>12. \A e \in Entry : Size(e) + 2 < record - dst
  <2>1. PICK used \in [Table -> 0 .. PAGE] :
            Adds(used, CopiedEntries(dst)) /\ record - dst = Bottom - FirstMeta - used[Len(pNVM_DataTable)]
    BY <1>9
  <2>2. used \in [Table -> Int]
    BY <2>1, Sizes
  <2> QED
    BY <1>8, <2>1, <2>2, AddsRoom
<1>13. Fresh'
  <2>1. (dst - 1) + 1 = dst
    BY <1>8
  <2>2. \A a \in dst .. record - 1 : h[a] = BLANK
    BY <1>8, <1>9
  <2>3. flash'[mNvActivePageId'] = h
    BY <1>5, <1>6
  <2>4. Edge(h, LastActive') = record /\ LastActive' + 1 = dst
    BY <1>8, <1>11, <2>1, Zenon
  <2> QED
    BY <1>12, <2>2, <2>3, <2>4 DEF Fresh
<1>14. SameData'
  <2>1. \A e \in Entry : NvRestoreData(flash', q, LastActive', e) = NvRestoreData(flash', p, NvLastMetaInfoAddress'[p], e)
    BY <1>6, <1>10, <1>11, Zenon
  <2> QED
    BY <1>5, <1>6, <1>7, <1>10, <2>1, Zenon DEF SameData
<1>15. ToErase'
  BY <1>6, <1>7 DEF ToErase
<1>16. Switched' /\ flash'[mNvActivePageId'][0] = BLANK
  <2>1. Valid(flash, p) /\ g[0] = Counter(n) /\ PageOk(g, LastActive)
    BY <1>2, <1>5 DEF RamOk
  <2>2. flash'[p][0].n < mNvPageCounter'
    BY <1>5, <1>6, <1>7, <2>1, CellFacts
  <2>3. PageOk(flash'[p], NvLastMetaInfoAddress'[p])
    BY <1>5, <1>6, <1>11, <2>1, Zenon
  <2>4. PageOk(flash'[q], LastActive')
    BY <1>5, <1>6, <1>8, <1>11, Zenon
  <2>5. flash'[q][0] = BLANK /\ flash'[q][Bottom] = BLANK
    BY <1>5, <1>6, <1>8, <1>9
  <2>6. Valid(flash', p)
    BY <1>6, <2>1
  <2> QED
    BY <1>2, <1>6, <1>7, <1>13, <1>14, <1>15, <2>2, <2>3, <2>4, <2>5, <2>6, Zenon DEF Switched
<1>17. AtFirstCounter'
  <2>1. PICK a, b : a = Program(q, 0, <<Counter(n + 1)>>) /\ b = Program(q, Bottom, <<Counter(n + 1)>>)
    OBVIOUS
  <2>2. PICK w : w = <<a, b>>
    OBVIOUS
  <2>3. Stack(w) /\ Len(w) = 2 /\ w[1] = a /\ w[2] = b
    BY <2>2 DEF Stack
  <2>4. PICK s, t : s = todo' /\ t = Rest
    OBVIOUS
  <2>5. todo' = w \o Rest
    BY <1>6, <2>1, <2>2, Zenon DEF NvSaveRamTable
  <2>6. Push2(s, w, t)
    <3>1. Stack(t) /\ s = w \o t /\ Stack(w) /\ Len(w) = 2
      BY <1>2, <2>3, <2>4, <2>5
    <3> QED
      BY <3>1, Pushed2
  <2>7. /\ todo' # << >> /\ Head(todo') = a /\ Tail(todo') # << >> /\ Head(Tail(todo')) = b
        /\ Tail(Tail(todo')) = Rest
    BY <2>3, <2>4, <2>6, Zenon DEF Push2
  <2>8. a.op = "program" /\ b.op = "program"
    BY <2>1 DEF Program
  <2> QED
    BY <1>2, <1>6, <1>16, <2>1, <2>7, <2>8 DEF AtFirstCounter, Top, Rest
<1>18. Types'
  <2>1. mNvErasePgCmdStatus' \in [pending : BOOLEAN, page : Page, sector : 0 .. SECTORS]
    BY <1>6, <1>7, Sectors
  <2> QED
    BY <1>1, <1>6, <1>7, <1>11, <2>1 DEF Types
<1> QED
  BY <1>1, <1>2, <1>6, <1>17, <1>18, RestStep, BootFrame DEF Phase

(* The callers of NvCopyPage.                                              *)
LEMMA CopiedStep ==
    ASSUME FlashInv, Copied
    PROVE  FlashInv'
<1>1. Types /\ AtCopied /\ todo # << >> /\ BootOk /\ Head(todo).op = "copied"
  BY PhaseOf DEF FlashInv, Copied, Running, QuietNames
<1>2. RamOk(LastActive) /\ Fresh /\ ToErase /\ mNvModuleInitialized
  BY <1>1 DEF AtCopied, RamOk
<1>3. \/ Quiet(Rest)
      \/ Top(Rest, "NvWriteRecord") /\ Head(Rest).by = "after copy" /\ Head(Rest).entry \in Entry /\ Quiet(Tail(Rest))
  <2>1. todo # <<Call("return")>>
    <3>1. Head(<<Call("return")>>).op = "return"
      BY StackCall
    <3> QED
      BY <1>1, <3>1
  <2> QED
    BY <1>1, <2>1 DEF AtCopied, Caller, Top, Rest
<1>4. /\ UNCHANGED <<flash, stored, mNvActivePageId, mNvPageCounter, NvLastMetaInfoAddress, mNvErasePgCmdStatus,
                     mNvPendingSavesQueue, mNvModuleInitialized, mNvCriticalSectionFlag, ram, boot, requested>>
      /\ mNvCopyOperationIsPending' = FALSE /\ todo' = Rest
  BY DEF Copied
<1>5. RamOk(LastActive)' /\ Fresh' /\ ToErase' /\ OtherPage' = OtherPage
  BY <1>2, <1>4, ActiveFrame, EraseFrame
<1>6. EraseOk'
  <2>1. SECTORS \in Nat /\ ~(0 > 0)
    BY Sectors
  <2> QED
    BY <1>5, <2>1 DEF EraseOk, ToErase
<1>7. AtQuiet' \/ AtSecond'
  <2>1. CASE Quiet(Rest)
    BY <1>2, <1>4, <1>5, <1>6, <2>1 DEF AtQuiet
  <2>2. CASE ~Quiet(Rest)
    BY <1>3, <1>4, <1>5, <1>6, <2>2 DEF AtSecond, Top, Rest
  <2> QED
    BY <2>1, <2>2
<1>8. Types'
  BY <1>1, <1>4 DEF Types
<1> QED
  BY <1>1, <1>2, <1>4, <1>7, <1>8, RestStep, BootFrame DEF Phase

LEMMA SyncCopiedStep ==
    ASSUME FlashInv, NvSyncSave_copied
    PROVE  FlashInv'
<1>1. Types /\ AtCopied /\ todo # << >> /\ BootOk /\ Head(todo).op = "erase old page"
  BY PhaseOf DEF FlashInv, NvSyncSave_copied, Running, QuietNames
<1>2. RamOk(LastActive) /\ Fresh /\ ToErase /\ mNvModuleInitialized
  BY <1>1 DEF AtCopied, RamOk
<1>3. PICK e : e = Head(todo).entry
  OBVIOUS
<1>4. Quiet(Rest) /\ Stack(Rest) /\ e \in Entry
  <2>1. todo # <<Call("return")>>
    <3>1. Head(<<Call("return")>>).op = "return"
      BY StackCall
    <3> QED
      BY <1>1, <3>1
  <2> QED
    BY <1>1, <1>3, <2>1 DEF AtCopied, Caller, Top, Rest, Quiet
<1>5. /\ UNCHANGED <<flash, stored, mNvActivePageId, mNvPageCounter, NvLastMetaInfoAddress, mNvErasePgCmdStatus,
                     mNvPendingSavesQueue, mNvModuleInitialized, mNvCriticalSectionFlag, ram, boot, requested>>
      /\ mNvCopyOperationIsPending' = FALSE
      /\ todo' = <<Erase(mNvErasePgCmdStatus.page), Call("erased"), WriteRecord(e, "again")>> \o Rest
  BY <1>3 DEF NvSyncSave_copied
<1>6. RamOk(LastActive)' /\ Fresh' /\ ToErase' /\ OtherPage' = OtherPage /\ mNvErasePgCmdStatus.page = OtherPage
  BY <1>2, <1>5, ActiveFrame, EraseFrame DEF ToErase
<1>7. PICK a, b, c : a = Erase(OtherPage) /\ b = Call("erased") /\ c = WriteRecord(e, "again")
  OBVIOUS
<1>8. PICK w : w = <<a, b, c>>
  OBVIOUS
<1>9. Stack(w) /\ Len(w) = 3 /\ w[1] = a /\ w[2] = b /\ w[3] = c
  BY <1>8 DEF Stack
<1>10. todo' = w \o Rest
  BY <1>5, <1>6, <1>7, <1>8, Zenon
<1>11. PICK s, q : s = todo' /\ q = Rest
  OBVIOUS
<1>12. Push3(s, w, q)
  <2>1. Stack(q) /\ s = w \o q /\ Stack(w) /\ Len(w) = 3
    BY <1>4, <1>9, <1>10, <1>11
  <2> QED
    BY <2>1, Pushed3
<1>13. /\ todo' # << >> /\ Head(todo') = a /\ Tail(todo') # << >> /\ Head(Tail(todo')) = b
       /\ Tail(Tail(todo')) # << >> /\ Head(Tail(Tail(todo'))) = c /\ Tail(Tail(Tail(todo'))) = Rest
       /\ Stack(Tail(todo'))
  BY <1>9, <1>11, <1>12, Zenon DEF Push3
<1>14. b.op = "erased" /\ c.op = "NvWriteRecord" /\ c.by = "again" /\ c.entry = e
  BY <1>7 DEF Call, WriteRecord
<1>15. a.op = "erase" /\ ErasingFromStart(a, OtherPage)'
  BY <1>6, <1>7, FromZero
<1>16. AtSyncErase'
  BY <1>4, <1>5, <1>6, <1>13, <1>14, <1>15 DEF AtSyncErase, Top, Rest
<1>17. Types'
  BY <1>1, <1>5 DEF Types
<1> QED
  BY <1>1, <1>2, <1>5, <1>16, <1>17, RestStep, BootFrame DEF Phase

LEMMA SyncErasedStep ==
    ASSUME FlashInv, NvSyncSave_erased
    PROVE  FlashInv'
<1>1. Types /\ AtErased /\ todo # << >> /\ BootOk
  BY PhaseOf DEF FlashInv, NvSyncSave_erased, Running, QuietNames
<1>2. /\ UNCHANGED <<flash, stored, mNvActivePageId, mNvPageCounter, mNvCopyOperationIsPending,
                     mNvPendingSavesQueue, mNvModuleInitialized, mNvCriticalSectionFlag, ram, boot, requested>>
      /\ todo' = Rest /\ EraseDone
  BY DEF NvSyncSave_erased
<1>3. /\ RamOk(LastActive) /\ Fresh /\ mNvErasePgCmdStatus.pending /\ mNvErasePgCmdStatus.page = OtherPage
      /\ mNvModuleInitialized
  BY <1>1 DEF AtErased, ToErase, RamOk
<1>4. /\ RamOk(LastActive)' /\ EraseOk' /\ NvLastMetaInfoAddress' \in [Page -> 0 .. Bottom - 1]
      /\ mNvErasePgCmdStatus' \in [pending : BOOLEAN, page : Page, sector : 0 .. SECTORS] /\ Fresh'
  BY <1>1, <1>2, <1>3, EraseDoneFacts
<1>5. AtSecond'
  BY <1>1, <1>2, <1>4 DEF AtErased, AtSecond, Top, Rest
<1>6. Types'
  BY <1>1, <1>2, <1>4 DEF Types
<1> QED
  BY <1>1, <1>2, <1>3, <1>5, <1>6, RestStep, BootFrame DEF Phase

-----------------------------------------------------------------------------
(* The start of the module and the format.                                 *)
LEMMA ReturnStep ==
    ASSUME FlashInv, NvModuleInit_return
    PROVE  FlashInv'
<1>1. Types /\ (AtCopied \/ AtReturn) /\ todo # << >> /\ BootOk /\ Head(todo).op = "return"
  BY PhaseOf DEF FlashInv, NvModuleInit_return, Running, QuietNames
<1>2. todo = <<Call("return")>> /\ (mNvModuleInitialized => RamOk(LastActive) /\ EraseOk)
  <2>1. CASE AtCopied
    <3>1. todo = <<Call("return")>>
      BY <1>1, <2>1 DEF AtCopied, Caller, Top
    <3>2. SECTORS \in Nat /\ ~(0 > 0)
      BY Sectors
    <3> QED
      BY <2>1, <3>1, <3>2 DEF AtCopied, ToErase, EraseOk
  <2>2. CASE AtReturn
    BY <2>2 DEF AtReturn
  <2> QED
    BY <1>1, <2>1, <2>2
<1>3. /\ UNCHANGED <<flash, stored, mNvActivePageId, mNvPageCounter, NvLastMetaInfoAddress, mNvErasePgCmdStatus,
                     mNvPendingSavesQueue, mNvModuleInitialized, mNvCriticalSectionFlag, ram, requested,
                     mNvCopyOperationIsPending>>
      /\ boot' = "ok" /\ todo' = Rest
  BY DEF NvModuleInit_return, ramState
<1>4. todo' = << >>
  BY <1>2, <1>3, StackCall DEF Rest
<1>5. (RamOk(LastActive) => RamOk(LastActive)') /\ (EraseOk => EraseOk')
  BY <1>3, ActiveFrame, EraseFrame
<1>6. AtQuiet'
  BY <1>2, <1>3, <1>4, <1>5, QuietEmpty DEF AtQuiet
<1>7. Types' /\ BootOk'
  BY <1>1, <1>3 DEF Types, BootOk
<1> QED
  BY <1>3, <1>6, <1>7, RestStep DEF Phase

LEMMA FormattedStep ==
    ASSUME FlashInv, NvFormat_formatted
    PROVE  FlashInv'
<1>1. Types /\ AtFormatted /\ todo # << >> /\ BootOk
  BY PhaseOf DEF FlashInv, NvFormat_formatted, Running, QuietNames
<1>2. todo = <<Call("formatted")>> /\ RamOk(LastActive) /\ EraseOk /\ mNvModuleInitialized
  BY <1>1 DEF AtFormatted, RamOk
<1>3. /\ UNCHANGED <<flash, stored, mNvActivePageId, mNvPageCounter, NvLastMetaInfoAddress, mNvErasePgCmdStatus,
                     mNvModuleInitialized, mNvCriticalSectionFlag, ram, boot, mNvCopyOperationIsPending>>
      /\ mNvPendingSavesQueue' = << >> /\ todo' = Rest
  BY DEF NvFormat_formatted
<1>4. todo' = << >>
  BY <1>2, <1>3, StackCall DEF Rest
<1>5. RamOk(LastActive)' /\ EraseOk'
  BY <1>2, <1>3, ActiveFrame, EraseFrame
<1>6. AtQuiet'
  BY <1>2, <1>3, <1>4, <1>5, QuietEmpty DEF AtQuiet
<1>7. Types'
  BY <1>1, <1>3 DEF Types
<1> QED
  BY <1>1, <1>2, <1>3, <1>6, <1>7, RestStep, BootFrame DEF Phase

(* The calls that wait for NvInternalFormat.                               *)
LEMMA FormatCallers ==
    ASSUME NEW f, FormatCaller(f)
    PROVE  /\ Stack(f) /\ f \in {<<Call("formatted")>>, <<Call("init")>>, <<Call("return")>>}
           /\ UNCHANGED mNvModuleInitialized => FormatCaller(f)'
<1>1. f \in {<<Call("formatted")>>, <<Call("init")>>, <<Call("return")>>}
  BY DEF FormatCaller
<1>2. Stack(f)
  BY <1>1, StackCall, Zenon
<1>3. ASSUME UNCHANGED mNvModuleInitialized PROVE FormatCaller(f)'
  BY <1>3 DEF FormatCaller
<1> QED
  BY <1>1, <1>2, <1>3

LEMMA InternalFormatStep ==
    ASSUME FlashInv, NvInternalFormat
    PROVE  FlashInv'
<1>1. Types /\ AtFormat /\ todo # << >> /\ BootOk
  BY PhaseOf DEF FlashInv, NvInternalFormat, Running, QuietNames
<1>2. PICK f, n : f = Rest /\ n = Head(todo).counter + 1
  OBVIOUS
<1>3. /\ ~mNvErasePgCmdStatus.pending /\ FormatCaller(f) /\ Stack(f) /\ n \in Nat
      /\ f \in {<<Call("formatted")>>, <<Call("init")>>, <<Call("return")>>}
  BY <1>1, <1>2, FormatCallers DEF AtFormat
<1>4. /\ UNCHANGED <<flash, stored, NvLastMetaInfoAddress, mNvCopyOperationIsPending, mNvErasePgCmdStatus,
                     mNvPendingSavesQueue, mNvModuleInitialized, mNvCriticalSectionFlag, ram, boot, requested>>
      /\ mNvPageCounter' = n /\ mNvActivePageId' = 0
      /\ todo' = <<Erase(0), Erase(1)>>
                   \o (NvSaveRamTable(0, n) \o (<<Call("NvUpdateLastMetaInfoAddress")>> \o f))
  BY <1>2 DEF NvInternalFormat
<1>5. PICK a, b, t, u : /\ a = Erase(0) /\ b = Erase(1) /\ t = NvSaveRamTable(0, n)
                        /\ u = <<Call("NvUpdateLastMetaInfoAddress")>> \o f
  OBVIOUS
<1>6. Stack(t) /\ t # << >> /\ Stack(u)
  <2>1. PICK c, d : c = Program(0, 0, <<Counter(n)>>) /\ d = Program(0, Bottom, <<Counter(n)>>)
    OBVIOUS
  <2>2. t = <<c, d>>
    BY <1>5, <2>1, Zenon DEF NvSaveRamTable
  <2>3. Stack(<<c, d>>) /\ Len(<<c, d>>) \in Nat \ {0}
    BY DEF Stack
  <2>4. <<c, d>> # << >>
    BY <2>3, NotEmpty
  <2>5. PICK x : x = Call("NvUpdateLastMetaInfoAddress")
    OBVIOUS
  <2>6. Stack(<<x>> \o f)
    BY <1>3, StackPush
  <2> QED
    BY <1>5, <2>2, <2>3, <2>4, <2>5, <2>6, Zenon
<1>7. PICK q : q = t \o u
  OBVIOUS
<1>8. Stack(q)
  BY <1>6, <1>7, PushedTail
<1>9. todo' = <<a>> \o (<<b>> \o q)
  <2>1. <<a, b>> \o q = <<a>> \o (<<b>> \o q)
    BY <1>8, StackPush2
  <2> QED
    BY <1>4, <1>5, <1>7, <2>1, Zenon
<1>10. PICK r : r = <<b>> \o q
  OBVIOUS
<1>11. Stack(r) /\ todo' # << >> /\ Head(todo') = a /\ Tail(todo') = r
  <2>1. Stack(r)
    BY <1>8, <1>10, StackPush
  <2> QED
    BY <1>9, <1>10, <2>1, StackPush, Zenon
<1>12. q = Formatted(f)'
  BY <1>4, <1>5, <1>7, Zenon DEF Formatted
<1>13. a.op = "erase" /\ ErasingFromStart(a, 0)'
  BY <1>5, EraseBegins
<1>14. FormatCaller(f)'
  BY <1>3, <1>4, FormatCallers
<1>15. Tail(todo') = <<Erase(1)>> \o Formatted(f)'
  BY <1>5, <1>10, <1>11, <1>12, Zenon
<1>16. AtFormatErase'
  BY <1>3, <1>4, <1>11, <1>13, <1>14, <1>15 DEF AtFormatErase, Top, Rest
<1>17. Types' /\ BootOk'
  BY <1>1, <1>3, <1>4 DEF Types, Page, BootOk
<1> QED
  BY <1>4, <1>16, <1>17, RestStep DEF Phase

(* The last meta of a page, where the search finds one.                    *)
LEMMA BlankLastMeta ==
    ASSUME NEW f, NEW p, f[p][FirstMeta] = BLANK
    PROVE  LastMeta(f, p) = 0
<1>1. PICK metas : metas = {a \in FirstMeta .. Bottom - 1 :
                              Is(f[p][a], "meta") /\ \A b \in FirstMeta .. a : f[p][b] # BLANK}
  OBVIOUS
<1>2. metas = {}
  <2>1. ASSUME NEW a \in metas PROVE FALSE
    <3>1. FirstMeta \in FirstMeta .. a
      BY <1>1, Sizes DEF FirstMeta
    <3> QED
      BY <1>1, <3>1
  <2> QED
    BY <2>1
<1> QED
  BY <1>1, <1>2 DEF LastMeta, gEmptyPageMetaAddress_c

LEMMA LastMetaOk ==
    ASSUME NEW f, NEW p, NEW last, PageOk(f[p], last), LastMeta(f, p) # NotFound
    PROVE  LastMeta(f, p) = last
<1>1. PICK g : g = f[p]
  OBVIOUS
<1>2. PICK metas : metas = {a \in FirstMeta .. Bottom - 1 : Is(g[a], "meta") /\ \A b \in FirstMeta .. a : g[b] # BLANK}
  OBVIOUS
<1>3. /\ last \in 0 .. Bottom - 1 /\ (last # 0 => Is(g[last], "meta"))
      /\ \A a \in FirstMeta .. Bottom - 1 : Is(g[a], "meta") => a <= last
      /\ \A a \in FirstMeta .. last : g[a] # BLANK
  BY <1>1 DEF PageOk
<1>4. Bottom \in Nat /\ 4 < Bottom /\ FirstMeta = 1
  BY Sizes DEF FirstMeta
<1>5. CASE g[FirstMeta] = BLANK
  <2>1. last = 0
    BY <1>3, <1>4, <1>5
  <2>2. LastMeta(f, p) = 0
    BY <1>1, <1>5, BlankLastMeta
  <2> QED
    BY <2>1, <2>2
<1>6. CASE g[FirstMeta] # BLANK
  <2>1. metas # {} /\ LastMeta(f, p) = Max(metas)
    BY <1>1, <1>2, <1>6 DEF LastMeta
  <2>2. metas \subseteq 0 .. Bottom
    BY <1>2, <1>4
  <2>3. Max(metas) \in metas /\ \A k \in metas : k <= Max(metas)
    BY <1>4, <2>1, <2>2, MaxFacts
  <2>4. Max(metas) <= last /\ Max(metas) \in FirstMeta .. Bottom - 1
    BY <1>2, <1>3, <2>3
  <2>5. last \in metas
    BY <1>2, <1>3, <1>4, <2>4
  <2>6. last <= Max(metas)
    BY <2>3, <2>5
  <2> QED
    BY <1>3, <1>4, <2>1, <2>4, <2>6
<1> QED
  BY <1>5, <1>6

LEMMA FormattedPageOk ==
    ASSUME mNvPageCounter \in Nat, mNvActivePageId = 0, flash[1] = BlankPage, flash[0] = FormattedPage
    PROVE  /\ Valid(flash, 0) /\ ~Valid(flash, 1) /\ flash[0][0] = Counter(mNvPageCounter)
           /\ PageOk(flash[0], 0) /\ LastMeta(flash, 0) = 0 /\ OtherPage = 1
<1>1. PICK g : g = flash[0]
  OBVIOUS
<1>2. 0 \in Cell /\ Bottom \in Cell /\ Bottom # 0 /\ Bottom \in Nat /\ 4 < Bottom /\ FirstMeta = 1 /\ Cell = 0 .. Bottom
  BY Sectors, Sizes DEF FirstMeta, Cell
<1>3. /\ g[0] = Counter(mNvPageCounter) /\ g[Bottom] = Counter(mNvPageCounter)
      /\ \A a \in 1 .. Bottom - 1 : g[a] = BLANK
  <2>1. PICK c, x : c = Counter(mNvPageCounter) /\ x = BlankPage
    OBVIOUS
  <2>2. g = [x EXCEPT ![0] = c, ![Bottom] = c]
    BY <1>1, <2>1 DEF FormattedPage
  <2>3. DOMAIN x = Cell /\ \A a \in Cell : x[a] = BLANK
    BY <2>1 DEF BlankPage
  <2>4. \A a \in Cell : g[a] = IF a = 0 \/ a = Bottom THEN c ELSE BLANK
    BY <1>2, <2>2, <2>3
  <2> QED
    BY <1>2, <2>1, <2>4
<1>4. flash[1][0] = BLANK
  BY <1>2, FormatFlash
<1>5. Valid(flash, 0) /\ ~Valid(flash, 1)
  BY <1>1, <1>3, <1>4, CellFacts DEF Valid
<1>6. \A a \in FirstMeta .. Bottom - 1 : ~Is(g[a], "meta")
  BY <1>2, <1>3, CellFacts
<1>7. PageOk(g, 0)
  BY <1>2, <1>6 DEF PageOk
<1>8. LastMeta(flash, 0) = 0
  <2>1. flash[0][FirstMeta] = BLANK
    BY <1>1, <1>2, <1>3
  <2> QED
    BY <2>1, BlankLastMeta
<1> QED
  BY <1>1, <1>3, <1>5, <1>7, <1>8 DEF OtherPage

LEMMA UpdateStep ==
    ASSUME FlashInv, NvUpdateLastMetaInfoAddress
    PROVE  FlashInv'
<1>1. Types /\ AtUpdate /\ todo # << >> /\ BootOk
  BY PhaseOf DEF FlashInv, NvUpdateLastMetaInfoAddress, Running, QuietNames
<1>2. /\ ~mNvErasePgCmdStatus.pending /\ mNvActivePageId = 0 /\ FormatCaller(Rest)
      /\ flash[1] = BlankPage /\ flash[0] = FormattedPage
  BY <1>1 DEF AtUpdate
<1>3. /\ Valid(flash, 0) /\ ~Valid(flash, 1) /\ flash[0][0] = Counter(mNvPageCounter)
      /\ PageOk(flash[0], 0) /\ LastMeta(flash, 0) = 0 /\ OtherPage = 1
  BY <1>1, <1>2, FormattedPageOk DEF Types
<1>4. /\ UNCHANGED <<flash, stored, mNvActivePageId, mNvPageCounter, mNvCopyOperationIsPending, mNvErasePgCmdStatus,
                     mNvPendingSavesQueue, mNvModuleInitialized, mNvCriticalSectionFlag, ram, boot, requested>>
      /\ NvLastMetaInfoAddress' = [NvLastMetaInfoAddress EXCEPT ![0] = 0] /\ todo' = Rest
  BY <1>2, <1>3 DEF NvUpdateLastMetaInfoAddress
<1>5. NvLastMetaInfoAddress' \in [Page -> 0 .. Bottom - 1] /\ LastActive' = 0 /\ OtherPage' = 1
  BY <1>1, <1>2, <1>3, <1>4, Sizes DEF Types, Page, LastActive, OtherPage
<1>6. ASSUME mNvModuleInitialized /\ Rest = <<Call("formatted")>> PROVE Phase'
  <2>1. RamOk(LastActive)'
    BY <1>2, <1>3, <1>4, <1>5, <1>6 DEF RamOk, Page
  <2>2. EraseOk'
    BY <1>2, <1>4 DEF EraseOk
  <2>3. AtFormatted'
    BY <1>4, <1>6, <2>1, <2>2 DEF AtFormatted
  <2> QED
    BY <2>3 DEF Phase
<1>7. ASSUME ~mNvModuleInitialized /\ Rest = <<Call("init")>> PROVE Phase'
  <2>1. AtInit'
    BY <1>2, <1>3, <1>4, <1>5, <1>7 DEF AtInit, Page
  <2> QED
    BY <2>1 DEF Phase
<1>8. ASSUME ~mNvModuleInitialized /\ Rest = <<Call("return")>> PROVE Phase'
  <2>1. AtReturn'
    BY <1>4, <1>8 DEF AtReturn
  <2> QED
    BY <2>1 DEF Phase
<1>9. Phase'
  BY <1>2, <1>6, <1>7, <1>8 DEF FormatCaller
<1>10. Types' /\ BootOk'
  BY <1>1, <1>4, <1>5 DEF Types, BootOk
<1> QED
  BY <1>4, <1>9, <1>10, RestStep

LEMMA ToFormat ==
    ASSUME NEW n \in Nat, NEW x, todo' = <<InternalFormat(n), x>>, FormatCaller(<<x>>)', ~mNvErasePgCmdStatus'.pending
    PROVE  AtFormat'
<1>1. PICK a, q : a = InternalFormat(n) /\ q = <<x>>
  OBVIOUS
<1>2. a.op = "NvInternalFormat" /\ a.counter = n
  BY <1>1 DEF InternalFormat
<1>3. todo' # << >> /\ Head(todo') = a /\ Tail(todo') = q
  <2>1. Stack(q) /\ <<a>> \o q = <<a, x>>
    BY <1>1, StackOne, StackPair
  <2>2. <<a>> \o q # << >> /\ Head(<<a>> \o q) = a /\ Tail(<<a>> \o q) = q
    BY <2>1, StackPush
  <2> QED
    BY <1>1, <2>1, <2>2, Zenon
<1>4. FormatCaller(Rest)'
  BY <1>1, <1>3, Zenon DEF FormatCaller, Rest
<1> QED
  BY <1>2, <1>3, <1>4 DEF AtFormat, Top

LEMMA ModuleInitStep ==
    ASSUME FlashInv, NvModuleInit
    PROVE  FlashInv'
<1>1. Types /\ BootOk /\ boot = "off" /\ todo = << >> /\ ~mNvModuleInitialized /\ ~mNvErasePgCmdStatus.pending
  BY DEF FlashInv, BootOk, NvModuleInit
<1>2. /\ UNCHANGED <<flash, stored, NvLastMetaInfoAddress, mNvCopyOperationIsPending, mNvErasePgCmdStatus,
                     mNvPendingSavesQueue, mNvModuleInitialized, mNvCriticalSectionFlag, ram, requested>>
      /\ boot' = "NvModuleInit"
  BY DEF NvModuleInit
<1>3. CASE ActivePage(flash) = gVirtualPageNone_c
  <2>1. mNvActivePageId' = 0 /\ todo' = <<InternalFormat(0), Call("init")>> /\ UNCHANGED mNvPageCounter
    BY <1>3 DEF NvModuleInit
  <2>2. PICK x : x = Call("init")
    OBVIOUS
  <2>3. FormatCaller(<<x>>)'
    BY <1>1, <1>2, <2>2 DEF FormatCaller
  <2>4. todo' = <<InternalFormat(0), x>> /\ 0 \in Nat
    BY <2>1, <2>2
  <2>6. AtFormat'
    BY <1>1, <1>2, <2>3, <2>4, ToFormat
  <2>7. Types' /\ BootOk'
    BY <1>1, <1>2, <2>1 DEF Types, BootOk, Page
  <2> QED
    BY <1>2, <2>6, <2>7, RestStep DEF Phase
<1>4. CASE ActivePage(flash) # gVirtualPageNone_c
  <2>1. PICK p : p = ActivePage(flash)
    OBVIOUS
  <2>2. /\ p \in Page /\ Valid(flash, p)
        /\ \A q \in Page \ {p} : Valid(flash, q) => flash[q][0].n <= flash[p][0].n
    <3>1. \A q \in Page : Valid(flash, q) => flash[q][0].n \in Nat
      BY <1>1, PageTypes, CellFacts, Sectors DEF Types, Valid, PageOfCells
    <3> QED
      BY <1>4, <2>1, <3>1 DEF ActivePage, Page
  <2>3. PICK n : n = flash[p][0].n
    OBVIOUS
  <2>4. n \in Nat /\ flash[p][0] = Counter(n)
    <3>1. flash[p][0] \in CellValue /\ Is(flash[p][0], "counter")
      BY <1>1, <2>2, PageTypes, Sectors DEF Types, Valid, PageOfCells
    <3> QED
      BY <2>3, <3>1, CellFacts
  <2>5. mNvActivePageId' = p /\ mNvPageCounter' = n /\ todo' = <<Call("init")>>
    BY <1>4, <2>1, <2>3 DEF NvModuleInit
  <2>6. OtherPage' \in Page \ {p}
    BY <2>2, <2>5 DEF OtherPage, Page
  <2>7. Valid(flash, OtherPage') => flash[OtherPage'][0].n < n
    <3>1. PICK q \in Page \ {p} : q = OtherPage'
      BY <2>6
    <3>2. Valid(flash, q) => flash[q][0].n <= n /\ flash[q][0].n # n
      BY <2>2, <2>3, <3>1 DEF FlashInv, FlashOk
    <3>3. Valid(flash, q) => flash[q][0].n \in Nat
      BY <1>1, PageTypes, CellFacts, Sectors DEF Types, Valid, PageOfCells
    <3> QED
      BY <2>4, <3>1, <3>2, <3>3
  <2>8. AtInit'
    BY <1>1, <1>2, <2>2, <2>4, <2>5, <2>7 DEF AtInit, Valid
  <2>9. Types' /\ BootOk'
    BY <1>1, <1>2, <2>2, <2>4, <2>5 DEF Types, BootOk
  <2> QED
    BY <1>2, <2>8, <2>9, RestStep DEF Phase
<1> QED
  BY <1>3, <1>4

LEMMA InitStep ==
    ASSUME FlashInv, NvModuleInit_init
    PROVE  FlashInv'
<1>1. Types /\ BootOk /\ AtInit /\ todo # << >>
  BY PhaseOf DEF FlashInv, NvModuleInit_init, Running, QuietNames
<1>2. PICK p, last : p = mNvActivePageId /\ last = LastMeta(flash, p)
  OBVIOUS
<1>3. /\ ~mNvModuleInitialized /\ p \in Page /\ Valid(flash, p) /\ flash[p][0] = Counter(mNvPageCounter)
      /\ Valid(flash, OtherPage) => flash[OtherPage][0].n < mNvPageCounter
      /\ ~mNvErasePgCmdStatus.pending /\ boot # "off"
  BY <1>1, <1>2 DEF AtInit, BootOk
<1>4. UNCHANGED <<flash, stored, mNvActivePageId, mNvPageCounter, mNvCopyOperationIsPending, mNvErasePgCmdStatus,
                  mNvPendingSavesQueue, mNvCriticalSectionFlag, ram, boot, requested>>
  BY DEF NvModuleInit_init
<1>5. CASE last # NotFound
  <2>1. PICK l \in 0 .. Bottom - 1 : PageOk(flash[p], l)
    BY <1>3 DEF FlashInv, FlashOk
  <2>2. PageOk(flash[p], last) /\ last \in 0 .. Bottom - 1
    BY <1>2, <1>5, <2>1, LastMetaOk
  <2>3. /\ NvLastMetaInfoAddress' = [NvLastMetaInfoAddress EXCEPT ![p] = last] /\ mNvModuleInitialized' = TRUE
        /\ todo' = <<Call("NvCopyPage")>> \o <<Call("return")>> \/ todo' = << >> \o <<Call("return")>>
    BY <1>2, <1>5 DEF NvModuleInit_init
  <2>4. NvLastMetaInfoAddress' \in [Page -> 0 .. Bottom - 1] /\ LastActive' = last /\ OtherPage' = OtherPage
    BY <1>1, <1>2, <1>3, <1>4, <2>2, <2>3 DEF Types, LastActive, OtherPage
  <2>5. RamOk(LastActive)'
    BY <1>2, <1>3, <1>4, <2>2, <2>3, <2>4 DEF RamOk, Valid
  <2>6. EraseOk'
    BY <1>3, <1>4 DEF EraseOk
  <2>7. PICK a, b : a = Call("NvCopyPage") /\ b = <<Call("return")>>
    OBVIOUS
  <2>8. Stack(b) /\ Caller(b) /\ a.op = "NvCopyPage"
    BY <2>7, StackCall DEF Caller, Call
  <2>9. AtCopyPage' \/ AtReturn'
    <3>1. CASE todo' = << >> \o b
      <4>1. todo' = b
        BY <2>8, <3>1, StackAgain
      <4> QED
        BY <2>5, <2>6, <2>7, <4>1 DEF AtReturn
    <3>2. CASE todo' = <<a>> \o b
      <4>1. todo' # << >> /\ Head(todo') = a /\ Tail(todo') = b
        BY <2>8, <3>2, StackPush, Zenon
      <4>2. Caller(b)'
        BY <2>8 DEF Caller
      <4> QED
        BY <2>5, <2>6, <2>8, <4>1, <4>2 DEF AtCopyPage, Top, Rest
    <3>3. todo' = << >> \o b \/ todo' = <<a>> \o b
      BY <2>3, <2>7, Zenon
    <3> QED
      BY <3>1, <3>2, <3>3
  <2>10. Types' /\ BootOk'
    BY <1>1, <1>3, <1>4, <2>3, <2>4 DEF Types, BootOk
  <2> QED
    BY <1>4, <2>9, <2>10, RestStep DEF Phase
<1>6. CASE last = NotFound
  <2>1. todo' = <<InternalFormat(0), Call("return")>> /\ UNCHANGED <<NvLastMetaInfoAddress, mNvModuleInitialized>>
    BY <1>2, <1>6 DEF NvModuleInit_init
  <2>2. PICK x : x = Call("return")
    OBVIOUS
  <2>3. FormatCaller(<<x>>)'
    BY <1>3, <2>1, <2>2 DEF FormatCaller
  <2>4. todo' = <<InternalFormat(0), x>> /\ 0 \in Nat
    BY <2>1, <2>2
  <2>7. AtFormat'
    BY <1>3, <1>4, <2>3, <2>4, ToFormat
  <2>8. Types' /\ BootOk'
    BY <1>1, <1>3, <1>4, <2>1 DEF Types, BootOk
  <2> QED
    BY <1>4, <2>7, <2>8, RestStep DEF Phase
<1> QED
  BY <1>5, <1>6

-----------------------------------------------------------------------------
(* An erase of one sector.                                                 *)
LEMMA FlashStep ==
    ASSUME FlashInv, todo # << >>, FlashTypes(flash'), FlashOk(flash'), stored' = Restored(flash'),
           UNCHANGED <<ramState, mNvCriticalSectionFlag, ram, boot, requested>>, Phase'
    PROVE  FlashInv'
<1>1. Types' /\ BootOk'
  BY DEF FlashInv, Types, BootOk, ramState
<1> QED
  BY <1>1 DEF FlashInv

LEMMA BecomesErased ==
    ASSUME FlashInv, FlashErase, NEW p \in Page, NEW s \in 0 .. SECTORS - 1, NEW t \in 0 .. SECTORS - 1,
           Head(todo) = EraseSectors(p, s, t), s = 0 \/ ~Is(flash[p][0], "counter"), Stack(Rest)
    PROVE  /\ FlashTypes(flash') /\ FlashOk(flash') /\ stored' = Restored(flash')
           /\ \A q \in Page \ {p} : flash'[q] = flash[q]
           /\ \A a \in Cell : flash'[p][a] = IF SectorOf(a) = s THEN BLANK ELSE flash[p][a]
           /\ ~Is(flash'[p][0], "counter")
           /\ IF s < t THEN todo' = <<EraseSectors(p, s + 1, t)>> \o Rest ELSE todo' = Rest
           /\ UNCHANGED <<ramState, mNvCriticalSectionFlag, ram, boot, requested>>
<1>1. PICK o : o = Head(todo)
  OBVIOUS
<1>2. o.page = p /\ o.sector = s /\ o.last = t
  <2>1. EraseSectors(p, s, t).page = p /\ EraseSectors(p, s, t).sector = s /\ EraseSectors(p, s, t).last = t
    BY DEF EraseSectors
  <2> QED
    BY <1>1, <2>1, Zenon
<1>3. /\ flash' = Erased(flash, o) /\ stored' = Restored(flash')
      /\ todo' = (IF s < t THEN <<EraseSectors(p, s + 1, t)>> ELSE << >>) \o Rest
      /\ UNCHANGED <<ramState, mNvCriticalSectionFlag, ram, boot, requested>>
  BY <1>1, <1>2 DEF FlashErase, BecomesFlash
<1>4. flash' = [flash EXCEPT ![p] = [a \in Cell |-> IF SectorOf(a) = s THEN BLANK ELSE @[a]]]
  BY <1>2, <1>3 DEF Erased
<1>5. /\ FlashTypes(flash') /\ \A q \in Page \ {p} : flash'[q] = flash[q]
      /\ \A a \in Cell : flash'[p][a] = IF SectorOf(a) = s THEN BLANK ELSE flash[p][a]
  <2>1. PICK f, c : f = flash' /\ c = BLANK
    OBVIOUS
  <2>0. /\ FlashTypes(flash) /\ c \in {BLANK, TORN}
        /\ f = [flash EXCEPT ![p] = [a \in Cell |-> IF SectorOf(a) = s THEN c ELSE @[a]]]
    BY <1>4, <2>1 DEF FlashInv, Types
  <2>2. /\ FlashTypes(f) /\ \A q \in Page \ {p} : f[q] = flash[q]
        /\ \A a \in Cell : f[p][a] = IF SectorOf(a) = s THEN BLANK ELSE flash[p][a]
    BY <2>0, <2>1, ErasedFacts
  <2> QED
    BY <2>1, <2>2
<1>6. FlashOk(flash')
  <2>1. PICK f : f = flash'
    OBVIOUS
  <2>2. FlashOk(f)
    BY <1>5, <2>1, ErasedInvalid DEF FlashInv, Types
  <2> QED
    BY <2>1, <2>2
<1>7. ~Is(flash'[p][0], "counter")
  BY <1>5, Sectors, CellFacts
<1>8. << >> \o Rest = Rest
  BY StackAgain
<1> QED
  BY <1>3, <1>5, <1>6, <1>7, <1>8

(* One of the sectors from the first to the last of a page.                *)
LEMMA ErasesPage ==
    ASSUME FlashInv, FlashErase, NEW p \in Page, ErasingFromStart(Head(todo), p), Stack(Rest)
    PROVE  /\ FlashTypes(flash') /\ FlashOk(flash') /\ stored' = Restored(flash')
           /\ \A q \in Page \ {p} : flash'[q] = flash[q]
           /\ ~Is(flash'[p][0], "counter")
           /\ \/ flash'[p] = BlankPage /\ todo' = Rest
              \/ /\ todo' # << >> /\ Tail(todo') = Rest /\ Head(todo').op = "erase"
                 /\ ErasingFromStart(Head(todo), p)'
           /\ UNCHANGED <<ramState, mNvCriticalSectionFlag, ram, boot, requested>>
<1>1. PICK o : o = Head(todo)
  OBVIOUS
<1>2. PICK s \in 0 .. SECTORS - 1 :
              /\ o = EraseSectors(p, s, SECTORS - 1)
              /\ \A a \in Cell : SectorOf(a) < s => flash[p][a] = BLANK
              /\ s = 0 \/ ~Is(flash[p][0], "counter")
  <2>1. ErasingFromStart(o, p)
    BY <1>1
  <2> QED
    BY <2>1, FromStart
<1>3. PICK t : t = SECTORS - 1
  OBVIOUS
<1>4. t \in 0 .. SECTORS - 1 /\ SECTORS \in Nat /\ \A a \in Cell : SectorOf(a) \in 0 .. SECTORS - 1
  BY <1>3, Sectors
<1>5. /\ FlashTypes(flash') /\ FlashOk(flash') /\ stored' = Restored(flash')
      /\ \A q \in Page \ {p} : flash'[q] = flash[q]
      /\ \A a \in Cell : flash'[p][a] = IF SectorOf(a) = s THEN BLANK ELSE flash[p][a]
      /\ ~Is(flash'[p][0], "counter")
      /\ IF s < t THEN todo' = <<EraseSectors(p, s + 1, t)>> \o Rest ELSE todo' = Rest
      /\ UNCHANGED <<ramState, mNvCriticalSectionFlag, ram, boot, requested>>
  <2>1. Head(todo) = EraseSectors(p, s, t)
    BY <1>1, <1>2, <1>3
  <2> QED
    BY <1>2, <1>4, <2>1, BecomesErased
<1>6. \A a \in Cell : SectorOf(a) < s + 1 => flash'[p][a] = BLANK
  <2>1. ASSUME NEW a \in Cell, SectorOf(a) < s + 1 PROVE flash'[p][a] = BLANK
    <3>1. SectorOf(a) = s \/ SectorOf(a) < s
      BY <1>4, <2>1
    <3> QED
      BY <1>2, <1>5, <3>1
  <2> QED
    BY <2>1
<1>7. CASE s < t
  <2>1. PICK c : c = EraseSectors(p, s + 1, t)
    OBVIOUS
  <2>2. todo' # << >> /\ Head(todo') = c /\ Tail(todo') = Rest
    <3>1. todo' = <<c>> \o Rest
      BY <1>5, <1>7, <2>1
    <3> QED
      BY <3>1, StackPush, Zenon
  <2>3. s + 1 \in 0 .. SECTORS - 1
    BY <1>3, <1>4, <1>7
  <2>4. c.op = "erase" /\ ErasingFromStart(c, p)'
    <3>1. c = EraseSectors(p, s + 1, SECTORS - 1) /\ c.op = "erase"
      BY <1>3, <2>1 DEF EraseSectors
    <3> QED
      BY <1>6, <2>3, <3>1 DEF ErasingFromStart
  <2> QED
    BY <1>5, <2>2, <2>4
<1>8. CASE ~(s < t)
  <2>1. \A a \in Cell : SectorOf(a) < s + 1
    BY <1>3, <1>4, <1>8
  <2>2. \A a \in Cell : flash'[p][a] = BLANK
    BY <1>6, <2>1
  <2>3. flash'[p] \in PageOfCells
    <3>1. PICK f : f = flash'
      OBVIOUS
    <3>2. f[p] \in PageOfCells
      BY <1>5, <3>1, PageTypes
    <3> QED
      BY <3>1, <3>2
  <2>4. flash'[p] = BlankPage
    BY <2>2, <2>3 DEF BlankPage, PageOfCells
  <2> QED
    BY <1>5, <1>8, <2>4
<1> QED
  BY <1>7, <1>8

(* The active page is spared.                                              *)
LEMMA OtherErased ==
    ASSUME RamOk(LastActive), UNCHANGED <<ramState>>, NEW f, f = flash', \A q \in Page \ {OtherPage} : f[q] = flash[q],
           ~Is(f[OtherPage][0], "counter")
    PROVE  /\ RamOk(LastActive)' /\ OtherPage' = OtherPage /\ LastActive' = LastActive
           /\ (EraseOk => EraseOk') /\ (Fresh => Fresh') /\ (ToErase => ToErase')
<1>1. mNvActivePageId \in Page /\ mNvActivePageId \in Page \ {OtherPage}
  BY Other DEF RamOk
<1>2. flash'[mNvActivePageId] = flash[mNvActivePageId]
  BY <1>1
<1>3. /\ UNCHANGED <<mNvActivePageId, mNvPageCounter, mNvModuleInitialized, NvLastMetaInfoAddress, mNvErasePgCmdStatus>>
      /\ OtherPage' = OtherPage /\ LastActive' = LastActive
  BY DEF ramState, OtherPage, LastActive
<1>4. ~Valid(flash', OtherPage) /\ (Valid(flash, mNvActivePageId) => Valid(flash', mNvActivePageId))
  BY <1>2 DEF Valid
<1>5. RamOk(LastActive)'
  BY <1>2, <1>3, <1>4 DEF RamOk
<1>6. (EraseOk => EraseOk') /\ (ToErase => ToErase')
  BY <1>3 DEF EraseOk, ToErase
<1>7. Fresh => Fresh'
  BY <1>2, <1>3 DEF Fresh
<1> QED
  BY <1>3, <1>5, <1>6, <1>7

(* The same of the next state.                                             *)
LEMMA StartCopyImplied ==
    Types /\ RamOk(LastActive) /\ flash[OtherPage] = BlankPage => CopyOk(LastActive, FirstMeta, Bottom, Bottom)
BY StartCopy

LEMMA StartCopyNext ==
    (Types /\ RamOk(LastActive) /\ flash[OtherPage] = BlankPage)' => CopyOk(LastActive, FirstMeta, Bottom, Bottom)'
BY StartCopyImplied, PTL

LEMMA CopyEraseStep ==
    ASSUME FlashInv, FlashErase, AtCopyErase
    PROVE  FlashInv'
<1>1. /\ Types /\ RamOk(LastActive) /\ EraseOk /\ mNvActivePageId \in Page /\ OtherPage \in Page
      /\ todo # << >> /\ Head(todo).op = "erase"
      /\ ErasingFromStart(Head(todo), OtherPage) /\ Rest # << >> /\ Head(Rest).op = "copy records"
      /\ Head(Rest) = CopyRecords(LastActive, FirstMeta, Bottom)
      /\ Caller(Tail(Rest))
  BY Other DEF FlashInv, AtCopyErase, Top, RamOk
<1>2. Stack(Rest)
  BY DEF AtCopyErase
<1>3. PICK p, l : p = OtherPage /\ l = LastActive
  OBVIOUS
<1>4. /\ FlashTypes(flash') /\ FlashOk(flash') /\ stored' = Restored(flash')
      /\ \A q \in Page \ {p} : flash'[q] = flash[q]
      /\ ~Is(flash'[p][0], "counter")
      /\ \/ flash'[p] = BlankPage /\ todo' = Rest
         \/ /\ todo' # << >> /\ Tail(todo') = Rest /\ Head(todo').op = "erase"
            /\ ErasingFromStart(Head(todo), p)'
      /\ UNCHANGED <<ramState, mNvCriticalSectionFlag, ram, boot, requested>>
  BY <1>1, <1>2, <1>3, ErasesPage
<1>5. RamOk(LastActive)' /\ OtherPage' = p /\ LastActive' = l /\ EraseOk'
  BY <1>1, <1>3, <1>4, OtherErased
<1>6. ASSUME flash'[p] = BlankPage, todo' = Rest
      PROVE  AtCopy'
  <2>1. Types'
    BY <1>1, <1>4 DEF Types, ramState
  <2>2. CopyOk(LastActive, FirstMeta, Bottom, Bottom)'
    BY <1>5, <1>6, <2>1, StartCopyNext
  <2>3. LastActive' \in Cell /\ FirstMeta \in Cell /\ Bottom \in Cell
    BY <1>5, Sizes DEF RamOk, PageOk, Cell, FirstMeta
  <2>4. Head(todo') = CopyRecords(LastActive', FirstMeta, Bottom)
    BY <1>1, <1>3, <1>5, <1>6
  <2> QED
    BY <1>1, <1>5, <1>6, <2>2, <2>3, <2>4 DEF AtCopy, Top, Rest
<1>7. ASSUME todo' # << >>, Tail(todo') = Rest, Head(todo').op = "erase", ErasingFromStart(Head(todo), p)'
      PROVE  AtCopyErase'
  <2>1. Head(Rest) = CopyRecords(LastActive', FirstMeta, Bottom)
    BY <1>1, <1>3, <1>5
  <2>2. ErasingFromStart(Head(todo), OtherPage)'
    BY <1>5, <1>7
  <2> QED
    BY <1>1, <1>2, <1>5, <1>7, <2>1, <2>2 DEF AtCopyErase, Top, Rest
<1> QED
  BY <1>1, <1>4, <1>6, <1>7, FlashStep DEF Phase

LEMMA SyncEraseStep ==
    ASSUME FlashInv, FlashErase, AtSyncErase
    PROVE  FlashInv'
<1>1. /\ Types /\ RamOk(LastActive) /\ Fresh /\ ToErase /\ ~mNvCopyOperationIsPending
      /\ mNvActivePageId \in Page /\ OtherPage \in Page
      /\ todo # << >> /\ Head(todo).op = "erase"
      /\ ErasingFromStart(Head(todo), OtherPage) /\ Rest # << >> /\ Head(Rest).op = "erased"
      /\ Top(Tail(Rest), "NvWriteRecord") /\ Head(Tail(Rest)).by = "again" /\ Head(Tail(Rest)).entry \in Entry
      /\ Quiet(Tail(Tail(Rest)))
  BY Other DEF FlashInv, AtSyncErase, Top, RamOk
<1>2. Stack(Rest)
  BY DEF AtSyncErase
<1>3. PICK p : p = OtherPage
  OBVIOUS
<1>4. /\ FlashTypes(flash') /\ FlashOk(flash') /\ stored' = Restored(flash')
      /\ \A q \in Page \ {p} : flash'[q] = flash[q]
      /\ ~Is(flash'[p][0], "counter")
      /\ \/ flash'[p] = BlankPage /\ todo' = Rest
         \/ /\ todo' # << >> /\ Tail(todo') = Rest /\ Head(todo').op = "erase"
            /\ ErasingFromStart(Head(todo), p)'
      /\ UNCHANGED <<ramState, mNvCriticalSectionFlag, ram, boot, requested>>
  BY <1>1, <1>2, <1>3, ErasesPage
<1>5. RamOk(LastActive)' /\ OtherPage' = p /\ Fresh' /\ ToErase' /\ ~mNvCopyOperationIsPending'
  BY <1>1, <1>3, <1>4, OtherErased DEF ramState
<1>6. ASSUME todo' = Rest
      PROVE  AtErased'
  BY <1>1, <1>5, <1>6 DEF AtErased, Top, Rest
<1>7. ASSUME todo' # << >>, Tail(todo') = Rest, Head(todo').op = "erase", ErasingFromStart(Head(todo), p)'
      PROVE  AtSyncErase'
  <2>1. ErasingFromStart(Head(todo), OtherPage)'
    BY <1>5, <1>7
  <2> QED
    BY <1>1, <1>2, <1>5, <1>7, <2>1 DEF AtSyncErase, Top, Rest
<1> QED
  BY <1>1, <1>4, <1>6, <1>7, FlashStep DEF Phase

LEMMA IdleErasesStep ==
    ASSUME FlashInv, FlashErase, AtIdleErase
    PROVE  FlashInv'
<1>1. /\ Types /\ RamOk(LastActive) /\ mNvModuleInitialized /\ mNvActivePageId \in Page /\ OtherPage \in Page
      /\ mNvErasePgCmdStatus.pending /\ mNvErasePgCmdStatus.page = OtherPage
      /\ todo # << >> /\ Quiet(Rest) /\ Stack(Rest)
  BY Other DEF FlashInv, AtIdleErase, Top, RamOk, Quiet
<1>2. PICK s \in 0 .. SECTORS - 1 :
          /\ mNvErasePgCmdStatus.sector = s + 1
          /\ s > 0 => ~Is(flash[OtherPage][0], "counter")
          /\ Head(todo) = EraseSectors(OtherPage, s, s)
  BY DEF AtIdleErase
<1>3. PICK p : p = OtherPage
  OBVIOUS
<1>4. SECTORS \in Nat /\ (s = 0 \/ ~Is(flash[p][0], "counter")) /\ ~(s < s)
  BY <1>2, <1>3, Sectors
<1>5. /\ FlashTypes(flash') /\ FlashOk(flash') /\ stored' = Restored(flash')
      /\ \A q \in Page \ {p} : flash'[q] = flash[q]
      /\ ~Is(flash'[p][0], "counter")
      /\ todo' = Rest
      /\ UNCHANGED <<ramState, mNvCriticalSectionFlag, ram, boot, requested>>
  <2>1. Head(todo) = EraseSectors(p, s, s) /\ p \in Page /\ Stack(Rest)
    BY <1>1, <1>2, <1>3
  <2> QED
    BY <1>4, <2>1, BecomesErased
<1>6. RamOk(LastActive)' /\ OtherPage' = p
  BY <1>1, <1>3, <1>5, OtherErased
<1>7. EraseOk'
  BY <1>1, <1>3, <1>5, <1>6 DEF EraseOk, ramState
<1>8. AtQuiet'
  BY <1>1, <1>5, <1>6, <1>7 DEF AtQuiet, ramState
<1> QED
  BY <1>1, <1>5, <1>8, FlashStep DEF Phase

LEMMA FormatEraseStep ==
    ASSUME FlashInv, FlashErase, AtFormatErase
    PROVE  FlashInv'
<1>1. /\ ~mNvErasePgCmdStatus.pending /\ mNvActivePageId = 0
      /\ todo # << >> /\ 0 \in Page /\ 1 \in Page /\ Page \ {0} = {1} /\ Page \ {1} = {0}
  BY DEF AtFormatErase, Top, Page
<1>2. PICK f \in {<<Call("formatted")>>, <<Call("init")>>, <<Call("return")>>} :
          /\ FormatCaller(f)
          /\ \/ ErasingFromStart(Head(todo), 0) /\ Rest = <<Erase(1)>> \o Formatted(f)
             \/ flash[0] = BlankPage /\ ErasingFromStart(Head(todo), 1) /\ Rest = Formatted(f)
  BY DEF AtFormatErase
<1>3. Stack(Rest) /\ Stack(Formatted(f))
  <2>1. Stack(Formatted(f))
    BY <1>2, FormattedStack, Zenon
  <2> QED
    BY <1>1, <2>1, <1>2, StackPush, Zenon
<1>4. /\ UNCHANGED <<ramState>> => UNCHANGED <<mNvErasePgCmdStatus, mNvActivePageId, mNvPageCounter, mNvModuleInitialized>>
      /\ UNCHANGED <<ramState>> => Formatted(f)' = Formatted(f) /\ FormatCaller(f)'
  BY <1>2, FormatCallers DEF ramState, Formatted
<1>5. CASE ErasingFromStart(Head(todo), 0) /\ Rest = <<Erase(1)>> \o Formatted(f)
  <2>1. /\ FlashTypes(flash') /\ FlashOk(flash') /\ stored' = Restored(flash')
        /\ \/ flash'[0] = BlankPage /\ todo' = Rest
           \/ /\ todo' # << >> /\ Tail(todo') = Rest /\ Head(todo').op = "erase"
              /\ ErasingFromStart(Head(todo), 0)'
        /\ UNCHANGED <<ramState, mNvCriticalSectionFlag, ram, boot, requested>>
    BY <1>1, <1>3, <1>5, ErasesPage
  <2>2. ASSUME flash'[0] = BlankPage, todo' = Rest
        PROVE  AtFormatErase'
    <3>1. PICK a, q : a = Erase(1) /\ q = Formatted(f)
      OBVIOUS
    <3>2. todo' # << >> /\ Head(todo') = a /\ Tail(todo') = q
      BY <1>3, <1>5, <2>2, <3>1, StackPush, Zenon
    <3>3. a.op = "erase" /\ ErasingFromStart(a, 1)'
      BY <3>1, EraseBegins
    <3>4. Tail(todo') = Formatted(f)' /\ FormatCaller(f)' /\ ~mNvErasePgCmdStatus'.pending /\ mNvActivePageId' = 0
      BY <1>1, <1>4, <2>1, <3>1, <3>2
    <3> QED
      BY <1>2, <2>2, <3>2, <3>3, <3>4 DEF AtFormatErase, Top, Rest
  <2>3. ASSUME todo' # << >>, Tail(todo') = Rest, Head(todo').op = "erase", ErasingFromStart(Head(todo), 0)'
        PROVE  AtFormatErase'
    <3>1. /\ Tail(todo') = <<Erase(1)>> \o Formatted(f)' /\ FormatCaller(f)'
          /\ ~mNvErasePgCmdStatus'.pending /\ mNvActivePageId' = 0
      BY <1>1, <1>4, <1>5, <2>1, <2>3
    <3> QED
      BY <1>2, <2>3, <3>1 DEF AtFormatErase, Top, Rest
  <2> QED
    BY <1>1, <2>1, <2>2, <2>3, FlashStep DEF Phase
<1>6. CASE flash[0] = BlankPage /\ ErasingFromStart(Head(todo), 1) /\ Rest = Formatted(f)
  <2>1. /\ FlashTypes(flash') /\ FlashOk(flash') /\ stored' = Restored(flash')
        /\ \A q \in Page \ {1} : flash'[q] = flash[q]
        /\ \/ flash'[1] = BlankPage /\ todo' = Rest
           \/ /\ todo' # << >> /\ Tail(todo') = Rest /\ Head(todo').op = "erase"
              /\ ErasingFromStart(Head(todo), 1)'
        /\ UNCHANGED <<ramState, mNvCriticalSectionFlag, ram, boot, requested>>
    BY <1>1, <1>3, <1>6, ErasesPage
  <2>2. flash'[0] = BlankPage
    BY <1>1, <1>6, <2>1
  <2>3. /\ FormatCaller(f)' /\ ~mNvErasePgCmdStatus'.pending /\ mNvActivePageId' = 0 /\ Rest = Formatted(f)'
    BY <1>1, <1>4, <1>6, <2>1
  <2>4. ASSUME flash'[1] = BlankPage, todo' = Rest
        PROVE  AtFormatCounter'
    BY <1>2, <2>2, <2>3, <2>4 DEF AtFormatCounter
  <2>5. ASSUME todo' # << >>, Tail(todo') = Rest, Head(todo').op = "erase", ErasingFromStart(Head(todo), 1)'
        PROVE  AtFormatErase'
    BY <1>2, <2>2, <2>3, <2>5 DEF AtFormatErase, Top, Rest
  <2> QED
    BY <1>1, <2>1, <2>4, <2>5, FlashStep DEF Phase
<1> QED
  BY <1>2, <1>5, <1>6

LEMMA FlashEraseStep ==
    ASSUME FlashInv, FlashErase
    PROVE  FlashInv'
<1>1. AtCopyErase \/ AtSyncErase \/ AtIdleErase \/ AtFormatErase
  BY PhaseOf DEF FlashInv, FlashErase, Running, QuietNames
<1> QED
  BY <1>1, CopyEraseStep, SyncEraseStep, IdleErasesStep, FormatEraseStep

-----------------------------------------------------------------------------
(* A program command.                                                      *)
Programs(p, a, n, cells) ==
    /\ p \in Page /\ a \in Cell /\ n \in Nat \ {0} /\ a + n <= PAGE /\ Len(cells) = n
    /\ \A k \in 1 .. n : cells[k] \in CellValue /\ MetaOk(cells[k], a + k - 1)
    /\ Head(todo) = Program(p, a, cells)
BecomesProgrammed(p, a, n, cells) ==
    /\ FlashTypes(flash') /\ stored' = Restored(flash') /\ todo' = Rest /\ todo # << >>
    /\ \A q \in Page \ {p} : flash'[q] = flash[q]
    /\ \A x \in Cell : flash'[p][x] = IF x \in a .. a + n - 1 THEN cells[x - a + 1] ELSE flash[p][x]
    /\ UNCHANGED <<ramState, mNvCriticalSectionFlag, ram, boot, requested>>
LEMMA BecomesWritten ==
    ASSUME FlashInv, FlashProgram, NEW p, NEW a, NEW n, NEW cells, Programs(p, a, n, cells)
    PROVE  BecomesProgrammed(p, a, n, cells)
<1>0. /\ p \in Page /\ a \in Cell /\ n \in Nat \ {0} /\ a + n <= PAGE /\ Len(cells) = n
      /\ \A k \in 1 .. n : cells[k] \in CellValue /\ MetaOk(cells[k], a + k - 1)
      /\ Head(todo) = Program(p, a, cells)
  BY DEF Programs
<1>1. PICK o : o = Head(todo)
  OBVIOUS
<1>2. o = Program(p, a, cells) /\ o.cells = cells /\ Len(o.cells) = n
  <2>1. Program(p, a, cells).cells = cells
    BY DEF Program
  <2> QED
    BY <1>0, <1>1, <2>1, Zenon
<1>3. /\ flash' = Written(flash, o, Len(o.cells)) /\ stored' = Restored(flash') /\ todo' = Rest /\ todo # << >>
      /\ UNCHANGED <<ramState, mNvCriticalSectionFlag, ram, boot, requested>>
  BY <1>1 DEF FlashProgram, BecomesFlash, Running
<1>4. PICK k : k = n
  OBVIOUS
<1>5. flash' = Written(flash, Program(p, a, cells), k)
  BY <1>2, <1>3, <1>4, Zenon
<1>6. k \in 0 .. n /\ FlashTypes(flash)
  BY <1>0, <1>4 DEF FlashInv, Types
<1>7. LET g == Written(flash, Program(p, a, cells), k) IN
      /\ FlashTypes(g) /\ \A q \in Page \ {p} : g[q] = flash[q]
      /\ \A x \in Cell : g[p][x] = IF x \in a .. a + k - 1 THEN cells[x - a + 1] ELSE flash[p][x]
  BY <1>0, <1>6, WrittenFacts
<1> QED
  BY <1>3, <1>4, <1>5, <1>7 DEF BecomesProgrammed

(* Of one cell.                                                            *)
LEMMA BecomesCell ==
    ASSUME FlashInv, FlashProgram, NEW p \in Page, NEW a \in Cell, NEW c \in CellValue, MetaOk(c, a),
           Head(todo) = Program(p, a, <<c>>)
    PROVE  /\ FlashTypes(flash') /\ stored' = Restored(flash') /\ todo' = Rest /\ todo # << >>
           /\ \A q \in Page \ {p} : flash'[q] = flash[q]
           /\ flash'[p] = [flash[p] EXCEPT ![a] = c]
           /\ flash'[p] \in PageOfCells /\ flash[p] \in PageOfCells /\ MetasOk(flash[p])
           /\ UNCHANGED <<ramState, mNvCriticalSectionFlag, ram, boot, requested>>
<1>1. PICK n, cells : n = 1 /\ cells = <<c>>
  OBVIOUS
<1>2. /\ n \in Nat \ {0} /\ a + n <= PAGE /\ Len(cells) = n /\ cells[1] = c
      /\ \A k \in 1 .. n : cells[k] \in CellValue /\ MetaOk(cells[k], a + k - 1)
      /\ a \in Int
  BY <1>1, Sizes DEF Cell
<1>3. Head(todo) = Program(p, a, cells)
  BY <1>1
<1>4. /\ FlashTypes(flash') /\ stored' = Restored(flash') /\ todo' = Rest /\ todo # << >>
      /\ \A q \in Page \ {p} : flash'[q] = flash[q]
      /\ \A x \in Cell : flash'[p][x] = IF x \in a .. a + n - 1 THEN cells[x - a + 1] ELSE flash[p][x]
      /\ UNCHANGED <<ramState, mNvCriticalSectionFlag, ram, boot, requested>>
  <2>1. Programs(p, a, n, cells)
    BY <1>2, <1>3, Zenon DEF Programs
  <2>2. BecomesProgrammed(p, a, n, cells)
    BY <2>1, BecomesWritten, Zenon
  <2> QED
    BY <2>2, Zenon DEF BecomesProgrammed
<1>5. flash'[p] \in PageOfCells /\ flash[p] \in PageOfCells /\ MetasOk(flash[p])
  <2>1. PICK f : f = flash'
    OBVIOUS
  <2>2. f[p] \in PageOfCells
    BY <1>4, <2>1, PageTypes
  <2>3. flash[p] \in PageOfCells /\ MetasOk(flash[p])
    BY PageTypes DEF FlashInv, Types
  <2> QED
    BY <2>1, <2>2, <2>3
<1>6. \A x \in Cell : flash'[p][x] = IF x = a THEN c ELSE flash[p][x]
  <2>1. ASSUME NEW x \in Cell PROVE (x \in a .. a + n - 1 <=> x = a) /\ (x = a => x - a + 1 = 1)
    BY <1>1, <1>2, <2>1, Sizes DEF Cell
  <2> QED
    BY <1>2, <1>4, <2>1
<1>7. flash'[p] = [flash[p] EXCEPT ![a] = c]
  BY <1>5, <1>6 DEF PageOfCells
<1> QED
  BY <1>4, <1>5, <1>7

(* Of a record.                                                            *)
LEMMA BecomesRecord ==
    ASSUME FlashInv, FlashProgram, NEW p \in Page, NEW r \in Cell, NEW e \in Entry, NEW v \in Value,
           r + Size(e) <= PAGE, Head(todo) = Program(p, r, Data(e, v))
    PROVE  /\ FlashTypes(flash') /\ stored' = Restored(flash') /\ todo' = Rest /\ todo # << >>
           /\ \A q \in Page \ {p} : flash'[q] = flash[q]
           /\ \A x \in Cell : x \notin r .. r + Size(e) - 1 => flash'[p][x] = flash[p][x]
           /\ Holds(flash'[p], e, v, r)
           /\ \A x \in r .. r + Size(e) - 1 : ~Is(flash'[p][x], "meta")
           /\ flash'[p] \in PageOfCells /\ flash[p] \in PageOfCells /\ MetasOk(flash[p])
           /\ UNCHANGED <<ramState, mNvCriticalSectionFlag, ram, boot, requested>>
<1>1. PICK n, cells : n = Size(e) /\ cells = Data(e, v)
  OBVIOUS
<1>2. /\ n \in Nat \ {0} /\ r + n <= PAGE /\ Len(cells) = n
      /\ \A k \in 1 .. n : cells[k] \in CellValue /\ MetaOk(cells[k], r + k - 1) /\ ~Is(cells[k], "meta")
      /\ r \in Nat /\ PAGE \in Nat /\ Cell = 0 .. PAGE - 1
  <2>1. Len(cells) = n /\ \A k \in 1 .. n : cells[k] \in CellValue /\ MetaOk(cells[k], r + k - 1)
    BY <1>1, DataFacts
  <2>2. \A k \in 1 .. n : ~Is(cells[k], "meta")
    BY <1>1, CellFacts
  <2>3. n \in Nat \ {0} /\ r + n <= PAGE
    BY <1>1, Sizes
  <2>4. r \in Nat /\ PAGE \in Nat /\ Cell = 0 .. PAGE - 1
    BY Sizes DEF Cell
  <2> QED
    BY <2>1, <2>2, <2>3, <2>4
<1>3. Head(todo) = Program(p, r, cells)
  BY <1>1
<1>4. /\ FlashTypes(flash') /\ stored' = Restored(flash') /\ todo' = Rest /\ todo # << >>
      /\ \A q \in Page \ {p} : flash'[q] = flash[q]
      /\ \A x \in Cell : flash'[p][x] = IF x \in r .. r + n - 1 THEN cells[x - r + 1] ELSE flash[p][x]
      /\ UNCHANGED <<ramState, mNvCriticalSectionFlag, ram, boot, requested>>
  <2>1. Programs(p, r, n, cells)
    BY <1>2, <1>3, Zenon DEF Programs
  <2>2. BecomesProgrammed(p, r, n, cells)
    BY <2>1, BecomesWritten, Zenon
  <2> QED
    BY <2>2, Zenon DEF BecomesProgrammed
<1>5. flash'[p] \in PageOfCells /\ flash[p] \in PageOfCells /\ MetasOk(flash[p])
  <2>1. PICK f : f = flash'
    OBVIOUS
  <2>2. f[p] \in PageOfCells
    BY <1>4, <2>1, PageTypes
  <2>3. flash[p] \in PageOfCells /\ MetasOk(flash[p])
    BY PageTypes DEF FlashInv, Types
  <2> QED
    BY <2>1, <2>2, <2>3
<1>6. ASSUME NEW k \in 1 .. n PROVE flash'[p][r + k - 1] = cells[k]
  <2>1. PICK x : x = r + k - 1
    OBVIOUS
  <2>2. x \in Cell /\ x \in r .. r + n - 1 /\ x - r + 1 = k
    BY <1>2, <2>1
  <2> QED
    BY <1>4, <2>1, <2>2
<1>7. ASSUME NEW x \in r .. r + n - 1 PROVE ~Is(flash'[p][x], "meta")
  <2>1. x \in Cell /\ x - r + 1 \in 1 .. n
    BY <1>2
  <2> QED
    BY <1>2, <1>4, <2>1
<1> QED
  BY <1>1, <1>4, <1>5, <1>6, <1>7 DEF Holds

(* The RAM still knows the flash.                                          *)
LEMMA RamNext ==
    ASSUME RamOk(LastActive), UNCHANGED ramState, NEW f, f = flash', NEW last,
           PageOk(f[mNvActivePageId], last), Valid(f, mNvActivePageId),
           f[mNvActivePageId][0] = flash[mNvActivePageId][0],
           f[OtherPage][0] = flash[OtherPage][0], Valid(f, OtherPage) => Valid(flash, OtherPage)
    PROVE  /\ RamOk(last)' /\ OtherPage' = OtherPage /\ LastActive' = LastActive
           /\ (EraseOk => EraseOk')
<1>1. /\ UNCHANGED <<mNvActivePageId, mNvPageCounter, mNvModuleInitialized, NvLastMetaInfoAddress, mNvErasePgCmdStatus>>
      /\ OtherPage' = OtherPage /\ LastActive' = LastActive
  BY DEF ramState, OtherPage, LastActive
<1>2. RamOk(last)'
  BY <1>1 DEF RamOk
<1>3. EraseOk => EraseOk'
  BY <1>1 DEF EraseOk
<1> QED
  BY <1>1, <1>2, <1>3

LEMMA ProgramRecordStep ==
    ASSUME FlashInv, FlashProgram, AtRecord
    PROVE  FlashInv'
<1>1. /\ Types /\ RamOk(LastActive) /\ EraseOk /\ mNvActivePageId \in Page /\ OtherPage \in Page
      /\ FlashTypes(flash) /\ FlashOk(flash) /\ mNvPageCounter \in Nat
  BY Other DEF FlashInv, AtRecord, RamOk, Types
<1>2. PICK e \in Entry, v \in Value, r \in Cell, m \in Cell :
          /\ Placed(e, r, m)
          /\ Head(todo) = Program(mNvActivePageId, r, Data(e, v))
          /\ Top(Rest, "program") /\ Head(Rest) = Program(mNvActivePageId, m, <<Meta(e, r)>>)
          /\ Top(Tail(Rest), "written") /\ Head(Tail(Rest)) = WrittenCall(e, m)
          /\ Quiet(Tail(Tail(Rest)))
  BY DEF AtRecord
<1>3. PICK p, g, edge, last : /\ p = mNvActivePageId /\ g = flash[p] /\ last = LastActive /\ edge = Edge(g, last)
  OBVIOUS
<1>4. /\ r + Size(e) <= PAGE /\ m + 1 <= PAGE
      /\ Size(e) \in Nat \ {0} /\ last \in 0 .. Bottom - 1
      /\ edge \in last + 1 .. Bottom
      /\ m \in last + 1 .. edge - 1
      /\ \A x \in r .. r + Size(e) - 1 : x \in m + 3 .. edge - 1
      /\ \A a \in last + 1 .. edge - 1 : ~Is(g[a], "meta")
  BY <1>1, <1>2, <1>3, PlacedFacts
<1>5. Bottom \in Nat /\ Cell = 0 .. Bottom /\ r \in Nat /\ m \in Nat
  BY Sizes DEF Cell, Bottom
<1>6. PICK f : f = flash'
  OBVIOUS
<1>7. /\ FlashTypes(f) /\ stored' = Restored(f) /\ todo' = Rest /\ todo # << >>
      /\ \A q \in Page \ {p} : f[q] = flash[q]
      /\ \A x \in Cell : x \notin r .. r + Size(e) - 1 => f[p][x] = g[x]
      /\ Holds(f[p], e, v, r)
      /\ \A x \in r .. r + Size(e) - 1 : ~Is(f[p][x], "meta")
      /\ UNCHANGED <<ramState, mNvCriticalSectionFlag, ram, boot, requested>>
  BY <1>1, <1>2, <1>3, <1>4, <1>6, BecomesRecord
<1>8. \A x \in Cell : x \notin last + 1 .. edge - 1 => f[p][x] = g[x]
  BY <1>4, <1>5, <1>7
<1>9. \A x \in last + 1 .. edge - 1 : ~Is(f[p][x], "meta")
  BY <1>4, <1>5, <1>7
<1>10. f[OtherPage] = flash[OtherPage]
  BY <1>1, <1>3, <1>7, Other
<1>11. /\ FlashOk(f) /\ PageOk(f[p], last) /\ Valid(f, p) /\ Edge(f[p], last) = edge /\ f[p][0] = g[0]
       /\ Valid(f, OtherPage) <=> Valid(flash, OtherPage)
  <2>1. RamOk(last)
    BY <1>1, <1>3
  <2> QED
    BY <1>1, <1>3, <1>7, <1>8, <1>9, <1>10, <2>1, BetweenWrite
<1>12. RamOk(last)' /\ OtherPage' = OtherPage /\ LastActive' = last /\ EraseOk'
  BY <1>1, <1>3, <1>6, <1>7, <1>10, <1>11, RamNext
<1>13. mNvActivePageId' = p /\ flash' = f
  BY <1>3, <1>6, <1>7 DEF ramState
<1>14. Placed(e, r, m)'
  <2>1. f[p][m] = g[m]
    <3>1. m \notin r .. r + Size(e) - 1
      BY <1>4, <1>5
    <3> QED
      BY <1>7, <3>1
  <2>2. \A a \in last + 1 .. m - 1 : f[p][a] = g[a]
    <3>1. \A a \in last + 1 .. m - 1 : a \in Cell /\ a \notin r .. r + Size(e) - 1
      BY <1>4, <1>5
    <3> QED
      BY <1>7, <3>1
  <2>3. /\ last < m /\ m + 3 <= r /\ r + Size(e) <= edge
        /\ g[m] = BLANK /\ \A a \in last + 1 .. m - 1 : g[a] # BLANK
    BY <1>2, <1>3 DEF Placed
  <2> QED
    BY <1>11, <1>12, <1>13, <2>1, <2>2, <2>3 DEF Placed
<1>15. AtMeta'
  <2>1. RamOk(LastActive)'
    BY <1>12
  <2>2. /\ todo' = Rest /\ Rest # << >> /\ Head(Rest).op = "program"
        /\ Head(todo') = Program(mNvActivePageId', m, <<Meta(e, r)>>)
    BY <1>2, <1>3, <1>7, <1>13 DEF Top
  <2>3. Holds(flash'[mNvActivePageId'], e, v, r)
    BY <1>7, <1>13
  <2> QED
    BY <1>2, <1>12, <1>14, <2>1, <2>2, <2>3 DEF AtMeta, Top, Rest
<1> QED
  BY <1>6, <1>7, <1>11, <1>15, FlashStep DEF Phase

LEMMA ProgramMetaStep ==
    ASSUME FlashInv, FlashProgram, AtMeta
    PROVE  FlashInv'
<1>1. /\ Types /\ RamOk(LastActive) /\ EraseOk /\ mNvActivePageId \in Page /\ OtherPage \in Page
      /\ FlashTypes(flash) /\ FlashOk(flash) /\ mNvPageCounter \in Nat
  BY Other DEF FlashInv, AtMeta, RamOk, Types
<1>2. PICK e \in Entry, v \in Value, r \in Cell, m \in Cell :
          /\ Placed(e, r, m) /\ Holds(flash[mNvActivePageId], e, v, r)
          /\ Head(todo) = Program(mNvActivePageId, m, <<Meta(e, r)>>)
          /\ Top(Rest, "written") /\ Head(Rest) = WrittenCall(e, m)
          /\ Quiet(Tail(Rest))
  BY DEF AtMeta
<1>3. PICK p, q, g, edge, last, c :
          /\ p = mNvActivePageId /\ q = OtherPage /\ g = flash[p] /\ last = LastActive /\ edge = Edge(g, last)
          /\ c = Meta(e, r)
  OBVIOUS
<1>4. /\ m \in FirstMeta .. Bottom - 1
      /\ Size(e) \in Nat \ {0} /\ last \in 0 .. Bottom - 1
      /\ MetaOk(c, m)
  BY <1>1, <1>2, <1>3, PlacedFacts
<1>5. Bottom \in Nat /\ Cell = 0 .. Bottom /\ r \in Nat /\ m \in Nat /\ FirstMeta = 1
  BY Sizes DEF Cell, Bottom, FirstMeta
<1>6. c \in CellValue /\ Is(c, "meta")
  BY <1>3, <1>5, CellFacts
<1>7. PICK f : f = flash'
  OBVIOUS
<1>8. /\ FlashTypes(f) /\ stored' = Restored(f) /\ todo' = Rest /\ todo # << >>
      /\ \A x \in Page \ {p} : f[x] = flash[x]
      /\ f[p] = [g EXCEPT ![m] = c] /\ g \in PageOfCells /\ MetasOk(g)
      /\ UNCHANGED <<ramState, mNvCriticalSectionFlag, ram, boot, requested>>
  BY <1>1, <1>2, <1>3, <1>4, <1>6, <1>7, BecomesCell
<1>9. f[q] = flash[q] /\ q \in Page /\ Page \ {p} = {q}
  BY <1>1, <1>3, <1>8, Other
<1>10. f[p][0] = g[0] /\ f[p][Bottom] = g[Bottom] /\ f[p][m] = c
  BY <1>4, <1>5, <1>8 DEF PageOfCells
<1>11. PageOk(f[p], m) /\ m \in 0 .. Bottom - 1
  <2>1. /\ last < m /\ m < r /\ r + Size(e) <= Edge(g, last) /\ PageOk(g, last)
        /\ \A a \in last + 1 .. m - 1 : g[a] # BLANK
        /\ Holds(g, e, v, r)
    <3>1. m + 3 <= r => m < r
      BY <1>5
    <3> QED
      BY <1>1, <1>2, <1>3, <3>1 DEF Placed, RamOk
  <2>2. f[p] = [g EXCEPT ![m] = Meta(e, r)]
    BY <1>3, <1>8
  <2> QED
    BY <1>4, <1>5, <1>8, <2>1, <2>2, NewMeta
<1>12. FlashOk(f) /\ Valid(f, p) /\ (Valid(f, q) <=> Valid(flash, q))
  <2>1. Valid(flash, p) /\ flash[p][0].n = mNvPageCounter /\ p \in Page
    BY <1>1, <1>3, CellFacts DEF RamOk
  <2>2. Valid(flash, q) => flash[q][0].n \in Nat /\ flash[q][0].n < mNvPageCounter
    <3>1. 0 \in Cell /\ flash[q] \in PageOfCells
      BY <1>1, <1>5, <1>9, PageTypes
    <3>2. flash[q][0] \in CellValue
      BY <3>1 DEF PageOfCells
    <3> QED
      BY <1>1, <1>3, <3>2, CellFacts DEF RamOk, Valid
  <2>3. \A x \in Page \ {p} : Valid(flash, x) => flash[x][0].n \in Nat /\ flash[x][0].n < flash[p][0].n
    BY <1>9, <2>1, <2>2
  <2>4. ~NoMetas(f[p])
    BY <1>4, <1>6, <1>10 DEF NoMetas
  <2>5. f[p][0] = flash[p][0] /\ f[p][Bottom] = flash[p][Bottom] /\ (NoMetas(f[p]) => NoMetas(flash[p]))
        /\ flash[p][0].n \in Nat
    BY <1>1, <1>3, <1>10, <2>1, <2>4
  <2>6. FlashOk(f) /\ Valid(f, p) /\ \A x \in Page \ {p} : Valid(f, x) <=> Valid(flash, x)
    BY <1>1, <1>8, <1>11, <2>1, <2>3, <2>5, NewerPage
  <2> QED
    BY <1>9, <2>6
<1>13. RamOk(m)' /\ EraseOk'
  BY <1>1, <1>3, <1>7, <1>8, <1>9, <1>10, <1>11, <1>12, RamNext
<1>14. AtWritten'
  BY <1>2, <1>8, <1>13 DEF AtWritten, Top, Rest
<1> QED
  BY <1>7, <1>8, <1>12, <1>14, FlashStep DEF Phase

(* The copies that are already made stay as they are.                      *)
LEMMA CopyKept ==
    ASSUME Types, RamOk(LastActive), UNCHANGED ramState, NEW f, f = flash', f[mNvActivePageId] = flash[mNvActivePageId],
           NEW src, NEW dst \in Int, NEW record, NEW free, CopyOk(src, dst, record, free), NEW new,
           \A x \in Cell : x \in FirstMeta .. dst - 1 \/ x \in record .. Bottom - 1 => f[OtherPage][x] = flash[OtherPage][x],
           \A x \in dst .. record - 1 : ~Is(f[OtherPage][x], "meta"),
           \A x \in Cell : x = 0 \/ x \in dst .. new - 1 \/ x = Bottom => f[OtherPage][x] = BLANK
    PROVE  CopyOk(src, dst, record, new)' /\ CopiedEntries(dst)' = CopiedEntries(dst)
<1>1. PICK p, q, g, h, last :
          p = mNvActivePageId /\ q = OtherPage /\ g = flash[p] /\ h = flash[q] /\ last = LastActive
  OBVIOUS
<1>2. /\ mNvActivePageId' = p /\ OtherPage' = q /\ LastActive' = last /\ flash'[p] = g /\ flash' = f
  BY <1>1 DEF ramState, OtherPage, LastActive
<1>3. /\ h \in PageOfCells /\ MetasOk(h) /\ dst - 1 \in 0 .. Bottom - 1 /\ record \in dst .. Bottom
      /\ PageOk(h, dst - 1) /\ record = Edge(h, dst - 1) /\ (dst - 1) + 1 = dst
  <2>1. /\ h \in PageOfCells /\ MetasOk(h) /\ dst \in 1 .. Bottom /\ record \in dst .. Bottom
        /\ PageOk(h, dst - 1) /\ record = Edge(h, dst - 1)
    BY <1>1, CopiedSubset
  <2> QED
    BY <2>1, Sizes
<1>4. Bottom \in Nat /\ Cell = 0 .. Bottom /\ FirstMeta = 1
  BY Sizes DEF Cell, FirstMeta
<1>5. PageOk(f[q], dst - 1) /\ Edge(f[q], dst - 1) = record
  <2>1. /\ \A a \in Cell : a \in FirstMeta .. dst - 1 \/ a \in Edge(h, dst - 1) .. Bottom - 1 => f[q][a] = h[a]
        /\ \A a \in (dst - 1) + 1 .. Edge(h, dst - 1) - 1 : ~Is(f[q][a], "meta")
    BY <1>1, <1>3
  <2> QED
    BY <1>3, <2>1, BetweenKeepsPage
<1>6. ASSUME NEW b \in FirstMeta .. dst - 1
      PROVE  /\ f[q][b] = h[b] /\ Is(h[b], "meta")
             /\ \A k \in 1 .. Size(h[b].entry) : f[q][h[b].offset + k - 1] = h[h[b].offset + k - 1]
  <2>1. Is(h[b], "meta")
    BY <1>1 DEF CopyOk
  <2>2. /\ b \in Cell /\ h[b].entry \in Entry
        /\ h[b].offset \in record .. Bottom /\ h[b].offset + Size(h[b].entry) <= Bottom
    BY <1>3, <2>1, EdgeFacts
  <2>3. Size(h[b].entry) \in Nat
    BY <2>2, Sizes
  <2>4. ASSUME NEW k \in 1 .. Size(h[b].entry) PROVE f[q][h[b].offset + k - 1] = h[h[b].offset + k - 1]
    <3>1. h[b].offset + k - 1 \in Cell /\ h[b].offset + k - 1 \in record .. Bottom - 1
      BY <1>3, <1>4, <2>2, <2>3
    <3> QED
      BY <1>1, <3>1
  <2> QED
    BY <1>1, <2>1, <2>2, <2>4
<1>7. CopiedEntries(dst)' = CopiedEntries(dst)
  <2>1. CopiedEntries(dst)' = {f[q][b].entry : b \in FirstMeta .. dst - 1}
    BY <1>2 DEF CopiedEntries
  <2>2. CopiedEntries(dst) = {h[b].entry : b \in FirstMeta .. dst - 1}
    BY <1>1 DEF CopiedEntries
  <2> QED
    BY <1>6, <2>1, <2>2
<1>8. ASSUME NEW b \in FirstMeta .. dst - 1
      PROVE  Is(f[q][b], "meta") /\ \E a \in src + 1 .. last : Newest(a)' /\ CopyOf(b, a)'
  <2>1. PICK a \in src + 1 .. last : Newest(a) /\ CopyOf(b, a)
    BY <1>1 DEF CopyOk
  <2>2. Newest(a)'
    BY <1>1, <1>2, <2>1 DEF Newest
  <2>3. /\ g[a].entry = h[b].entry
        /\ \A k \in 1 .. Size(h[b].entry) : h[h[b].offset + k - 1] = g[g[a].offset + k - 1]
    BY <1>1, <2>1 DEF CopyOf
  <2>4. /\ g[a].entry = f[q][b].entry
        /\ \A k \in 1 .. Size(f[q][b].entry) : f[q][f[q][b].offset + k - 1] = g[g[a].offset + k - 1]
    BY <1>6, <2>3
  <2>5. CopyOf(b, a)'
    BY <1>2, <2>4 DEF CopyOf
  <2> QED
    BY <1>6, <2>2, <2>5
<1>9. /\ src \in 0 .. last
      /\ \A a \in src + 1 .. last : Is(g[a], "meta") => g[a].entry \in CopiedEntries(dst)
      /\ \E used \in [Table -> 0 .. PAGE] :
              Adds(used, CopiedEntries(dst)) /\ record - dst = Bottom - FirstMeta - used[Len(pNVM_DataTable)]
  BY <1>1 DEF CopyOk
<1>10. \A x \in Cell : x = 0 \/ x \in dst .. new - 1 \/ x = Bottom => f[q][x] = BLANK
  BY <1>1
<1> QED
  BY <1>2, <1>5, <1>7, <1>8, <1>9, <1>10 DEF CopyOk

LEMMA CopyRecordStep ==
    ASSUME FlashInv, FlashProgram, AtCopyRecord
    PROVE  FlashInv'
<1>1. /\ Types /\ RamOk(LastActive) /\ EraseOk /\ mNvActivePageId \in Page /\ OtherPage \in Page
      /\ FlashTypes(flash) /\ FlashOk(flash) /\ mNvPageCounter \in Nat
  BY Other DEF FlashInv, AtCopyRecord, RamOk, Types
<1>2. PICK a \in Cell, dst \in Cell, to \in Cell, v \in Value, e \in Entry :
          /\ CopyNext(a, dst, to, v, e, to + Size(e))
          /\ Head(todo) = Program(OtherPage, to, Data(e, v))
          /\ Top(Rest, "program") /\ Head(Rest) = Program(OtherPage, dst, <<Meta(e, to)>>)
          /\ Top(Tail(Rest), "copy records") /\ Head(Tail(Rest)) = CopyRecords(a - 1, dst + 1, to)
          /\ Caller(Tail(Tail(Rest)))
  BY DEF AtCopyRecord
<1>3. PICK p, q, g, h, last, record :
          /\ p = mNvActivePageId /\ q = OtherPage /\ g = flash[p] /\ h = flash[q] /\ last = LastActive
          /\ record = to + Size(e)
  OBVIOUS
<1>4. /\ Newest(a) /\ e = g[a].entry /\ Holds(g, e, v, g[a].offset) /\ e \notin CopiedEntries(dst)
      /\ CopyOk(a, dst, record, record) /\ to > dst
  BY <1>2, <1>3 DEF CopyNext
<1>5. Bottom \in Nat /\ Cell = 0 .. Bottom /\ FirstMeta = 1 /\ Size(e) \in Nat \ {0} /\ PAGE = Bottom + 1
  BY Sizes DEF Cell, FirstMeta
<1>6. /\ dst \in 1 .. Bottom /\ record \in dst .. Bottom /\ to \in Nat /\ to + Size(e) <= PAGE
      /\ record - 1 = to + Size(e) - 1
  <2>1. dst \in Int
    BY <1>5
  <2>2. dst \in 1 .. Bottom /\ record \in dst .. Bottom
    BY <1>1, <1>4, <2>1, CopiedSubset
  <2> QED
    BY <1>3, <1>5, <2>2
<1>7. PICK f : f = flash'
  OBVIOUS
<1>8. /\ FlashTypes(f) /\ stored' = Restored(f) /\ todo' = Rest /\ todo # << >>
      /\ \A x \in Page \ {q} : f[x] = flash[x]
      /\ \A x \in Cell : x \notin to .. record - 1 => f[q][x] = h[x]
      /\ Holds(f[q], e, v, to)
      /\ \A x \in to .. record - 1 : ~Is(f[q][x], "meta")
      /\ UNCHANGED <<ramState, mNvCriticalSectionFlag, ram, boot, requested>>
  <2>1. Head(todo) = Program(q, to, Data(e, v)) /\ q \in Page
    BY <1>1, <1>2, <1>3
  <2>2. /\ FlashTypes(f) /\ stored' = Restored(f) /\ todo' = Rest /\ todo # << >>
        /\ \A x \in Page \ {q} : f[x] = flash[x]
        /\ \A x \in Cell : x \notin to .. to + Size(e) - 1 => f[q][x] = h[x]
        /\ Holds(f[q], e, v, to)
        /\ \A x \in to .. to + Size(e) - 1 : ~Is(f[q][x], "meta")
        /\ UNCHANGED <<ramState, mNvCriticalSectionFlag, ram, boot, requested>>
    BY <1>3, <1>6, <1>7, <2>1, BecomesRecord
  <2>3. to .. record - 1 = to .. to + Size(e) - 1
    BY <1>6
  <2> QED
    BY <2>2, <2>3, Zenon
<1>9. f[p] = g /\ p \in Page /\ q \in Page
  BY <1>1, <1>3, <1>8, Other
<1>10. \A x \in Cell : x = 0 \/ x \in dst .. to - 1 \/ x = Bottom => f[q][x] = BLANK
  <2>1. \A x \in Cell : x = 0 \/ x \in dst .. record - 1 \/ x = Bottom => h[x] = BLANK
    BY <1>3, <1>4 DEF CopyOk
  <2> QED
    BY <1>4, <1>5, <1>6, <1>8, <2>1
<1>11. f[q][0] = BLANK /\ f[q][0] = h[0] /\ ~Valid(f, q)
  <2>1. f[q][0] = BLANK /\ f[q][0] = h[0]
    BY <1>4, <1>5, <1>6, <1>8, <1>10
  <2> QED
    BY <2>1, CellFacts DEF Valid
<1>12. FlashOk(f)
  BY <1>1, <1>8, <1>9, <1>11, InvalidPage
<1>13. RamOk(last)' /\ OtherPage' = q /\ LastActive' = last /\ EraseOk'
  <2>1. Valid(flash, p) /\ PageOk(g, last)
    BY <1>1, <1>3 DEF RamOk
  <2>2. Valid(f, p)
    BY <1>3, <1>9, <2>1 DEF Valid
  <2> QED
    BY <1>1, <1>3, <1>7, <1>8, <1>9, <1>11, <2>1, <2>2, RamNext
<1>14. CopyOk(a, dst, record, to)' /\ CopiedEntries(dst)' = CopiedEntries(dst)
  <2>1. \A x \in Cell : x \in FirstMeta .. dst - 1 \/ x \in record .. Bottom - 1 => f[q][x] = h[x]
    BY <1>4, <1>5, <1>6, <1>8
  <2>2. \A x \in dst .. record - 1 : ~Is(f[q][x], "meta")
    <3>1. ASSUME NEW x \in dst .. record - 1 PROVE ~Is(f[q][x], "meta")
      <4>1. CASE x \in to .. record - 1
        BY <1>8, <4>1
      <4>2. CASE x \in dst .. to - 1
        <5>1. x \in Cell
          BY <1>5, <1>6
        <5> QED
          BY <1>10, <4>2, <5>1, CellFacts
      <4> QED
        BY <1>5, <1>6, <3>1, <4>1, <4>2
    <3> QED
      BY <3>1
  <2>3. UNCHANGED ramState /\ f = flash' /\ f[mNvActivePageId] = flash[mNvActivePageId] /\ dst \in Int
    BY <1>3, <1>5, <1>7, <1>8, <1>9
  <2>4. /\ \A x \in Cell : x \in FirstMeta .. dst - 1 \/ x \in record .. Bottom - 1 => f[OtherPage][x] = flash[OtherPage][x]
        /\ \A x \in dst .. record - 1 : ~Is(f[OtherPage][x], "meta")
        /\ \A x \in Cell : x = 0 \/ x \in dst .. to - 1 \/ x = Bottom => f[OtherPage][x] = BLANK
    BY <1>3, <1>10, <2>1, <2>2
  <2> QED
    BY <1>1, <1>4, <2>3, <2>4, CopyKept
<1>15. CopyNext(a, dst, to, v, e, to)'
  <2>1. mNvActivePageId' = p /\ flash'[p] = g
    BY <1>3, <1>7, <1>8, <1>9 DEF ramState
  <2>2. Newest(a)'
    BY <1>3, <1>4, <1>13, <2>1 DEF Newest
  <2> QED
    BY <1>3, <1>4, <1>14, <2>1, <2>2 DEF CopyNext
<1>16. AtCopyMeta'
  <2>1. /\ todo' = Rest /\ Rest # << >> /\ Head(Rest).op = "program"
        /\ Head(todo') = Program(OtherPage', dst, <<Meta(e, to)>>)
    BY <1>2, <1>3, <1>8, <1>13 DEF Top
  <2>2. Holds(flash'[OtherPage'], e, v, to) /\ RamOk(LastActive)'
    BY <1>7, <1>8, <1>13
  <2> QED
    BY <1>2, <1>13, <1>15, <2>1, <2>2 DEF AtCopyMeta, Top, Rest
<1> QED
  BY <1>7, <1>8, <1>12, <1>16, FlashStep DEF Phase

LEMMA CopyMetaStep ==
    ASSUME FlashInv, FlashProgram, AtCopyMeta
    PROVE  FlashInv'
<1>1. /\ Types /\ RamOk(LastActive) /\ EraseOk /\ mNvActivePageId \in Page /\ OtherPage \in Page
      /\ FlashTypes(flash) /\ FlashOk(flash) /\ mNvPageCounter \in Nat
  BY Other DEF FlashInv, AtCopyMeta, RamOk, Types
<1>2. PICK a \in Cell, dst \in Cell, to \in Cell, v \in Value, e \in Entry :
          /\ CopyNext(a, dst, to, v, e, to) /\ Holds(flash[OtherPage], e, v, to)
          /\ Head(todo) = Program(OtherPage, dst, <<Meta(e, to)>>)
          /\ Top(Rest, "copy records") /\ Head(Rest) = CopyRecords(a - 1, dst + 1, to)
          /\ Caller(Tail(Rest))
  BY DEF AtCopyMeta
<1>3. PICK p, q, g, h, last, record, c :
          /\ p = mNvActivePageId /\ q = OtherPage /\ g = flash[p] /\ h = flash[q] /\ last = LastActive
          /\ record = to + Size(e) /\ c = Meta(e, to)
  OBVIOUS
<1>4. /\ Newest(a) /\ e = g[a].entry /\ Holds(g, e, v, g[a].offset) /\ e \notin CopiedEntries(dst)
      /\ CopyOk(a, dst, record, to) /\ to > dst
  BY <1>2, <1>3 DEF CopyNext
<1>5. Bottom \in Nat /\ Cell = 0 .. Bottom /\ FirstMeta = 1 /\ Size(e) \in Nat \ {0} /\ PAGE = Bottom + 1
  BY Sizes DEF Cell, FirstMeta
<1>6. /\ dst \in 1 .. Bottom /\ record \in dst .. Bottom /\ to \in Nat /\ dst \in Nat /\ dst + 1 \in Cell
      /\ CopiedEntries(dst) \in SUBSET Entry /\ PageOk(h, dst - 1) /\ record = Edge(h, dst - 1)
      /\ h \in PageOfCells /\ MetasOk(h) /\ dst - 1 \in 0 .. Bottom - 1 /\ (dst - 1) + 1 = dst
  <2>1. dst \in Int
    BY <1>5
  <2>2. /\ dst \in 1 .. Bottom /\ record \in dst .. Bottom /\ CopiedEntries(dst) \in SUBSET Entry
        /\ PageOk(h, dst - 1) /\ record = Edge(h, dst - 1) /\ h \in PageOfCells /\ MetasOk(h)
    BY <1>1, <1>3, <1>4, <2>1, CopiedSubset
  <2>3. /\ to \in Nat /\ dst \in Nat /\ dst + 1 \in Cell /\ dst - 1 \in 0 .. Bottom - 1 /\ (dst - 1) + 1 = dst
    BY <1>3, <1>4, <1>5, <2>2
  <2> QED
    BY <2>2, <2>3
<1>7. a \in 1 .. last /\ last \in 0 .. Bottom - 1 /\ a - 1 \in 0 .. last /\ a - 1 \in Cell /\ (a - 1) + 1 = a
  <2>1. a \in 0 .. last /\ Is(g[a], "meta")
    BY <1>3, <1>4 DEF CopyOk, Newest
  <2>2. g[0] = Counter(mNvPageCounter) /\ last \in 0 .. Bottom - 1
    BY <1>1, <1>3 DEF RamOk, PageOk
  <2>3. a # 0
    BY <1>1, <2>1, <2>2, CellFacts
  <2> QED
    BY <1>5, <2>1, <2>2, <2>3
<1>8. PICK f : f = flash'
  OBVIOUS
<1>9. c \in CellValue /\ MetaOk(c, dst) /\ Is(c, "meta") /\ c.entry = e /\ c.offset = to
  <2>1. c \in CellValue /\ Is(c, "meta") /\ c.entry = e /\ c.offset = to
    BY <1>3, <1>6, CellFacts
  <2>2. to \in dst + 1 .. Bottom - Size(e)
    BY <1>3, <1>4, <1>5, <1>6
  <2> QED
    BY <2>1, <2>2 DEF MetaOk
<1>10. /\ FlashTypes(f) /\ stored' = Restored(f) /\ todo' = Rest /\ todo # << >>
       /\ \A x \in Page \ {q} : f[x] = flash[x]
       /\ f[q] = [h EXCEPT ![dst] = c]
       /\ UNCHANGED <<ramState, mNvCriticalSectionFlag, ram, boot, requested>>
  <2>1. Head(todo) = Program(q, dst, <<c>>) /\ q \in Page /\ dst \in Cell
    BY <1>1, <1>2, <1>3
  <2> QED
    BY <1>3, <1>8, <1>9, <2>1, BecomesCell
<1>11. f[p] = g /\ p \in Page /\ q \in Page
  BY <1>1, <1>3, <1>10, Other
<1>12. f[q][dst] = c /\ \A x \in Cell : x # dst => f[q][x] = h[x]
  BY <1>6, <1>10 DEF PageOfCells
<1>13. \A x \in Cell : x = 0 \/ x \in dst + 1 .. to - 1 \/ x = Bottom => f[q][x] = BLANK
  <2>1. \A x \in Cell : x = 0 \/ x \in dst .. to - 1 \/ x = Bottom => h[x] = BLANK
    BY <1>3, <1>4 DEF CopyOk
  <2>2. \A x \in Cell : x = 0 \/ x \in dst + 1 .. to - 1 \/ x = Bottom =>
                          x # dst /\ (x \in dst + 1 .. to - 1 => x \in dst .. to - 1)
    BY <1>3, <1>4, <1>5, <1>6, SMTT(30)
  <2> QED
    BY <1>12, <2>1, <2>2
<1>14. f[q][0] = BLANK /\ f[q][0] = h[0] /\ ~Valid(f, q)
  <2>1. f[q][0] = BLANK /\ f[q][0] = h[0]
    BY <1>5, <1>6, <1>12, <1>13
  <2> QED
    BY <2>1, CellFacts DEF Valid
<1>15. FlashOk(f)
  BY <1>1, <1>10, <1>11, <1>14, InvalidPage
<1>16. RamOk(last)' /\ OtherPage' = q /\ LastActive' = last /\ EraseOk'
  <2>1. Valid(flash, p) /\ PageOk(g, last)
    BY <1>1, <1>3 DEF RamOk
  <2>2. Valid(f, p)
    BY <1>3, <1>11, <2>1 DEF Valid
  <2> QED
    BY <1>1, <1>3, <1>8, <1>10, <1>11, <1>14, <2>1, <2>2, RamNext
<1>17. PageOk(f[q], dst) /\ Edge(f[q], dst) = to
  <2>1. /\ dst - 1 < dst /\ dst < to /\ to + Size(e) <= Edge(h, dst - 1)
        /\ \A x \in (dst - 1) + 1 .. dst - 1 : h[x] # BLANK
        /\ Holds(h, e, v, to)
    <3>1. /\ dst - 1 < dst /\ dst < to /\ to + Size(e) <= record
          /\ \A x \in (dst - 1) + 1 .. dst - 1 : h[x] # BLANK
      BY <1>3, <1>4, <1>5, <1>6
    <3>2. Holds(h, e, v, to)
      BY <1>2, <1>3
    <3> QED
      BY <1>6, <3>1, <3>2, Zenon
  <2>2. f[q] = [h EXCEPT ![dst] = Meta(e, to)]
    BY <1>3, <1>10
  <2> QED
    BY <1>6, <2>1, <2>2, NewMeta
<1>18. mNvActivePageId' = p /\ flash'[p] = g /\ flash'[q] = f[q]
  BY <1>3, <1>8, <1>10, <1>11 DEF ramState
<1>19. ASSUME NEW b \in FirstMeta .. dst - 1
       PROVE  /\ f[q][b] = h[b] /\ Is(h[b], "meta")
              /\ \A k \in 1 .. Size(h[b].entry) : f[q][h[b].offset + k - 1] = h[h[b].offset + k - 1]
  <2>1. Is(h[b], "meta")
    BY <1>3, <1>4 DEF CopyOk
  <2>2. /\ b \in Cell /\ h[b].entry \in Entry
        /\ h[b].offset \in record .. Bottom /\ h[b].offset + Size(h[b].entry) <= Bottom
    BY <1>6, <2>1, EdgeFacts
  <2>3. Size(h[b].entry) \in Nat /\ b # dst
    <3>1. Size(h[b].entry) \in Nat
      BY <2>2, Sizes
    <3>2. b # dst
      BY <1>5, <1>6
    <3> QED
      BY <3>1, <3>2
  <2>4. ASSUME NEW k \in 1 .. Size(h[b].entry) PROVE f[q][h[b].offset + k - 1] = h[h[b].offset + k - 1]
    <3>1. h[b].offset + k - 1 \in Cell /\ h[b].offset + k - 1 # dst
      <4>1. PICK o, n : o = h[b].offset /\ n = Size(h[b].entry)
        OBVIOUS
      <4>2. o \in record .. Bottom /\ o + n <= Bottom /\ n \in Nat /\ k \in 1 .. n
        BY <2>2, <2>3, <4>1
      <4>3. record = to + Size(e) /\ Size(e) \in Nat \ {0} /\ dst < to /\ dst \in Nat /\ to \in Nat /\ Bottom \in Nat
        BY <1>3, <1>4, <1>5
      <4>4. PICK s, z : s = Size(e) /\ z = o + k - 1
        OBVIOUS
      <4>5. z \in 0 .. Bottom /\ z # dst
        BY <4>2, <4>3, <4>4
      <4>6. Cell = 0 .. Bottom
        BY <1>4, <1>5
      <4> QED
        BY <4>1, <4>4, <4>5, <4>6, Zenon
    <3> QED
      BY <1>12, <3>1
  <2> QED
    BY <1>12, <2>1, <2>2, <2>3, <2>4
<1>20. CopiedEntries(dst + 1)' = CopiedEntries(dst) \union {e}
  <2>1. CopiedEntries(dst + 1)' = {f[q][b].entry : b \in FirstMeta .. (dst + 1) - 1}
    BY <1>8, <1>16 DEF CopiedEntries
  <2>2. CopiedEntries(dst) = {h[b].entry : b \in FirstMeta .. dst - 1}
    BY <1>3 DEF CopiedEntries
  <2>3. FirstMeta .. (dst + 1) - 1 = (FirstMeta .. dst - 1) \union {dst}
    BY <1>5, <1>6
  <2> QED
    BY <1>9, <1>12, <1>19, <2>1, <2>2, <2>3
<1>21. Newest(a)'
  BY <1>3, <1>4, <1>16, <1>18 DEF Newest
<1>22. CopyOf(dst, a)'
  <2>1. \A k \in 1 .. Size(e) : h[to + k - 1] = g[g[a].offset + k - 1]
    <3>1. Holds(h, e, v, to) /\ Holds(g, e, v, g[a].offset)
      BY <1>2, <1>3, <1>4
    <3>2. PICK o : o = g[a].offset
      OBVIOUS
    <3>3. \A k \in 1 .. Size(e) : h[to + k - 1] = Data(e, v)[k]
      BY <3>1 DEF Holds
    <3>4. \A k \in 1 .. Size(e) : g[o + k - 1] = Data(e, v)[k]
      BY <3>1, <3>2 DEF Holds
    <3> QED
      BY <3>2, <3>3, <3>4
  <2>2. \A k \in 1 .. Size(e) : f[q][to + k - 1] = h[to + k - 1]
    <3>1. \A k \in 1 .. Size(e) : to + k - 1 \in Cell /\ to + k - 1 # dst
      BY <1>3, <1>4, <1>5, <1>6
    <3> QED
      BY <1>12, <3>1
  <2>3. f[q][dst].entry = e /\ f[q][dst].offset = to
    BY <1>9, <1>12
  <2>4. /\ g[a].entry = f[q][dst].entry
        /\ \A k \in 1 .. Size(f[q][dst].entry) : f[q][f[q][dst].offset + k - 1] = g[g[a].offset + k - 1]
    BY <1>4, <2>1, <2>2, <2>3
  <2> QED
    BY <1>16, <1>18, <2>4 DEF CopyOf
<1>23. ASSUME NEW b \in FirstMeta .. dst
       PROVE  Is(f[q][b], "meta") /\ \E x \in a .. last : Newest(x)' /\ CopyOf(b, x)'
  <2>1. CASE b = dst
    BY <1>7, <1>9, <1>12, <1>21, <1>22, <2>1
  <2>2. CASE b \in FirstMeta .. dst - 1
    <3>1. PICK x \in a + 1 .. last : Newest(x) /\ CopyOf(b, x)
      BY <1>3, <1>4, <2>2 DEF CopyOk
    <3>2. Newest(x)'
      BY <1>3, <1>16, <1>18, <3>1 DEF Newest
    <3>3. /\ g[x].entry = h[b].entry
          /\ \A k \in 1 .. Size(h[b].entry) : h[h[b].offset + k - 1] = g[g[x].offset + k - 1]
      BY <1>3, <3>1 DEF CopyOf
    <3>4. /\ g[x].entry = f[q][b].entry
          /\ \A k \in 1 .. Size(f[q][b].entry) : f[q][f[q][b].offset + k - 1] = g[g[x].offset + k - 1]
      BY <1>19, <2>2, <3>3
    <3>5. CopyOf(b, x)'
      BY <1>16, <1>18, <3>4 DEF CopyOf
    <3>6. x \in a .. last
      BY <1>7
    <3> QED
      BY <1>19, <2>2, <3>2, <3>5, <3>6
  <2> QED
    BY <1>5, <1>6, <2>1, <2>2
<1>24. \A x \in a .. last : Is(g[x], "meta") => g[x].entry \in CopiedEntries(dst + 1)'
  <2>1. \A x \in a + 1 .. last : Is(g[x], "meta") => g[x].entry \in CopiedEntries(dst)
    BY <1>3, <1>4 DEF CopyOk
  <2>2. \A x \in a .. last : x = a \/ x \in a + 1 .. last
    BY <1>7
  <2> QED
    BY <1>4, <1>20, <2>1, <2>2
<1>25. \E used \in [Table -> 0 .. PAGE] :
          Adds(used, CopiedEntries(dst + 1)') /\ to - (dst + 1) = Bottom - FirstMeta - used[Len(pNVM_DataTable)]
  <2>1. PICK used \in [Table -> 0 .. PAGE] :
              Adds(used, CopiedEntries(dst)) /\ record - dst = Bottom - FirstMeta - used[Len(pNVM_DataTable)]
    BY <1>4 DEF CopyOk
  <2>2. PICK w \in [Table -> 0 .. PAGE] :
              /\ Adds(w, CopiedEntries(dst) \union {e})
              /\ w[Len(pNVM_DataTable)] = used[Len(pNVM_DataTable)] + Size(e) + 1
    <3>1. PICK S : S = CopiedEntries(dst)
      OBVIOUS
    <3>2. S \in SUBSET Entry /\ e \in Entry \ S /\ Adds(used, S) /\ used \in [Table -> 0 .. PAGE]
      BY <1>4, <1>6, <2>1, <3>1
    <3>3. \E w \in [Table -> 0 .. PAGE] : /\ Adds(w, S \union {e})
                                         /\ w[Len(pNVM_DataTable)] = used[Len(pNVM_DataTable)] + Size(e) + 1
      BY <3>2, AddsMore
    <3> QED
      BY <3>1, <3>3, Zenon
  <2>3. used[Len(pNVM_DataTable)] \in Nat
    BY <2>1, Sizes DEF Table
  <2>4. to - (dst + 1) = Bottom - FirstMeta - w[Len(pNVM_DataTable)]
    <3>1. PICK x, y, s : x = used[Len(pNVM_DataTable)] /\ y = w[Len(pNVM_DataTable)] /\ s = Size(e)
      OBVIOUS
    <3>2. x \in Nat /\ s \in Nat /\ record = to + s /\ record - dst = Bottom - FirstMeta - x /\ y = x + s + 1
      BY <1>3, <1>5, <2>1, <2>2, <2>3, <3>1
    <3>3. to - (dst + 1) = Bottom - FirstMeta - y
      BY <1>5, <1>6, <3>2
    <3> QED
      BY <3>1, <3>3
  <2> QED
    BY <1>20, <2>2, <2>4
<1>26. CopyOk(a - 1, dst + 1, to, to)'
  <2>1. (dst + 1) - 1 = dst
    BY <1>6
  <2>2. /\ a - 1 \in 0 .. LastActive'
        /\ PageOk(flash'[OtherPage'], (dst + 1) - 1) /\ to = Edge(flash'[OtherPage'], (dst + 1) - 1)
    BY <1>7, <1>8, <1>16, <1>17, <2>1, Zenon
  <2>3. \A b \in FirstMeta .. (dst + 1) - 1 : Is(flash'[OtherPage'][b], "meta")
                                               /\ \E x \in (a - 1) + 1 .. LastActive' : Newest(x)' /\ CopyOf(b, x)'
    BY <1>7, <1>8, <1>16, <1>23, <2>1, Zenon
  <2>4. \A x \in (a - 1) + 1 .. LastActive' : Is(flash'[mNvActivePageId'][x], "meta") =>
                                                 flash'[mNvActivePageId'][x].entry \in CopiedEntries(dst + 1)'
    BY <1>7, <1>16, <1>18, <1>24, Zenon
  <2>5. \A x \in Cell : x = 0 \/ x \in dst + 1 .. to - 1 \/ x = Bottom => flash'[OtherPage'][x] = BLANK
    BY <1>8, <1>13, <1>16
  <2> QED
    BY <1>25, <2>2, <2>3, <2>4, <2>5, Zenon DEF CopyOk
<1>27. AtCopy'
  <2>1. RamOk(LastActive)'
    BY <1>16
  <2>2. Head(todo') = CopyRecords(a - 1, dst + 1, to)
    BY <1>2, <1>10
  <2> QED
    BY <1>2, <1>6, <1>7, <1>10, <1>16, <1>26, <2>1, <2>2 DEF AtCopy, Top, Rest
<1> QED
  BY <1>8, <1>10, <1>15, <1>27, FlashStep DEF Phase

-----------------------------------------------------------------------------
(* Only the metas and the records make a difference to what is read back.  *)
LEMMA RestoreBetween ==
    ASSUME NEW f, NEW p, f[p] \in PageOfCells, MetasOk(f[p]), NEW last, PageOk(f[p], last), NEW e \in Entry,
           NEW g, \A x \in Cell : x \in FirstMeta .. last \/ x \in Edge(f[p], last) .. Bottom - 1 => g[p][x] = f[p][x]
    PROVE  NvRestoreData(g, p, last, e) = NvRestoreData(f, p, last, e)
<1>1. Bottom \in Nat /\ Cell = 0 .. Bottom /\ FirstMeta = 1 /\ Size(e) \in Nat /\ last \in 0 .. Bottom - 1
  BY Sizes DEF Cell, FirstMeta, PageOk
<1>2. PICK metas : metas = MetasOf(f[p], last, e)
  OBVIOUS
<1>3. metas = MetasOf(g[p], last, e)
  <2>1. \A x \in FirstMeta .. last : g[p][x] = f[p][x]
    BY <1>1
  <2> QED
    BY <1>2, <2>1 DEF MetasOf
<1>4. CASE metas = {}
  BY <1>2, <1>3, <1>4 DEF NvRestoreData, MetasOf
<1>5. CASE metas # {}
  <2>1. PICK m : m = Max(metas)
    OBVIOUS
  <2>2. m \in metas
    <3>1. metas \subseteq 0 .. Bottom /\ Bottom \in Nat
      BY <1>1, <1>2 DEF MetasOf
    <3> QED
      BY <1>5, <2>1, <3>1, MaxFacts
  <2>3. m \in FirstMeta .. last /\ Is(f[p][m], "meta") /\ f[p][m].entry = e
    BY <1>2, <2>2 DEF MetasOf
  <2>4. PICK a : a = f[p][m].offset
    OBVIOUS
  <2>5. a \in Edge(f[p], last) .. Bottom /\ a + Size(e) <= Bottom /\ g[p][m] = f[p][m] /\ Edge(f[p], last) \in 1 .. Bottom
    <3>1. /\ Edge(f[p], last) \in last + 1 .. Bottom
          /\ a \in Edge(f[p], last) .. Bottom /\ a + Size(e) <= Bottom
      BY <2>3, <2>4, EdgeFacts
    <3> QED
      BY <1>1, <2>3, <3>1
  <2>6. [k \in 1 .. pNVM_DataTable[e] |-> g[p][a + k - 1]] = [k \in 1 .. pNVM_DataTable[e] |-> f[p][a + k - 1]]
    <3>1. Size(e) = pNVM_DataTable[e]
      BY DEF Size
    <3>2. ASSUME NEW k \in 1 .. pNVM_DataTable[e] PROVE g[p][a + k - 1] = f[p][a + k - 1]
      <4>1. a + k - 1 \in Cell /\ a + k - 1 \in Edge(f[p], last) .. Bottom - 1
        BY <1>1, <2>5, <3>1
      <4> QED
        BY <4>1
    <3> QED
      BY <3>2
  <2>7. ReadRecord(g, p, e, a) = ReadRecord(f, p, e, a)
    BY <2>6, Zenon DEF ReadRecord
  <2>8. NvRestoreData(g, p, last, e) = ReadRecord(g, p, e, a)
    BY <1>3, <1>5, <2>1, <2>4, <2>5 DEF NvRestoreData, MetasOf
  <2>9. NvRestoreData(f, p, last, e) = ReadRecord(f, p, e, a)
    BY <1>2, <1>5, <2>1, <2>4 DEF NvRestoreData, MetasOf
  <2> QED
    BY <2>7, <2>8, <2>9, Zenon
<1> QED
  BY <1>4, <1>5

(* The counters make none.                                                 *)
LEMMA RestoreSame ==
    ASSUME NEW f, NEW p, f[p] \in PageOfCells, MetasOk(f[p]), NEW last, PageOk(f[p], last), NEW e \in Entry,
           NEW g, \A x \in 1 .. Bottom - 1 : g[p][x] = f[p][x]
    PROVE  NvRestoreData(g, p, last, e) = NvRestoreData(f, p, last, e)
<1>1. Edge(f[p], last) \in 1 .. Bottom /\ last \in 0 .. Bottom - 1 /\ Bottom \in Nat /\ FirstMeta = 1
  <2>1. Edge(f[p], last) \in last + 1 .. Bottom
    BY EdgeFacts
  <2> QED
    BY <2>1, Sizes DEF PageOk, FirstMeta
<1>2. \A x \in Cell : x \in FirstMeta .. last \/ x \in Edge(f[p], last) .. Bottom - 1 => g[p][x] = f[p][x]
  BY <1>1
<1> QED
  BY <1>2, RestoreBetween

LEMMA CounterKeeps ==
    ASSUME Types, Switched, UNCHANGED ramState, NEW f, f = flash', f[OtherPage] = flash[OtherPage],
           \A x \in 1 .. Bottom - 1 : f[mNvActivePageId][x] = flash[mNvActivePageId][x]
    PROVE  /\ mNvModuleInitialized' /\ mNvActivePageId' = mNvActivePageId /\ OtherPage' = OtherPage
           /\ LastActive' = LastActive /\ mNvPageCounter' = mNvPageCounter
           /\ Valid(f, OtherPage) /\ f[OtherPage][0].n < mNvPageCounter
           /\ PageOk(f[OtherPage], NvLastMetaInfoAddress'[OtherPage])
           /\ PageOk(f[mNvActivePageId], LastActive)
           /\ Fresh' /\ SameData' /\ ToErase' /\ (NoMetas(f[mNvActivePageId]) <=> NoMetas(f[OtherPage]))
<1>1. PICK p, q, g, h, last, m :
          p = mNvActivePageId /\ q = OtherPage /\ g = flash[p] /\ h = flash[q] /\ last = LastActive
          /\ m = NvLastMetaInfoAddress[q]
  OBVIOUS
<1>2. /\ mNvModuleInitialized /\ p \in Page /\ q \in Page
      /\ Valid(flash, q) /\ h[0].n < mNvPageCounter /\ PageOk(h, m) /\ PageOk(g, last) /\ Fresh /\ SameData /\ ToErase
      /\ FlashTypes(flash)
  BY <1>1, Other DEF Switched, Types
<1>3. /\ mNvModuleInitialized' = mNvModuleInitialized /\ mNvActivePageId' = p /\ OtherPage' = q /\ LastActive' = last
      /\ mNvPageCounter' = mNvPageCounter /\ NvLastMetaInfoAddress'[q] = m /\ flash' = f
      /\ mNvErasePgCmdStatus' = mNvErasePgCmdStatus
  BY <1>1 DEF ramState, OtherPage, LastActive
<1>4. g \in PageOfCells /\ MetasOk(g) /\ h \in PageOfCells /\ MetasOk(h) /\ f[q] = h
      /\ \A x \in 1 .. Bottom - 1 : f[p][x] = g[x]
  BY <1>1, <1>2, PageTypes
<1>5. /\ Bottom \in Nat /\ Cell = 0 .. Bottom /\ FirstMeta = 1 /\ last \in 0 .. Bottom - 1
      /\ Edge(g, last) \in last + 1 .. Bottom
  <2>1. Edge(g, last) \in last + 1 .. Bottom
    BY <1>2, <1>4, EdgeFacts
  <2> QED
    BY <1>2, <2>1, Sizes DEF Cell, FirstMeta, PageOk
<1>6. PageOk(f[p], last) /\ Edge(f[p], last) = Edge(g, last)
  <2>1. \A a \in Cell : a \in FirstMeta .. last \/ a \in Edge(g, last) .. Bottom - 1 => f[p][a] = g[a]
    BY <1>4, <1>5
  <2>2. ASSUME NEW a \in last + 1 .. Edge(g, last) - 1 PROVE ~Is(f[p][a], "meta")
    <3>1. a \in FirstMeta .. Bottom - 1 /\ ~(a <= last) /\ f[p][a] = g[a]
      BY <1>4, <1>5
    <3> QED
      BY <1>2, <3>1 DEF PageOk
  <2> QED
    BY <1>2, <1>4, <2>1, <2>2, BetweenKeepsPage
<1>7. NoMetas(f[p]) <=> NoMetas(g)
  BY <1>4, <1>5 DEF NoMetas
<1>8. Fresh'
  <2>1. \A a \in last + 1 .. Edge(g, last) - 1 : g[a] = BLANK
    BY <1>1, <1>2 DEF Fresh
  <2>2. \A a \in last + 1 .. Edge(g, last) - 1 : f[p][a] = BLANK
    BY <1>4, <1>5, <2>1
  <2>3. \A e \in Entry : Size(e) + 2 < Edge(g, last) - (last + 1)
    BY <1>1, <1>2 DEF Fresh
  <2> QED
    BY <1>3, <1>6, <2>2, <2>3 DEF Fresh
<1>9. SameData'
  <2>1. (NoMetas(g) <=> NoMetas(h)) /\ \A e \in Entry : NvRestoreData(flash, p, last, e) = NvRestoreData(flash, q, m, e)
    BY <1>1, <1>2, Zenon DEF SameData
  <2>2. ASSUME NEW e \in Entry
        PROVE  NvRestoreData(f, p, last, e) = NvRestoreData(f, q, m, e)
    <3>1. NvRestoreData(f, p, last, e) = NvRestoreData(flash, p, last, e)
      BY <1>1, <1>2, <1>4, RestoreSame
    <3>2. NvRestoreData(f, q, m, e) = NvRestoreData(flash, q, m, e)
      BY <1>1, <1>2, <1>4, RestoreSame
    <3> QED
      BY <2>1, <3>1, <3>2, Zenon
  <2>3. NoMetas(f[p]) <=> NoMetas(f[q])
    BY <1>4, <1>7, <2>1, Zenon
  <2> QED
    BY <1>3, <2>2, <2>3, Zenon DEF SameData
<1>10. ToErase'
  BY <1>1, <1>2, <1>3 DEF ToErase
<1>11. Valid(f, q) /\ f[q][0].n < mNvPageCounter /\ PageOk(f[q], NvLastMetaInfoAddress'[q])
  BY <1>1, <1>2, <1>3, <1>4, Zenon DEF Valid
<1>12. NoMetas(f[p]) <=> NoMetas(f[q])
  BY <1>1, <1>2, <1>4, <1>7, Zenon DEF SameData
<1> QED
  BY <1>1, <1>2, <1>3, <1>6, <1>8, <1>9, <1>10, <1>11, <1>12, Zenon

LEMMA FirstCounterStep ==
    ASSUME FlashInv, FlashProgram, AtFirstCounter
    PROVE  FlashInv'
<1>1. /\ Types /\ Switched /\ mNvActivePageId \in Page /\ OtherPage \in Page
      /\ FlashTypes(flash) /\ FlashOk(flash) /\ mNvPageCounter \in Nat
      /\ Head(todo) = Program(mNvActivePageId, 0, <<Counter(mNvPageCounter)>>)
      /\ Top(Rest, "program") /\ Head(Rest) = Program(mNvActivePageId, Bottom, <<Counter(mNvPageCounter)>>)
      /\ Caller(Tail(Rest))
  BY Other DEF FlashInv, AtFirstCounter, Switched, Types
<1>2. PICK p, q, g, n, c :
          p = mNvActivePageId /\ q = OtherPage /\ g = flash[p] /\ n = mNvPageCounter /\ c = Counter(n)
  OBVIOUS
<1>3. Bottom \in Nat /\ 4 < Bottom /\ Cell = 0 .. Bottom /\ 0 \in Cell /\ Bottom \in Cell
  BY Sizes DEF Cell
<1>4. c \in CellValue /\ MetaOk(c, 0) /\ c # BLANK
  BY <1>1, <1>2, CellFacts DEF MetaOk
<1>5. PICK f : f = flash'
  OBVIOUS
<1>6. /\ FlashTypes(f) /\ stored' = Restored(f) /\ todo' = Rest /\ todo # << >>
      /\ \A x \in Page \ {p} : f[x] = flash[x]
      /\ f[p] = [g EXCEPT ![0] = c] /\ g \in PageOfCells
      /\ UNCHANGED <<ramState, mNvCriticalSectionFlag, ram, boot, requested>>
  <2>1. Head(todo) = Program(p, 0, <<c>>) /\ p \in Page
    BY <1>1, <1>2
  <2> QED
    BY <1>2, <1>3, <1>4, <1>5, <2>1, BecomesCell
<1>7. f[p][0] = c /\ f[p][Bottom] = BLANK /\ f[q] = flash[q] /\ \A x \in 1 .. Bottom - 1 : f[p][x] = g[x]
  <2>1. g[Bottom] = BLANK
    BY <1>1, <1>2 DEF Switched
  <2>2. f[q] = flash[q]
    BY <1>1, <1>2, <1>6, Other
  <2> QED
    BY <1>3, <1>6, <2>1, <2>2 DEF PageOfCells
<1>8. FlashOk(f)
  <2>1. ~Valid(f, p) /\ p \in Page
    BY <1>1, <1>2, <1>4, <1>7 DEF Valid
  <2> QED
    BY <1>1, <1>6, <2>1, InvalidPage
<1>9. /\ mNvModuleInitialized' /\ mNvActivePageId' = p /\ OtherPage' = q
      /\ mNvPageCounter' = n
      /\ Valid(f, q) /\ f[q][0].n < n
      /\ PageOk(f[q], NvLastMetaInfoAddress'[q])
      /\ PageOk(f[p], LastActive')
      /\ Fresh' /\ SameData' /\ ToErase'
  BY <1>1, <1>2, <1>5, <1>6, <1>7, CounterKeeps
<1>10. Switched'
  BY <1>1, <1>2, <1>5, <1>7, <1>9 DEF Switched
<1>11. AtLastCounter'
  BY <1>1, <1>2, <1>5, <1>6, <1>7, <1>9, <1>10 DEF AtLastCounter, Top, Rest
<1> QED
  BY <1>5, <1>6, <1>8, <1>11, FlashStep DEF Phase

LEMMA LastCounterStep ==
    ASSUME FlashInv, FlashProgram, AtLastCounter
    PROVE  FlashInv'
<1>1. /\ Types /\ Switched /\ mNvActivePageId \in Page /\ OtherPage \in Page
      /\ FlashTypes(flash) /\ FlashOk(flash) /\ mNvPageCounter \in Nat
      /\ flash[mNvActivePageId][0] = Counter(mNvPageCounter)
      /\ Head(todo) = Program(mNvActivePageId, Bottom, <<Counter(mNvPageCounter)>>)
      /\ Caller(Rest)
  BY Other DEF FlashInv, AtLastCounter, Switched, Types
<1>2. PICK p, q, g, n, c :
          p = mNvActivePageId /\ q = OtherPage /\ g = flash[p] /\ n = mNvPageCounter /\ c = Counter(n)
  OBVIOUS
<1>3. Bottom \in Nat /\ 4 < Bottom /\ Cell = 0 .. Bottom /\ 0 \in Cell /\ Bottom \in Cell
  BY Sizes DEF Cell
<1>4. c \in CellValue /\ MetaOk(c, Bottom) /\ Is(c, "counter") /\ c.n = n
  BY <1>1, <1>2, CellFacts DEF MetaOk
<1>5. PICK f : f = flash'
  OBVIOUS
<1>6. /\ FlashTypes(f) /\ stored' = Restored(f) /\ todo' = Rest /\ todo # << >>
      /\ \A x \in Page \ {p} : f[x] = flash[x]
      /\ f[p] = [g EXCEPT ![Bottom] = c] /\ g \in PageOfCells
      /\ UNCHANGED <<ramState, mNvCriticalSectionFlag, ram, boot, requested>>
  <2>1. Head(todo) = Program(p, Bottom, <<c>>) /\ p \in Page
    BY <1>1, <1>2
  <2> QED
    BY <1>2, <1>3, <1>4, <1>5, <2>1, BecomesCell
<1>7. f[p][0] = c /\ f[p][Bottom] = c /\ f[q] = flash[q] /\ \A x \in 1 .. Bottom - 1 : f[p][x] = g[x]
  <2>1. g[0] = c
    BY <1>1, <1>2
  <2>2. f[q] = flash[q]
    BY <1>1, <1>2, <1>6, Other
  <2> QED
    BY <1>3, <1>6, <2>1, <2>2 DEF PageOfCells
<1>8. /\ mNvModuleInitialized' /\ mNvActivePageId' = p /\ OtherPage' = q
      /\ mNvPageCounter' = n
      /\ Valid(f, q) /\ f[q][0].n < n
      /\ PageOk(f[q], NvLastMetaInfoAddress'[q])
      /\ PageOk(f[p], LastActive')
      /\ Fresh' /\ SameData' /\ ToErase' /\ (NoMetas(f[p]) <=> NoMetas(f[q]))
  BY <1>1, <1>2, <1>5, <1>6, <1>7, CounterKeeps
<1>9. Valid(f, p) /\ f[p][0].n = n
  BY <1>4, <1>7 DEF Valid
<1>10. FlashOk(f)
  <2>1. Page = {p, q} /\ p # q
    BY <1>1, <1>2, Other
  <2>2. \A x \in Page : \E last \in 0 .. Bottom - 1 : PageOk(f[x], last)
    BY <1>8, <2>1 DEF PageOk
  <2>3. PICK k : k = f[q][0].n
    OBVIOUS
  <2>4. k < n /\ k \in Nat
    <3>1. f[q] \in PageOfCells
      BY <1>1, <1>2, <1>6, PageTypes
    <3>2. f[q][0] \in CellValue
      BY <1>3, <3>1 DEF PageOfCells
    <3> QED
      BY <1>8, <2>3, <3>2, CellFacts DEF Valid
  <2>5. k # n /\ ~(k > n) /\ n > k
    BY <1>1, <1>2, <2>4
  <2> QED
    BY <1>8, <1>9, <2>1, <2>2, <2>3, <2>5 DEF FlashOk
<1>11. RamOk(LastActive)'
  BY <1>1, <1>2, <1>5, <1>7, <1>8, <1>9 DEF RamOk
<1>12. AtCopied'
  BY <1>1, <1>6, <1>8, <1>11 DEF AtCopied
<1> QED
  BY <1>5, <1>6, <1>10, <1>12, FlashStep DEF Phase

(* The same of the next state.                                             *)
LEMMA FormattedImplied ==
    mNvPageCounter \in Nat /\ mNvActivePageId = 0 /\ flash[1] = BlankPage /\ flash[0] = FormattedPage
       => Valid(flash, 0) /\ ~Valid(flash, 1) /\ PageOk(flash[0], 0)
BY FormattedPageOk

LEMMA FormattedNext ==
    (mNvPageCounter \in Nat /\ mNvActivePageId = 0 /\ flash[1] = BlankPage /\ flash[0] = FormattedPage)'
       => (Valid(flash, 0) /\ ~Valid(flash, 1) /\ PageOk(flash[0], 0))'
BY FormattedImplied, PTL

LEMMA FormatCounterStep ==
    ASSUME FlashInv, FlashProgram, AtFormatCounter
    PROVE  FlashInv'
<1>1. /\ Types /\ FlashOk(flash) /\ ~mNvErasePgCmdStatus.pending /\ mNvActivePageId = 0 /\ flash[1] = BlankPage
      /\ mNvPageCounter \in Nat /\ 0 \in Page /\ 1 \in Page /\ Page \ {0} = {1} /\ Page = {0, 1}
  BY DEF FlashInv, AtFormatCounter, Types, Page
<1>2. PICK s \in {<<Call("formatted")>>, <<Call("init")>>, <<Call("return")>>} :
          /\ FormatCaller(s)
          /\ \/ flash[0] = BlankPage /\ todo = Formatted(s)
             \/ flash[0] = [BlankPage EXCEPT ![0] = Counter(mNvPageCounter)] /\ todo = Tail(Formatted(s))
  BY DEF AtFormatCounter
<1>3. PICK n, c, g : n = mNvPageCounter /\ c = Counter(n) /\ g = flash[0]
  OBVIOUS
<1>4. Bottom \in Nat /\ 4 < Bottom /\ Cell = 0 .. Bottom /\ 0 \in Cell /\ Bottom \in Cell
  BY Sizes DEF Cell
<1>5. c \in CellValue /\ MetaOk(c, 0) /\ MetaOk(c, Bottom) /\ c # BLANK
  BY <1>1, <1>3, CellFacts DEF MetaOk
<1>6. PICK x : s = <<x>>
  BY <1>2
<1>7. /\ Head(Formatted(s)) = Program(0, 0, <<c>>)
      /\ Tail(Formatted(s)) # << >>
      /\ Head(Tail(Formatted(s))) = Program(0, Bottom, <<c>>)
      /\ LET u == Tail(Tail(Formatted(s))) IN
         u # << >> /\ Head(u) = Call("NvUpdateLastMetaInfoAddress") /\ Tail(u) = s
  BY <1>3, <1>6, FormattedStack, Zenon
<1>8. ASSUME UNCHANGED ramState
      PROVE  /\ UNCHANGED <<mNvErasePgCmdStatus, mNvActivePageId, mNvPageCounter>>
             /\ Formatted(s)' = Formatted(s) /\ FormatCaller(s)'
  BY <1>2, <1>8, FormatCallers DEF ramState, Formatted
<1>9. PICK f : f = flash'
  OBVIOUS
<1>10. CASE g = BlankPage /\ todo = Formatted(s)
  <2>1. /\ FlashTypes(f) /\ stored' = Restored(f) /\ todo' = Rest /\ todo # << >>
        /\ \A y \in Page \ {0} : f[y] = flash[y]
        /\ f[0] = [g EXCEPT ![0] = c]
        /\ UNCHANGED <<ramState, mNvCriticalSectionFlag, ram, boot, requested>>
    <3>1. Head(todo) = Program(0, 0, <<c>>)
      BY <1>7, <1>10
    <3> QED
      BY <1>1, <1>3, <1>4, <1>5, <1>9, <3>1, BecomesCell
  <2>2. f[0] = [BlankPage EXCEPT ![0] = c] /\ f[1] = BlankPage
    BY <1>1, <1>10, <2>1
  <2>3. FlashOk(f)
    <3>1. f[0][0] = c /\ f[0][Bottom] = BLANK
      BY <2>2, FormatFlash
    <3>2. ~Valid(f, 0)
      BY <1>5, <3>1 DEF Valid
    <3> QED
      BY <1>1, <2>1, <3>2, InvalidPage
  <2>4. AtFormatCounter'
    <3>1. todo' = Tail(Formatted(s)') /\ FormatCaller(s)' /\ mNvActivePageId' = 0 /\ ~mNvErasePgCmdStatus'.pending
      BY <1>1, <1>8, <1>10, <2>1 DEF Rest
    <3>2. flash'[0] = [BlankPage EXCEPT ![0] = Counter(mNvPageCounter')] /\ flash'[1] = BlankPage
      BY <1>3, <1>8, <1>9, <2>1, <2>2
    <3> QED
      BY <1>2, <3>1, <3>2 DEF AtFormatCounter
  <2> QED
    BY <1>9, <2>1, <2>3, <2>4, FlashStep DEF Phase
<1>11. CASE g = [BlankPage EXCEPT ![0] = c] /\ todo = Tail(Formatted(s))
  <2>1. /\ FlashTypes(f) /\ stored' = Restored(f) /\ todo' = Rest /\ todo # << >>
        /\ \A y \in Page \ {0} : f[y] = flash[y]
        /\ f[0] = [g EXCEPT ![Bottom] = c]
        /\ UNCHANGED <<ramState, mNvCriticalSectionFlag, ram, boot, requested>>
    <3>1. Head(todo) = Program(0, Bottom, <<c>>)
      BY <1>7, <1>11
    <3> QED
      BY <1>1, <1>3, <1>4, <1>5, <1>9, <3>1, BecomesCell
  <2>2. f[0] = [BlankPage EXCEPT ![0] = c, ![Bottom] = c] /\ f[1] = BlankPage
    BY <1>1, <1>11, <2>1
  <2>3. mNvPageCounter' = n /\ mNvActivePageId' = 0 /\ flash' = f
    BY <1>1, <1>3, <1>8, <1>9, <2>1
  <2>4. flash'[0] = FormattedPage'
    BY <1>3, <2>2, <2>3 DEF FormattedPage
  <2>5. Valid(f, 0) /\ ~Valid(f, 1) /\ PageOk(f[0], 0)
    BY <1>1, <1>3, <2>2, <2>3, <2>4, FormattedNext
  <2>6. FlashOk(f)
    <3>1. 0 \in 0 .. Bottom - 1
      BY <1>4
    <3> QED
      BY <1>1, <2>5, <3>1 DEF FlashOk
  <2>7. AtUpdate'
    <3>1. todo' = Tail(Tail(Formatted(s))) /\ FormatCaller(s)' /\ ~mNvErasePgCmdStatus'.pending
      BY <1>1, <1>8, <1>11, <2>1 DEF Rest
    <3>2. /\ todo' # << >> /\ Head(todo') = Call("NvUpdateLastMetaInfoAddress") /\ Tail(todo') = s
      BY <1>7, <3>1
    <3>3. Head(todo').op = "NvUpdateLastMetaInfoAddress"
      BY <3>2 DEF Call
    <3>4. FormatCaller(Rest)'
      BY <3>1, <3>2, Zenon DEF FormatCaller, Rest
    <3> QED
      BY <2>2, <2>3, <2>4, <3>1, <3>2, <3>3, <3>4 DEF AtUpdate, Top
  <2> QED
    BY <1>9, <2>1, <2>6, <2>7, FlashStep DEF Phase
<1> QED
  BY <1>2, <1>3, <1>10, <1>11

LEMMA FlashProgramStep ==
    ASSUME FlashInv, FlashProgram
    PROVE  FlashInv'
<1>1. todo # << >> /\ Head(todo).op = "program" /\ Phase
  BY DEF FlashProgram, Running, FlashInv
<1>2. AtRecord \/ AtMeta \/ AtCopyRecord \/ AtCopyMeta \/ AtFirstCounter \/ AtLastCounter \/ AtFormatCounter
  BY <1>1, PhaseOf DEF QuietNames
<1> QED
  BY <1>2, ProgramRecordStep, ProgramMetaStep, CopyRecordStep, CopyMetaStep, FirstCounterStep, LastCounterStep,
     FormatCounterStep

-----------------------------------------------------------------------------
(* The calls of the application.                                           *)
LEMMA AtRest ==
    ASSUME FlashInv, todo = << >>
    PROVE  /\ AtQuiet /\ Types /\ BootOk
           /\ mNvModuleInitialized => RamOk(LastActive) /\ EraseOk
BY PhaseOf DEF FlashInv, AtQuiet

LEMMA EnterStep ==
    ASSUME FlashInv, NEW calls, Enter(calls), ram' \in [Entry -> Value], Quiet(calls),
           mNvModuleInitialized \/ calls \in {<<Call("NvIdle")>>, <<Call("NvShutdown")>>}
    PROVE  FlashInv'
<1>1. /\ boot = "ok" /\ todo = << >> /\ todo' = calls
      /\ UNCHANGED <<flash, stored, ramState, mNvCriticalSectionFlag, boot, requested>>
  BY DEF Enter
<1>2. /\ AtQuiet /\ Types /\ BootOk
      /\ mNvModuleInitialized => RamOk(LastActive) /\ EraseOk
  BY <1>1, AtRest
<1>3. /\ UNCHANGED <<mNvActivePageId, mNvPageCounter, mNvModuleInitialized, NvLastMetaInfoAddress, mNvErasePgCmdStatus>>
  BY <1>1 DEF ramState
<1>4. mNvModuleInitialized' => RamOk(LastActive)' /\ EraseOk'
  BY <1>1, <1>2, <1>3, ActiveFrame, EraseFrame
<1>5. ~mNvModuleInitialized' => todo' \in {<< >>, <<Call("NvIdle")>>, <<Call("NvShutdown")>>}
  BY <1>1, <1>3
<1>6. AtQuiet'
  BY <1>1, <1>4, <1>5 DEF AtQuiet
<1>7. Types' /\ BootOk'
  BY <1>1, <1>2 DEF Types, BootOk, ramState
<1> QED
  BY <1>1, <1>6, <1>7, RestStep DEF Phase

LEMMA SaveCalls ==
    ASSUME FlashInv, CallNvAtomicSave \/ \E e \in Entry, v \in Value : CallSave(e, v)
    PROVE  FlashInv'
<1>1. ram \in [Entry -> Value]
  BY DEF FlashInv, Types
<1>2. CASE CallNvAtomicSave
  <2>1. PICK calls : calls = <<Call("NvAtomicSave")>>
    OBVIOUS
  <2>2. Quiet(calls)
    <3>1. Quiet(<<Call("NvAtomicSave")>> \o << >>)
      BY QuietPush, QuietOps, QuietEmpty
    <3> QED
      BY <2>1, <3>1, StackPair, Zenon
  <2>3. Enter(calls) /\ mNvModuleInitialized /\ ram' = ram
    BY <1>2, <2>1 DEF CallNvAtomicSave, Saves
  <2> QED
    BY <1>1, <2>2, <2>3, EnterStep
<1>3. ASSUME NEW e \in Entry, NEW v \in Value, CallSave(e, v) PROVE FlashInv'
  <2>1. PICK op \in {SyncSave(e, e), CallFor("NvAddSaveRequestToQueue", e)} :
            Enter(<<op>>) /\ mNvModuleInitialized /\ ram' = [ram EXCEPT ![e] = v]
    BY <1>3 DEF CallSave, Saves
  <2>2. PICK calls : calls = <<op>>
    OBVIOUS
  <2>3. Quiet(calls)
    <3>1. Quiet(<<op>> \o << >>)
      BY QuietPush, QuietOps, QuietEmpty
    <3> QED
      BY <2>2, <3>1, StackPair, Zenon
  <2>4. ram' \in [Entry -> Value]
    BY <1>1, <2>1
  <2>5. Enter(calls)
    BY <2>1, <2>2
  <2> QED
    BY <2>1, <2>3, <2>4, <2>5, EnterStep
<1> QED
  BY <1>2, <1>3

LEMMA IdleCalls ==
    ASSUME FlashInv, CallNvIdle \/ CallNvCompletePendingOperations \/ CallNvShutdown
    PROVE  FlashInv'
<1>1. ram \in [Entry -> Value]
  BY DEF FlashInv, Types
<1>2. ASSUME NEW name \in {"NvIdle", "NvShutdown"}, Enter(<<Call(name)>>), UNCHANGED ram
      PROVE  FlashInv'
  <2>1. PICK calls : calls = <<Call(name)>>
    OBVIOUS
  <2>2. Quiet(calls)
    <3>1. Quiet(<<Call(name)>> \o << >>)
      BY QuietPush, QuietOps, QuietEmpty
    <3> QED
      BY <2>1, <3>1, StackPair, Zenon
  <2>3. Enter(calls) /\ calls \in {<<Call("NvIdle")>>, <<Call("NvShutdown")>>}
    BY <1>2, <2>1
  <2>4. ram' \in [Entry -> Value]
    BY <1>1, <1>2
  <2> QED
    BY <2>2, <2>3, <2>4, EnterStep
<1>3. CASE CallNvIdle
  BY <1>2, <1>3 DEF CallNvIdle
<1>4. CASE CallNvShutdown
  BY <1>2, <1>4 DEF CallNvShutdown
<1>5. CASE CallNvCompletePendingOperations
  <2>1. PICK a, b : a = Call("NvIdle") /\ b = Call("NvCompletePendingOperations")
    OBVIOUS
  <2>2. PICK calls : calls = <<a, b>>
    OBVIOUS
  <2>3. Quiet(calls)
    <3>1. a \in QuietOp /\ b \in QuietOp
      BY <2>1, QuietOps
    <3>2. Quiet(<<b>> \o << >>)
      BY <3>1, QuietPush, QuietEmpty
    <3>3. Quiet(<<b>>)
      BY <3>2, StackPair, Zenon
    <3>4. Quiet(<<a>> \o <<b>>)
      BY <3>1, <3>3, QuietPush
    <3> QED
      BY <2>2, <3>4, StackPair, Zenon
  <2>4. Enter(calls) /\ mNvModuleInitialized /\ ram' = ram
    BY <1>5, <2>1, <2>2 DEF CallNvCompletePendingOperations
  <2> QED
    BY <1>1, <2>3, <2>4, EnterStep
<1> QED
  BY <1>3, <1>4, <1>5

LEMMA FormatCall ==
    ASSUME FlashInv, NoFormatWhileErasing, CallNvFormat
    PROVE  FlashInv'
<1>1. PICK n : n = flash[mNvActivePageId][0].n
  OBVIOUS
<1>2. /\ ~mNvErasePgCmdStatus.pending /\ mNvModuleInitialized /\ boot = "ok" /\ todo = << >>
      /\ todo' = <<InternalFormat(n), Call("formatted")>>
      /\ UNCHANGED <<flash, stored, ramState, mNvCriticalSectionFlag, ram, boot, requested>>
  BY <1>1 DEF CallNvFormat, Saves, Enter, NoFormatWhileErasing
<1>3. Types /\ BootOk /\ RamOk(LastActive)
  BY <1>2, AtRest
<1>4. n \in Nat
  BY <1>1, <1>3, CellFacts DEF RamOk, Types
<1>5. PICK x : x = Call("formatted")
  OBVIOUS
<1>6. mNvModuleInitialized' /\ ~mNvErasePgCmdStatus'.pending
  BY <1>2 DEF ramState
<1>7. AtFormat'
  <2>1. todo' = <<InternalFormat(n), x>>
    BY <1>2, <1>5
  <2>2. FormatCaller(<<x>>)'
    BY <1>5, <1>6 DEF FormatCaller
  <2> QED
    BY <1>4, <1>6, <2>1, <2>2, ToFormat
<1>8. Types' /\ BootOk'
  BY <1>2, <1>3 DEF Types, BootOk, ramState
<1> QED
  BY <1>2, <1>7, <1>8, RestStep DEF Phase

(* What is read back is a value of the data set.                           *)
LEMMA RestoreCall ==
    ASSUME FlashInv, NEW e \in Entry, NvRestoreDataSet(e)
    PROVE  FlashInv'
<1>1. PICK v : v = NvRestoreData(flash, mNvActivePageId, LastActive, e)
  OBVIOUS
<1>2. /\ boot = "ok" /\ mNvModuleInitialized /\ todo = << >> /\ todo' = todo
      /\ v # NONE /\ ram' = [ram EXCEPT ![e] = v]
      /\ UNCHANGED <<flash, stored, ramState, mNvCriticalSectionFlag, boot, requested>>
  BY <1>1 DEF NvRestoreDataSet, LastActive
<1>3. AtQuiet /\ Types /\ BootOk /\ RamOk(LastActive)
  BY <1>2, AtRest
<1>4. v \in Value
  <2>1. flash[mNvActivePageId] \in PageOfCells /\ PageOk(flash[mNvActivePageId], LastActive)
    BY <1>3, PageTypes DEF Types, RamOk
  <2>2. \/ v = NONE
        \/ \E w \in Value : v = w
    BY <1>1, <2>1, ReadBack
  <2> QED
    BY <1>2, <2>2
<1>5. Types' /\ BootOk'
  <2>1. ram' \in [Entry -> Value]
    BY <1>2, <1>3, <1>4 DEF Types
  <2> QED
    BY <1>2, <1>3, <2>1 DEF Types, BootOk, ramState
<1>6. AtQuiet'
  <2>1. /\ UNCHANGED <<mNvActivePageId, mNvPageCounter, mNvModuleInitialized, NvLastMetaInfoAddress, mNvErasePgCmdStatus>>
    BY <1>2 DEF ramState
  <2>2. Quiet(todo')
    BY <1>2, QuietEmpty
  <2> QED
    BY <1>2, <1>3, <2>1, <2>2, StillQuiet
<1> QED
  BY <1>2, <1>5, <1>6, RestStep DEF Phase

-----------------------------------------------------------------------------
(* A step that leaves the storage and the call as they are.                *)
LEMMA PhaseFrame ==
    ASSUME Phase, UNCHANGED <<flash, ramState, todo>>
    PROVE  Phase'
<1>1. UNCHANGED <<flash, mNvActivePageId, mNvPageCounter, NvLastMetaInfoAddress, mNvCopyOperationIsPending,
                  mNvErasePgCmdStatus, mNvModuleInitialized, todo>>
  BY DEF ramState
<1>2. /\ LastActive' = LastActive /\ OtherPage' = OtherPage /\ Rest' = Rest
      /\ (RamOk(LastActive) => RamOk(LastActive)') /\ (Fresh => Fresh')
      /\ (EraseOk => EraseOk') /\ (ToErase => ToErase')
  BY <1>1, ActiveFrame, EraseFrame DEF Rest
<1>3. /\ \A e, r, m : Placed(e, r, m) => Placed(e, r, m)'
      /\ \A m : RamOk(m) => RamOk(m)'
      /\ \A o, p : ErasingFromStart(o, p) => ErasingFromStart(o, p)'
      /\ \A f : FormatCaller(f) => FormatCaller(f)'
      /\ \A f : Formatted(f)' = Formatted(f)
      /\ FormattedPage' = FormattedPage
  BY <1>1, <1>2 DEF Placed, RamOk, ErasingFromStart, FormatCaller, Formatted, FormattedPage, OtherPage
<1>4. CASE AtQuiet
  BY <1>1, <1>2, <1>4 DEF AtQuiet, Phase
<1>5. CASE AtRecord
  BY <1>1, <1>2, <1>3, <1>5 DEF AtRecord, Phase
<1>6. CASE AtMeta
  BY <1>1, <1>2, <1>3, <1>6 DEF AtMeta, Phase
<1>7. CASE AtWritten
  BY <1>1, <1>2, <1>3, <1>7 DEF AtWritten, Phase
<1>8. CASE AtCopyPage
  BY <1>1, <1>2, <1>8 DEF AtCopyPage, Phase
<1>9. CASE AtCopyErase
  <2>1. PICK o, p, l : o = Head(todo) /\ p = OtherPage /\ l = LastActive
    OBVIOUS
  <2>2. ErasingFromStart(o, p)
    BY <1>9, <2>1 DEF AtCopyErase
  <2>3. ErasingFromStart(o, p)'
    BY <1>3, <2>2
  <2>4. ErasingFromStart(Head(todo), OtherPage)'
    BY <1>1, <1>2, <2>1, <2>3
  <2> QED
    BY <1>1, <1>2, <1>9, <2>4 DEF AtCopyErase, Phase
<1>10. CASE AtCopy
  <2>1. PICK src \in Cell, dst \in Cell, record \in Cell :
            Head(todo) = CopyRecords(src, dst, record) /\ CopyOk(src, dst, record, record)
    BY <1>10 DEF AtCopy
  <2>2. CopyOk(src, dst, record, record)'
    BY <1>1, <2>1, CopyFrame
  <2> QED
    BY <1>1, <1>2, <1>10, <2>1, <2>2 DEF AtCopy, Phase
<1>11. CASE AtCopyRecord
  <2>1. PICK a \in Cell, dst \in Cell, to \in Cell, v \in Value, e \in Entry :
          /\ CopyNext(a, dst, to, v, e, to + Size(e))
          /\ Top(todo, "program") /\ Head(todo) = Program(OtherPage, to, Data(e, v))
          /\ Top(Rest, "program") /\ Head(Rest) = Program(OtherPage, dst, <<Meta(e, to)>>)
          /\ Top(Tail(Rest), "copy records") /\ Head(Tail(Rest)) = CopyRecords(a - 1, dst + 1, to)
          /\ Caller(Tail(Tail(Rest)))
    BY <1>11 DEF AtCopyRecord
  <2>2. CopyNext(a, dst, to, v, e, to + Size(e))'
    BY <1>1, <2>1, CopyNextFrame
  <2>3. /\ RamOk(LastActive)' /\ EraseOk'
        /\ Top(todo', "program") /\ Head(todo') = Program(OtherPage', to, Data(e, v))
        /\ Top(Rest', "program") /\ Head(Rest') = Program(OtherPage', dst, <<Meta(e, to)>>)
        /\ Top(Tail(Rest'), "copy records") /\ Head(Tail(Rest')) = CopyRecords(a - 1, dst + 1, to)
        /\ Caller(Tail(Tail(Rest')))
    BY <1>1, <1>2, <1>11, <2>1, Zenon DEF AtCopyRecord
  <2>4. AtCopyRecord'
    BY <2>2, <2>3 DEF AtCopyRecord
  <2> QED
    BY <2>4 DEF Phase
<1>12. CASE AtCopyMeta
  <2>1. PICK a \in Cell, dst \in Cell, to \in Cell, v \in Value, e \in Entry :
          /\ CopyNext(a, dst, to, v, e, to) /\ Holds(flash[OtherPage], e, v, to)
          /\ Top(todo, "program") /\ Head(todo) = Program(OtherPage, dst, <<Meta(e, to)>>)
          /\ Top(Rest, "copy records") /\ Head(Rest) = CopyRecords(a - 1, dst + 1, to)
          /\ Caller(Tail(Rest))
    BY <1>12 DEF AtCopyMeta
  <2>2. CopyNext(a, dst, to, v, e, to)'
    BY <1>1, <2>1, CopyNextFrame
  <2> QED
    BY <1>1, <1>2, <1>12, <2>1, <2>2 DEF AtCopyMeta, Phase
<1>13. CASE AtFirstCounter \/ AtLastCounter
  <2>1. Switched
    BY <1>13 DEF AtFirstCounter, AtLastCounter
  <2>2. SameData'
    BY <1>1, <1>2, <2>1 DEF SameData, Switched
  <2>3. Switched'
    BY <1>1, <1>2, <2>1, <2>2 DEF Switched
  <2> QED
    BY <1>1, <1>2, <1>13, <2>3 DEF AtFirstCounter, AtLastCounter, Phase
<1>14. CASE AtCopied
  BY <1>1, <1>2, <1>14 DEF AtCopied, Phase
<1>15. CASE AtSyncErase
  <2>1. PICK o, p : o = Head(todo) /\ p = OtherPage
    OBVIOUS
  <2>2. ErasingFromStart(o, p)
    BY <1>15, <2>1 DEF AtSyncErase
  <2>3. ErasingFromStart(o, p)'
    BY <1>3, <2>2
  <2>4. ErasingFromStart(Head(todo), OtherPage)'
    BY <1>1, <1>2, <2>1, <2>3
  <2> QED
    BY <1>1, <1>2, <1>15, <2>4 DEF AtSyncErase, Phase
<1>16. CASE AtErased
  BY <1>1, <1>2, <1>16 DEF AtErased, Phase
<1>17. CASE AtSecond
  BY <1>1, <1>2, <1>17 DEF AtSecond, Phase
<1>18. CASE AtIdleErase
  BY <1>1, <1>2, <1>18 DEF AtIdleErase, Phase
<1>19. CASE AtFormat
  <2>1. FormatCaller(Rest)'
    BY <1>1, <1>2, <1>19 DEF AtFormat, FormatCaller
  <2> QED
    BY <1>1, <1>2, <1>19, <2>1 DEF AtFormat, Phase
<1>20. CASE AtFormatErase
  <2>1. PICK o : o = Head(todo)
    OBVIOUS
  <2>2. PICK f \in {<<Call("formatted")>>, <<Call("init")>>, <<Call("return")>>} :
          /\ FormatCaller(f)
          /\ \/ ErasingFromStart(o, 0) /\ Rest = <<Erase(1)>> \o Formatted(f)
             \/ flash[0] = BlankPage /\ ErasingFromStart(o, 1) /\ Rest = Formatted(f)
    BY <1>20, <2>1 DEF AtFormatErase
  <2>3. /\ FormatCaller(f)' /\ Formatted(f)' = Formatted(f)
        /\ ErasingFromStart(o, 0) => ErasingFromStart(o, 0)'
        /\ ErasingFromStart(o, 1) => ErasingFromStart(o, 1)'
    BY <1>3, <2>2
  <2>4. /\ ErasingFromStart(o, 0) => ErasingFromStart(Head(todo), 0)'
        /\ ErasingFromStart(o, 1) => ErasingFromStart(Head(todo), 1)'
    BY <1>1, <2>1, <2>3
  <2> QED
    BY <1>1, <1>2, <1>20, <2>2, <2>3, <2>4 DEF AtFormatErase, Phase
<1>21. CASE AtFormatCounter
  BY <1>1, <1>3, <1>21 DEF AtFormatCounter, Phase
<1>22. CASE AtUpdate
  <2>1. FormatCaller(Rest)'
    BY <1>1, <1>2, <1>22 DEF AtUpdate, FormatCaller
  <2> QED
    BY <1>1, <1>2, <1>3, <1>22, <2>1 DEF AtUpdate, Phase
<1>23. CASE AtFormatted
  BY <1>1, <1>2, <1>23 DEF AtFormatted, Phase
<1>24. CASE AtInit
  BY <1>1, <1>2, <1>24 DEF AtInit, Phase
<1>25. CASE AtReturn
  BY <1>1, <1>2, <1>25 DEF AtReturn, Phase
<1> QED
  BY <1>4, <1>5, <1>6, <1>7, <1>8, <1>9, <1>10, <1>11, <1>12, <1>13, <1>14, <1>15, <1>16, <1>17, <1>18, <1>19,
     <1>20, <1>21, <1>22, <1>23, <1>24, <1>25 DEF Phase

LEMMA FlagStep ==
    ASSUME FlashInv, mNvCriticalSectionFlag' \in Nat, UNCHANGED <<flash, stored, ramState, ram, boot, todo, requested>>
    PROVE  FlashInv'
<1>1. Phase'
  BY PhaseFrame DEF FlashInv
<1>2. Types' /\ BootOk'
  BY DEF FlashInv, Types, BootOk, ramState
<1> QED
  BY <1>1, <1>2, RestStep

(* The first flash is blank.                                               *)
LEMMA InitStored ==
    ASSUME Init
    PROVE  stored = Restored(flash)
<1>1. \A p \in Page : ~Valid(flash, p)
  <2>1. ASSUME NEW p \in Page PROVE flash[p][0] = BLANK
    BY Sectors DEF Init, BlankPage
  <2> QED
    BY <2>1, CellFacts DEF Valid
<1>2. ActivePage(flash) = gVirtualPageNone_c
  BY <1>1 DEF ActivePage, Page
<1>3. Restored(flash) = [e \in Entry |-> NONE]
  BY <1>2 DEF Restored
<1> QED
  BY <1>3 DEF Init

LEMMA InitHolds ==
    ASSUME Init
    PROVE  FlashInv
<1>1. flash = [p \in Page |-> BlankPage]
  BY DEF Init
<1>2. \A p \in Page, a \in Cell : flash[p][a] = BLANK
  BY <1>1, FormatFlash
<1>3. FlashTypes(flash)
  BY <1>1, <1>2, FormatFlash, CellFacts DEF FlashTypes, PageOfCells, MetaOk
<1>4. FlashOk(flash)
  <2>1. \A p \in Page : ~Valid(flash, p)
    BY <1>2, Sectors, CellFacts DEF Valid
  <2> QED
    BY <2>1 DEF FlashOk
<1>5. Types
  <2>1. Default \in Value
    BY NvStorageAssumption DEF Default
  <2>2. /\ 0 \in 0 .. Bottom - 1 /\ 0 \in 0 .. SECTORS /\ 0 \in Page /\ 0 \in Nat
    BY Sizes, Sectors DEF Page
  <2>3. << >> \in Seq(Entry \union {ALL})
    OBVIOUS
  <2> QED
    BY <1>3, <2>1, <2>2, <2>3 DEF Types, Init, gEmptyPageMetaAddress_c
<1>6. BootOk
  BY DEF BootOk, Init
<1>7. AtQuiet
  BY QuietEmpty DEF AtQuiet, Init
<1> QED
  BY <1>4, <1>5, <1>6, <1>7, InitStored DEF FlashInv, Phase

LEMMA NextKeeps ==
    ASSUME FlashInv, NoFormatWhileErasing, [Next]_vars
    PROVE  FlashInv'
<1>1. CASE PowerLoss
  BY <1>1, PowerLossStep
<1>2. CASE NvModuleInit
  BY <1>2, ModuleInitStep
<1>3. CASE Step
  <2>1. CASE FlashErase \/ FlashProgram
    BY <2>1, FlashEraseStep, FlashProgramStep
  <2>2. CASE NvWriteRecord \/ NvWriteRecord_written \/ NvCopyPage \/ NvInternalCopy \/ NvCopyPage_switch
    BY <2>2, WriteRecordStep, WrittenStep, CopyPageStep, InternalCopyStep, SwitchStep
  <2>3. CASE Copied \/ NvSyncSave_copied \/ NvSyncSave_erased
    BY <2>3, CopiedStep, SyncCopiedStep, SyncErasedStep
  <2>4. CASE NvInternalFormat \/ NvUpdateLastMetaInfoAddress \/ NvModuleInit_init \/ NvModuleInit_return
    BY <2>4, InternalFormatStep, UpdateStep, InitStep, ReturnStep
  <2>5. CASE NvAddSaveRequestToQueue \/ NvPushPendingSave \/ NvProcessFirstSaveInQueue \/ NvIdle_saves
    BY <2>5, QueueSteps, PopSteps
  <2>6. CASE NvSyncSave \/ NvAtomicSave \/ NvCompletePendingOperations
    BY <2>6, SyncSaveSteps
  <2>7. CASE NvIdle \/ NvIdle_erase \/ NvShutdown \/ NvFormat_formatted
    BY <2>7, IdleStep, IdleEraseStep, ShutdownStep, FormattedStep
  <2> QED
    BY <1>3, <2>1, <2>2, <2>3, <2>4, <2>5, <2>6, <2>7 DEF Step
<1>4. CASE CallNvAtomicSave \/ \E e \in Entry, v \in Value : CallSave(e, v)
  BY <1>4, SaveCalls
<1>5. CASE CallNvIdle \/ CallNvCompletePendingOperations \/ CallNvShutdown
  BY <1>5, IdleCalls
<1>6. CASE CallNvFormat
  BY <1>6, FormatCall
<1>7. CASE \E e \in Entry : NvRestoreDataSet(e)
  BY <1>7, RestoreCall
<1>8. mNvCriticalSectionFlag \in Nat
  BY DEF FlashInv, Types
<1>9. CASE NvSetCriticalSection \/ NvClearCriticalSection \/ UNCHANGED vars
  <2>1. mNvCriticalSectionFlag' \in Nat
    <3>1. CASE NvSetCriticalSection
      <4>1. mNvCriticalSectionFlag' = mNvCriticalSectionFlag + 1
        BY <3>1 DEF NvSetCriticalSection
      <4> QED
        BY <1>8, <4>1
    <3>2. CASE NvClearCriticalSection
      BY <1>8, <3>2 DEF NvClearCriticalSection
    <3>3. CASE UNCHANGED vars
      BY <1>8, <3>3 DEF vars
    <3> QED
      BY <1>9, <3>1, <3>2, <3>3
  <2>2. UNCHANGED <<flash, stored, ramState, ram, boot, todo, requested>>
    BY <1>9 DEF NvSetCriticalSection, NvClearCriticalSection, vars
  <2> QED
    BY <2>1, <2>2, FlagStep
<1> QED
  BY <1>1, <1>2, <1>3, <1>4, <1>5, <1>6, <1>7, <1>9 DEF Next

(* Whatever power failures left, every valid page is well formed: metas    *)
(* without a hole, each with a complete record that no other one overlaps; *)
(* the RAM knows the newer page, its counter and its last meta, and a call *)
(* is at one of the points where this is so.                               *)
THEOREM FlashInvariant ==
    ASSUME NoFormatWhileErasing
    PROVE  Spec => []FlashInv
<1>1. Init => FlashInv
  BY InitHolds
<1>2. FlashInv /\ [Next]_vars => FlashInv'
  BY NextKeeps
<1> QED
  BY <1>1, <1>2, PTL DEF Spec

-----------------------------------------------------------------------------
(* What the invariant says of the storage.                                 *)
LEMMA SparesActive ==
    ASSUME FlashInv
    PROVE  EraseSparesActive
<1>1. SUFFICES ASSUME todo = << >>, mNvErasePgCmdStatus.pending
               PROVE  mNvErasePgCmdStatus.page # mNvActivePageId
  BY DEF EraseSparesActive
<1>2. mNvModuleInitialized
  BY <1>1 DEF FlashInv, BootOk
<1>3. RamOk(LastActive) /\ EraseOk
  BY <1>1, <1>2, AtRest
<1> QED
  BY <1>1, <1>3, Other DEF RamOk, EraseOk

(* The page to erase is never the active one, for any number of power      *)
(* failures (NvCopyPage: "make a request to erase the old page").          *)
THEOREM ErasesTheOldPage ==
    ASSUME NoFormatWhileErasing
    PROVE  Spec => []EraseSparesActive
BY FlashInvariant, SparesActive, PTL

LEMMA SecondFits ==
    ASSUME FlashInv
    PROVE  FitsAfterCopy
<1>1. SUFFICES ASSUME Running("NvWriteRecord"), Head(todo).by \in {"again", "after copy"}
               PROVE  ~mNvCopyOperationIsPending /\ Room(Head(todo).entry) # {}
  BY DEF FitsAfterCopy
<1>2. /\ Types /\ RamOk(LastActive) /\ Head(todo).entry \in Entry
      /\ \/ Head(todo).by \in {"NvSyncSave", "NvIdle", "NvProcessFirstSaveInQueue"}
         \/ Fresh /\ ~mNvCopyOperationIsPending
  BY <1>1, WriteRunning
<1> QED
  BY <1>1, <1>2, RoomAfterCopy

(* After a page copy there is room for the record: NvWriteRecord never     *)
(* answers twice that a page copy is needed.                               *)
THEOREM SecondAttemptFits ==
    ASSUME NoFormatWhileErasing
    PROVE  Spec => []FitsAfterCopy
BY FlashInvariant, SecondFits, PTL

LEMMA BlankBefore ==
    ASSUME FlashInv
    PROVE  ProgramsBlankCells
<1>1. SUFFICES ASSUME Running("program"), NEW k \in DOMAIN Head(todo).cells
               PROVE  flash[Head(todo).page][Head(todo).address + k - 1] = BLANK
  BY DEF ProgramsBlankCells
<1>2. todo # << >> /\ Head(todo).op = "program" /\ Types
  BY <1>1 DEF Running, FlashInv
<1>3. AtRecord \/ AtMeta \/ AtCopyRecord \/ AtCopyMeta \/ AtFirstCounter \/ AtLastCounter \/ AtFormatCounter
  BY <1>2, PhaseOf DEF FlashInv, QuietNames
<1>4. ASSUME NEW p, NEW a, NEW cells, Head(todo) = Program(p, a, cells)
      PROVE  Head(todo).page = p /\ Head(todo).address = a /\ Head(todo).cells = cells
  <2>1. Program(p, a, cells).page = p /\ Program(p, a, cells).address = a /\ Program(p, a, cells).cells = cells
    BY DEF Program
  <2> QED
    BY <1>4, <2>1, Zenon
<1>5. ASSUME NEW p, NEW a \in Int, NEW c, Head(todo) = Program(p, a, <<c>>), flash[p][a] = BLANK
      PROVE  flash[Head(todo).page][Head(todo).address + k - 1] = BLANK
  <2>1. PICK cells : cells = <<c>>
    OBVIOUS
  <2>2. Head(todo).page = p /\ Head(todo).address = a /\ Head(todo).cells = cells
    BY <1>4, <1>5, <2>1
  <2>3. DOMAIN cells = {1}
    BY <2>1
  <2>4. k = 1 /\ a + k - 1 = a
    BY <2>2, <2>3
  <2> QED
    BY <1>5, <2>2, <2>4
<1>6. ASSUME NEW p, NEW a \in Int, NEW cells, Head(todo) = Program(p, a, cells),
             \A x \in DOMAIN cells : flash[p][a + x - 1] = BLANK
      PROVE  flash[Head(todo).page][Head(todo).address + k - 1] = BLANK
  <2>1. Head(todo).page = p /\ Head(todo).address = a /\ Head(todo).cells = cells
    BY <1>4, <1>6
  <2> QED
    BY <1>6, <2>1
<1>7. Cell \subseteq Int /\ Bottom \in Cell /\ 0 \in Cell /\ Cell = 0 .. Bottom /\ Bottom \in Nat /\ 4 < Bottom
  BY Sizes DEF Cell
<1>8. CASE AtRecord
  <2>1. PICK e \in Entry, v \in Value, r \in Cell, m \in Cell :
          /\ \A x \in 1 .. Size(e) : flash[mNvActivePageId][r + x - 1] = BLANK
          /\ Head(todo) = Program(mNvActivePageId, r, Data(e, v))
    BY <1>8 DEF AtRecord
  <2>2. PICK cells : cells = Data(e, v)
    OBVIOUS
  <2>3. DOMAIN cells = 1 .. Size(e)
    BY <2>2 DEF Data, Size
  <2>4. Head(todo) = Program(mNvActivePageId, r, cells) /\ r \in Int
    BY <1>7, <2>1, <2>2
  <2>5. \A x \in DOMAIN cells : flash[mNvActivePageId][r + x - 1] = BLANK
    BY <2>1, <2>3
  <2> QED
    BY <1>6, <2>4, <2>5
<1>9. CASE AtMeta
  BY <1>5, <1>7, <1>9 DEF AtMeta, Placed
<1>10. CASE AtCopyRecord
  <2>1. PICK a \in Cell, dst \in Cell, to \in Cell, v \in Value, e \in Entry :
          /\ CopyNext(a, dst, to, v, e, to + Size(e))
          /\ Head(todo) = Program(OtherPage, to, Data(e, v))
    BY <1>10 DEF AtCopyRecord
  <2>2. CopyOk(a, dst, to + Size(e), to + Size(e)) /\ to > dst
    BY <2>1 DEF CopyNext
  <2>3. Size(e) \in Nat /\ dst \in Int /\ to \in Int /\ RamOk(LastActive)
    BY <1>7, <1>10, Sizes DEF AtCopyRecord
  <2>4. to + Size(e) \in dst .. Bottom
    BY <1>2, <2>2, <2>3, CopiedSubset
  <2>5. \A x \in Cell : x \in dst .. to + Size(e) - 1 => flash[OtherPage][x] = BLANK
    <3>1. PICK free : free = to + Size(e)
      OBVIOUS
    <3>2. CopyOk(a, dst, free, free)
      BY <2>2, <3>1
    <3>3. \A x \in Cell : x = 0 \/ x \in dst .. free - 1 \/ x = Bottom => flash[OtherPage][x] = BLANK
      BY <3>2, Zenon DEF CopyOk
    <3>4. dst .. to + Size(e) - 1 = dst .. free - 1
      BY <2>3, <3>1
    <3> QED
      BY <3>3, <3>4, Zenon
  <2>6. \A x \in 1 .. Size(e) : to + x - 1 \in Cell /\ to + x - 1 \in dst .. to + Size(e) - 1
    BY <1>7, <2>2, <2>3, <2>4
  <2>7. \A x \in 1 .. Size(e) : flash[OtherPage][to + x - 1] = BLANK
    BY <2>5, <2>6
  <2>8. PICK cells : cells = Data(e, v)
    OBVIOUS
  <2>9. DOMAIN cells = 1 .. Size(e)
    BY <2>8 DEF Data, Size
  <2>10. Head(todo) = Program(OtherPage, to, cells)
    BY <2>1, <2>8
  <2>11. \A x \in DOMAIN cells : flash[OtherPage][to + x - 1] = BLANK
    BY <2>7, <2>9
  <2> QED
    BY <1>6, <2>3, <2>10, <2>11
<1>11. CASE AtCopyMeta
  <2>1. PICK a \in Cell, dst \in Cell, to \in Cell, v \in Value, e \in Entry :
          /\ CopyNext(a, dst, to, v, e, to)
          /\ Head(todo) = Program(OtherPage, dst, <<Meta(e, to)>>)
    BY <1>11 DEF AtCopyMeta
  <2>2. CopyOk(a, dst, to + Size(e), to) /\ to > dst /\ dst \in Int /\ to \in Int
    BY <1>7, <2>1 DEF CopyNext
  <2>3. dst \in dst .. to - 1
    BY <2>2
  <2>4. flash[OtherPage][dst] = BLANK
    BY <2>2, <2>3 DEF CopyOk
  <2> QED
    BY <1>5, <2>1, <2>2, <2>4
<1>12. CASE AtFirstCounter
  BY <1>5, <1>7, <1>12 DEF AtFirstCounter
<1>13. CASE AtLastCounter
  BY <1>5, <1>7, <1>13 DEF AtLastCounter, Switched
<1>14. CASE AtFormatCounter
  <2>1. PICK x : \/ flash[0] = BlankPage /\ todo = Formatted(<<x>>)
                 \/ /\ flash[0] = [BlankPage EXCEPT ![0] = Counter(mNvPageCounter)]
                    /\ todo = Tail(Formatted(<<x>>))
    BY <1>14 DEF AtFormatCounter
  <2>2. \/ Head(todo) = Program(0, 0, <<Counter(mNvPageCounter)>>) /\ flash[0][0] = BLANK
        \/ Head(todo) = Program(0, Bottom, <<Counter(mNvPageCounter)>>) /\ flash[0][Bottom] = BLANK
    BY <1>7, <2>1, FormattedStack, FormatFlash
  <2> QED
    BY <1>5, <1>7, <2>2
<1> QED
  BY <1>3, <1>8, <1>9, <1>10, <1>11, <1>12, <1>13, <1>14

(* A cell is programmed once between two erases, whatever power failures   *)
(* left in the page: no program command touches a cell that is not blank.  *)
THEOREM ProgramsOnlyBlank ==
    ASSUME NoFormatWhileErasing
    PROVE  Spec => []ProgramsBlankCells
BY FlashInvariant, BlankBefore, PTL

-----------------------------------------------------------------------------
(* What a restart finds.  Page p of flash f is the newest valid one, its   *)
(* last meta is at last.                                                   *)
Source(f, p, last) ==
    /\ p \in Page /\ Valid(f, p) /\ PageOk(f[p], last)
    /\ \A q \in Page \ {p} : Valid(f, q) => f[q][0].n < f[p][0].n
HasRoom(f) == \A p \in Page : Valid(f, p) => \E a \in FirstMeta .. Bottom - 1 : f[p][a] = BLANK

LEMMA CounterNat ==
    ASSUME NEW f, FlashTypes(f), NEW p \in Page, Valid(f, p)
    PROVE  f[p][0].n \in Nat
<1>1. f[p] \in PageOfCells
  BY PageTypes
<1>2. f[p][0] \in CellValue
  BY <1>1, Sectors DEF PageOfCells
<1> QED
  BY <1>2, CellFacts DEF Valid

LEMMA SourceActive ==
    ASSUME NEW f, FlashTypes(f), NEW p, NEW last, Source(f, p, last)
    PROVE  ActivePage(f) = p
<1>1. PICK m, n : m = f[0][0].n /\ n = f[1][0].n
  OBVIOUS
<1>2. (Valid(f, 0) => m \in Nat) /\ (Valid(f, 1) => n \in Nat)
  BY <1>1, CounterNat DEF Page
<1>3. CASE p = 0
  <2>1. Valid(f, 0) /\ (Valid(f, 1) => n < m)
    BY <1>1, <1>3 DEF Source, Page
  <2> QED
    BY <1>1, <1>2, <1>3, <2>1 DEF ActivePage
<1>4. CASE p = 1
  <2>1. Valid(f, 1) /\ (Valid(f, 0) => m < n)
    BY <1>1, <1>4 DEF Source, Page
  <2>2. Valid(f, 0) => ~(m >= n)
    BY <1>2, <2>1
  <2> QED
    BY <1>1, <1>4, <2>1, <2>2 DEF ActivePage
<1> QED
  BY <1>3, <1>4 DEF Source, Page

LEMMA RestoredFrom ==
    ASSUME NEW f
    PROVE  Restored(f) = [e \in Entry |-> IF ActivePage(f) = gVirtualPageNone_c \/ LastMeta(f, ActivePage(f)) = NotFound
                                          THEN NONE ELSE NvRestoreData(f, ActivePage(f), LastMeta(f, ActivePage(f)), e)]
BY Zenon DEF Restored

LEMMA LastMetaIs ==
    ASSUME NEW f, NEW p, NEW last, PageOk(f[p], last), \E a \in FirstMeta .. Bottom - 1 : f[p][a] = BLANK, last # 0
    PROVE  LastMeta(f, p) = last
<1>1. last \in 0 .. Bottom - 1 /\ FirstMeta = 1 /\ Bottom \in Nat
  BY Sizes DEF PageOk, FirstMeta
<1>2. f[p][FirstMeta] # BLANK
  BY <1>1 DEF PageOk
<1>3. last \in {a \in FirstMeta .. Bottom - 1 : Is(f[p][a], "meta") /\ \A b \in FirstMeta .. a : f[p][b] # BLANK}
  BY <1>1 DEF PageOk
<1>4. LastMeta(f, p) # NotFound
  <2>1. PICK metas : metas = {a \in FirstMeta .. Bottom - 1 :
                                Is(f[p][a], "meta") /\ \A b \in FirstMeta .. a : f[p][b] # BLANK}
    OBVIOUS
  <2>2. LastMeta(f, p) = Max(metas)
    BY <1>2, <1>3, <2>1 DEF LastMeta
  <2>3. metas \subseteq 0 .. Bottom /\ metas # {}
    BY <1>1, <1>3, <2>1
  <2>4. Max(metas) \in 0 .. Bottom
    BY <1>1, <2>3, MaxFacts
  <2> QED
    BY <1>1, <2>2, <2>4 DEF NotFound
<1> QED
  BY <1>4, LastMetaOk

LEMMA NothingRead ==
    ASSUME NEW f, NEW p, NoMetas(f[p]), NEW last \in 0 .. Bottom - 1, NEW e \in Entry
    PROVE  NvRestoreData(f, p, last, e) = NONE
<1>1. {a \in FirstMeta .. last : Is(f[p][a], "meta") /\ f[p][a].entry = e} = {}
  BY Sizes DEF NoMetas, FirstMeta
<1> QED
  BY <1>1 DEF NvRestoreData

(* The last meta is what the search finds as long as a cell is blank.      *)
LEMMA RestoredIs ==
    ASSUME NEW f, FlashTypes(f), HasRoom(f), NEW p, NEW last, Source(f, p, last)
    PROVE  Restored(f) = [e \in Entry |-> NvRestoreData(f, p, last, e)]
<1>1. ActivePage(f) = p /\ p \in Page /\ p # gVirtualPageNone_c /\ Valid(f, p) /\ PageOk(f[p], last)
  BY SourceActive DEF Source, Page, gVirtualPageNone_c
<1>2. \E a \in FirstMeta .. Bottom - 1 : f[p][a] = BLANK
  BY <1>1 DEF HasRoom
<1>3. Restored(f) = [e \in Entry |-> IF LastMeta(f, p) = NotFound THEN NONE ELSE NvRestoreData(f, p, LastMeta(f, p), e)]
  BY <1>1, RestoredFrom, Zenon
<1>4. ASSUME NEW e \in Entry
      PROVE  (IF LastMeta(f, p) = NotFound THEN NONE ELSE NvRestoreData(f, p, LastMeta(f, p), e))
                = NvRestoreData(f, p, last, e)
  <2>1. CASE last # 0
    <3>1. LastMeta(f, p) = last
      BY <1>1, <1>2, <2>1, LastMetaIs
    <3>2. last # NotFound
      BY <1>1, Sizes DEF PageOk, NotFound
    <3> QED
      BY <3>1, <3>2
  <2>2. CASE last = 0
    <3>1. LastMeta(f, p) # NotFound => LastMeta(f, p) = last
      BY <1>1, LastMetaOk
    <3>2. NvRestoreData(f, p, last, e) = NONE
      <4>1. NoMetas(f[p])
        BY <1>1, <2>2, Sizes DEF PageOk, NoMetas, FirstMeta
      <4>2. last \in 0 .. Bottom - 1
        BY <1>1 DEF PageOk
      <4> QED
        BY <4>1, <4>2, NothingRead
    <3> QED
      BY <3>1, <3>2
  <2> QED
    BY <2>1, <2>2
<1> QED
  BY <1>3, <1>4

(* A storage without metas restores nothing.                               *)
LEMMA RestoredNothing ==
    ASSUME NEW f, \A p \in Page : Valid(f, p) => NoMetas(f[p])
    PROVE  Restored(f) = [e \in Entry |-> NONE]
<1>1. PICK p : p = ActivePage(f)
  OBVIOUS
<1>2. p = gVirtualPageNone_c \/ (p \in Page /\ NoMetas(f[p]))
  BY <1>1 DEF ActivePage, Page
<1>3. ASSUME NEW e \in Entry
      PROVE  (IF p = gVirtualPageNone_c \/ LastMeta(f, p) = NotFound THEN NONE
              ELSE NvRestoreData(f, p, LastMeta(f, p), e)) = NONE
  <2>1. CASE p = gVirtualPageNone_c \/ LastMeta(f, p) = NotFound
    BY <2>1
  <2>2. CASE p # gVirtualPageNone_c /\ LastMeta(f, p) # NotFound
    <3>1. LastMeta(f, p) = 0
      <4>1. {a \in FirstMeta .. Bottom - 1 : Is(f[p][a], "meta") /\ \A b \in FirstMeta .. a : f[p][b] # BLANK} = {}
        BY <1>2, <2>2 DEF NoMetas
      <4> QED
        BY <2>2, <4>1 DEF LastMeta, gEmptyPageMetaAddress_c
    <3>2. 0 \in 0 .. Bottom - 1
      BY Sizes
    <3> QED
      BY <1>2, <2>2, <3>1, <3>2, NothingRead
  <2> QED
    BY <2>1, <2>2
<1>4. Restored(f) = [e \in Entry |-> IF p = gVirtualPageNone_c \/ LastMeta(f, p) = NotFound THEN NONE
                                     ELSE NvRestoreData(f, p, LastMeta(f, p), e)]
  BY <1>1, RestoredFrom, Zenon
<1> QED
  BY <1>3, <1>4

-----------------------------------------------------------------------------
(* The RAM copy reads the same.                                            *)
LEMMA ActiveSource ==
    ASSUME NEW last, RamOk(last)
    PROVE  Source(flash, mNvActivePageId, last)
<1>1. flash[mNvActivePageId][0].n = mNvPageCounter
  BY DEF RamOk, Counter
<1> QED
  BY <1>1, Other DEF RamOk, Source

LEMMA WarmReads ==
    ASSUME FlashInv, MetaSpaceKept, NEW last, RamOk(last)
    PROVE  stored = [e \in Entry |-> NvRestoreData(flash, mNvActivePageId, last, e)]
<1>1. Source(flash, mNvActivePageId, last) /\ FlashTypes(flash) /\ stored = Restored(flash)
  BY ActiveSource DEF FlashInv, Types
<1>2. HasRoom(flash)
  BY Zenon DEF MetaSpaceKept, HasRoom
<1> QED
  BY <1>1, <1>2, RestoredIs, Zenon

LEMMA WarmIsCold ==
    ASSUME FlashInv, MetaSpaceKept
    PROVE  WarmEqualsCold
<1>1. SUFFICES ASSUME mNvModuleInitialized, todo = << >>, NEW e \in Entry
               PROVE  NvRestoreData(flash, mNvActivePageId, NvLastMetaInfoAddress[mNvActivePageId], e) = stored[e]
  BY DEF WarmEqualsCold
<1>2. RamOk(LastActive)
  BY <1>1, AtRest
<1>3. PICK last : last = LastActive
  OBVIOUS
<1>4. stored = [x \in Entry |-> NvRestoreData(flash, mNvActivePageId, last, x)]
  BY <1>2, <1>3, WarmReads
<1> QED
  BY <1>3, <1>4 DEF LastActive

(* NvRestoreDataSet reads what a restart would read, as long as the page   *)
(* keeps the blank cell that the meta search at start-up ends at.          *)
THEOREM WarmStart ==
    ASSUME NoFormatWhileErasing
    PROVE  Spec => [](MetaSpaceKept => WarmEqualsCold)
BY FlashInvariant, WarmIsCold, PTL

-----------------------------------------------------------------------------
(* The rest of a call is a sequence throughout.                            *)
LEMMA StackJoin ==
    ASSUME NEW t, Stack(t), NEW q, Stack(q)
    PROVE  Stack(t \o q)
<1> DEFINE S == {t[k] : k \in DOMAIN t} \union {q[k] : k \in DOMAIN q}
           s == t \o q
<1>1. t \in Seq(S) /\ q \in Seq(S)
  <2>1. t \in [1 .. Len(t) -> {t[k] : k \in DOMAIN t}] /\ Len(t) \in Nat
    BY LenProperties DEF Stack
  <2>2. q \in [1 .. Len(q) -> {q[k] : k \in DOMAIN q}] /\ Len(q) \in Nat
    BY LenProperties DEF Stack
  <2>3. t \in [1 .. Len(t) -> S] /\ q \in [1 .. Len(q) -> S]
    BY <2>1, <2>2
  <2> QED
    BY <2>1, <2>2, <2>3, SeqDef
<1>2. s \in Seq(S)
  BY <1>1, ConcatProperties
<1> HIDE DEF s
<1>3. Len(s) \in Nat /\ DOMAIN s = 1 .. Len(s) /\ s \in [1 .. Len(s) -> {s[k] : k \in DOMAIN s}]
  BY <1>2, LenProperties
<1>4. Stack(s)
  BY <1>3, SeqDef, SMTT(30) DEF Stack
<1> QED
  BY <1>4 DEF s

LEMMA StackTuples ==
    ASSUME NEW a, NEW b, NEW c
    PROVE  Stack(<< >>) /\ Stack(<<a>>) /\ Stack(<<a, b>>) /\ Stack(<<a, b, c>>)
<1>1. Stack(<< >>) /\ Stack(<<a>>)
  BY StackEmpty, StackOne
<1>2. ASSUME NEW S, NEW s \in Seq(S) PROVE Stack(s)
  <2>1. Len(s) \in Nat /\ s \in [1 .. Len(s) -> {s[k] : k \in DOMAIN s}]
    BY LenProperties
  <2> QED
    BY <2>1, SeqDef DEF Stack
<1>3. <<a, b>> \in Seq({a, b, c}) /\ <<a, b, c>> \in Seq({a, b, c})
  OBVIOUS
<1> QED
  BY <1>1, <1>2, <1>3, Zenon

LEMMA StackWithout ==
    ASSUME NEW s, Stack(s), NEW name
    PROVE  Stack(Without(s, name))
BY StackTail DEF Without

LEMMA StackSteps ==
    ASSUME FlashInv, Stack(todo), Step
    PROVE  Stack(todo')
<1>1. todo # << >> => Stack(Rest)
  BY StackTail DEF Rest
<1>2. \A t, q : Stack(t) /\ Stack(q) => Stack(t \o q)
  BY StackJoin
<1>3. \A a, b, c : Stack(<< >>) /\ Stack(<<a>>) /\ Stack(<<a, b>>) /\ Stack(<<a, b, c>>)
  BY StackTuples
<1>4. \A name : todo # << >> => Stack(Without(Rest, name))
  BY <1>1, StackWithout
<1>5. CASE \/ FlashProgram \/ NvWriteRecord_written \/ NvCopyPage_switch \/ Copied \/ NvSyncSave_erased
           \/ NvUpdateLastMetaInfoAddress \/ NvModuleInit_return \/ NvPushPendingSave \/ NvShutdown \/ NvFormat_formatted
  <2>1. CASE NvCopyPage_switch
    BY <1>1, <1>2, <1>3, <2>1 DEF NvCopyPage_switch, Running, NvSaveRamTable
  <2> QED
    BY <1>1, <1>5, <2>1 DEF FlashProgram, NvWriteRecord_written, Copied, NvSyncSave_erased, NvUpdateLastMetaInfoAddress,
         NvModuleInit_return, NvPushPendingSave, NvShutdown, NvFormat_formatted, Running
<1>6. CASE FlashErase
  BY <1>1, <1>2, <1>3, <1>6 DEF FlashErase, Running
<1>7. CASE NvWriteRecord
  <2>1. PICK e, by : e = Head(todo).entry /\ by = Head(todo).by
    OBVIOUS
  <2>2. by \in {"NvSyncSave", "NvIdle", "NvProcessFirstSaveInQueue", "again", "after copy"} /\ Stack(Rest)
    BY <1>1, <1>7, <2>1, WriteRunning DEF NvWriteRecord, Running
  <2>3. Stack(WhenPending(e, by))
    BY <1>2, <1>3, <1>4, <1>7, <2>2 DEF WhenPending, NvWriteRecord, Running
  <2>4. \/ todo' = WhenPending(e, by)
        \/ \E a, b, c : todo' = <<a, b, c>> \o Rest
    BY <1>7, <2>1 DEF NvWriteRecord
  <2> QED
    BY <1>2, <1>3, <2>2, <2>3, <2>4
<1>8. CASE NvCopyPage
  BY <1>1, <1>2, <1>3, <1>8 DEF NvCopyPage, Running
<1>9. CASE NvInternalCopy
  <2>1. \E a, b, c : todo' = <<a, b, c>> \o Rest
    BY <1>9 DEF NvInternalCopy
  <2> QED
    BY <1>1, <1>2, <1>3, <1>9, <2>1 DEF NvInternalCopy, Running
<1>10. CASE NvSyncSave_copied
  <2>1. \E a, b, c : todo' = <<a, b, c>> \o Rest
    BY <1>10 DEF NvSyncSave_copied
  <2> QED
    BY <1>1, <1>2, <1>3, <1>10, <2>1 DEF NvSyncSave_copied, Running
<1>11. CASE NvInternalFormat
  <2>1. \E a, b, c, d, x : todo' = <<a, b>> \o (<<c, d>> \o (<<x>> \o Rest))
    BY <1>11 DEF NvInternalFormat, NvSaveRamTable
  <2> QED
    BY <1>1, <1>2, <1>3, <1>11, <2>1 DEF NvInternalFormat, Running
<1>12. CASE NvModuleInit_init
  BY <1>2, <1>3, <1>12 DEF NvModuleInit_init
<1>13. CASE NvAddSaveRequestToQueue
  BY <1>1, <1>2, <1>3, <1>13 DEF NvAddSaveRequestToQueue, Running
<1>14. CASE NvProcessFirstSaveInQueue
  BY <1>1, <1>2, <1>3, <1>14 DEF NvProcessFirstSaveInQueue, Running, Pop
<1>15. CASE NvSyncSave
  BY <1>1, <1>2, <1>3, <1>15 DEF NvSyncSave, Running
<1>16. CASE NvAtomicSave
  BY <1>1, <1>2, <1>3, <1>16 DEF NvAtomicSave, Running
<1>17. CASE NvIdle
  <2>1. PICK t : /\ t \in {<< >>, <<Call("erase sector"), Call("saves")>>,
                            <<Call("NvCopyPage"), Call("copied")>> \o <<Call("erase sector"), Call("saves")>>,
                            << >> \o <<Call("erase sector"), Call("saves")>>}
                 /\ todo' = t \o Rest
    BY <1>17 DEF NvIdle
  <2>2. Stack(t)
    BY <1>2, <1>3, <2>1
  <2> QED
    BY <1>1, <1>2, <1>17, <2>1, <2>2 DEF NvIdle, Running
<1>18. CASE NvIdle_erase
  BY <1>1, <1>2, <1>3, <1>4, <1>18 DEF NvIdle_erase, Running
<1>19. CASE NvIdle_saves
  BY <1>1, <1>2, <1>3, <1>19 DEF NvIdle_saves, Running, Pop
<1>20. CASE NvCompletePendingOperations
  BY <1>1, <1>2, <1>3, <1>20 DEF NvCompletePendingOperations, Running
<1> QED
  BY <1>5, <1>6, <1>7, <1>8, <1>9, <1>10, <1>11, <1>12, <1>13, <1>14, <1>15, <1>16, <1>17, <1>18, <1>19, <1>20 DEF Step

LEMMA StackKept ==
    ASSUME FlashInv, Stack(todo), [Next]_vars
    PROVE  Stack(todo')
<1>1. \A a, b, c : Stack(<< >>) /\ Stack(<<a>>) /\ Stack(<<a, b>>) /\ Stack(<<a, b, c>>)
  BY StackTuples
<1>2. CASE Step
  BY <1>2, StackSteps
<1>3. CASE PowerLoss \/ NvModuleInit
  BY <1>1, <1>3 DEF PowerLoss, NvModuleInit
<1>4. CASE \E e \in Entry, v \in Value : CallSave(e, v)
  BY <1>1, <1>4 DEF CallSave, Saves, Enter
<1>5. CASE CallNvAtomicSave \/ CallNvIdle \/ CallNvCompletePendingOperations \/ CallNvShutdown \/ CallNvFormat
  BY <1>1, <1>5 DEF CallNvAtomicSave, CallNvIdle, CallNvCompletePendingOperations, CallNvShutdown, CallNvFormat, Saves, Enter
<1>6. CASE (\E e \in Entry : NvRestoreDataSet(e)) \/ NvSetCriticalSection \/ NvClearCriticalSection \/ UNCHANGED vars
  BY <1>6 DEF NvRestoreDataSet, NvSetCriticalSection, NvClearCriticalSection, vars
<1> QED
  BY <1>2, <1>3, <1>4, <1>5, <1>6 DEF Next

-----------------------------------------------------------------------------
(* The effect of the flash commands, but for the two that complete a save  *)
(* or make a copied page valid.                                            *)
LEMMA EraseKeeps ==
    ASSUME FlashInv, Stack(todo), FlashErase
    PROVE  KeptBy(flash')
<1>1. todo # << >> /\ Head(todo).op = "erase" /\ Types
  BY DEF FlashErase, Running, FlashInv
<1>2. AtCopyErase \/ AtSyncErase \/ AtIdleErase \/ AtFormatErase
  BY <1>1, PhaseOf DEF FlashInv, QuietNames
<1>3. PICK t : t = SECTORS - 1
  OBVIOUS
<1>4. PICK p \in Page, s \in 0 .. SECTORS - 1, last \in 0 .. SECTORS - 1 :
          /\ Head(todo) = EraseSectors(p, s, last)
          /\ s = 0 \/ ~Is(flash[p][0], "counter")
          /\ AtFormatErase \/ (RamOk(LastActive) /\ p = OtherPage)
  <2>1. t \in 0 .. SECTORS - 1
    BY <1>3, Sectors
  <2>2. CASE AtCopyErase \/ AtSyncErase
    <3>1. OtherPage \in Page /\ ErasingFromStart(Head(todo), OtherPage)
      BY <2>2, Other DEF AtCopyErase, AtSyncErase, RamOk
    <3> QED
      BY <1>3, <2>1, <2>2, <3>1, FromStart DEF AtCopyErase, AtSyncErase
  <2>3. CASE AtIdleErase
    <3>1. OtherPage \in Page
      BY <2>3, Other DEF AtIdleErase, RamOk
    <3>2. PICK s \in 0 .. SECTORS - 1 : /\ s > 0 => ~Is(flash[OtherPage][0], "counter")
                                        /\ Head(todo) = EraseSectors(OtherPage, s, s)
      BY <2>3 DEF AtIdleErase
    <3> QED
      BY <2>3, <3>1, <3>2 DEF AtIdleErase
  <2>4. CASE AtFormatErase
    <3>1. PICK p \in Page : ErasingFromStart(Head(todo), p)
      BY <2>4 DEF AtFormatErase, Page
    <3> QED
      BY <1>3, <2>1, <2>4, <3>1, FromStart
  <2> QED
    BY <1>2, <2>2, <2>3, <2>4
<1>5. Stack(Rest)
  BY <1>1, StackTail DEF Rest
<1>6. /\ \A q \in Page \ {p} : flash'[q] = flash[q]
      /\ ~Is(flash'[p][0], "counter")
  BY <1>4, <1>5, BecomesErased
<1>7. PICK f : f = flash'
  OBVIOUS
<1>8. LosesPage(f, p)
  BY <1>6, <1>7 DEF LosesPage, Valid
<1>9. KeptBy(f)
  BY <1>4, <1>8 DEF KeptBy
<1> QED
  BY <1>7, <1>9

LEMMA RecordKeeps ==
    ASSUME FlashInv, FlashProgram, AtRecord
    PROVE  KeptBy(flash')
<1>1. PICK e \in Entry, v \in Value, r \in Cell, m \in Cell :
          Placed(e, r, m) /\ Head(todo) = Program(mNvActivePageId, r, Data(e, v))
  BY DEF AtRecord
<1>2. Types /\ RamOk(LastActive) /\ mNvActivePageId \in Page
  BY DEF FlashInv, AtRecord, RamOk
<1>3. PICK p, g, last, edge : p = mNvActivePageId /\ g = flash[p] /\ last = LastActive /\ edge = Edge(g, last)
  OBVIOUS
<1>4. /\ r + Size(e) <= PAGE /\ m \in last + 1 .. edge - 1 /\ last \in 0 .. Bottom - 1
      /\ \A x \in r .. r + Size(e) - 1 : x \in m + 3 .. edge - 1
      /\ \A a \in last + 1 .. edge - 1 : ~Is(g[a], "meta")
  BY <1>1, <1>2, <1>3, PlacedFacts
<1>5. PICK f : f = flash'
  OBVIOUS
<1>6. /\ \A q \in Page \ {p} : f[q] = flash[q]
      /\ \A x \in Cell : x \notin r .. r + Size(e) - 1 => f[p][x] = g[x]
      /\ \A x \in r .. r + Size(e) - 1 : ~Is(f[p][x], "meta")
  BY <1>1, <1>2, <1>3, <1>4, <1>5, BecomesRecord
<1>7. f[OtherPage] = flash[OtherPage]
  BY <1>2, <1>3, <1>6, Other
<1>8. \A x \in Cell : x \notin last + 1 .. edge - 1 => f[p][x] = g[x]
  <2>1. \A x \in r .. r + Size(e) - 1 : x \in last + 1 .. edge - 1
    <3>1. edge \in last + 1 .. Bottom
      BY <1>2, <1>3, PageTypes, EdgeFacts DEF RamOk, Types
    <3> QED
      BY <1>4, <3>1, Sizes
  <2> QED
    BY <1>6, <2>1
<1>9. \A x \in last + 1 .. edge - 1 : ~Is(f[p][x], "meta")
  <2>1. edge \in last + 1 .. Bottom
    BY <1>2, <1>3, PageTypes, EdgeFacts DEF RamOk, Types
  <2>2. \A x \in last + 1 .. edge - 1 : x \in Cell
    BY <1>4, <2>1, Sizes DEF Cell
  <2> QED
    BY <1>4, <1>6, <2>2
<1>10. Between(f)
  BY <1>3, <1>7, <1>8, <1>9 DEF Between
<1>11. KeptBy(f)
  BY <1>2, <1>10 DEF KeptBy
<1> QED
  BY <1>5, <1>11

(* A page with a blank counter is not valid.                               *)
LEMMA LosesBlank ==
    ASSUME NEW p \in Page, NEW f, \A q \in Page \ {p} : f[q] = flash[q], f[p][0] = BLANK \/ f[p][Bottom] = BLANK
    PROVE  LosesPage(f, p)
BY CellFacts DEF LosesPage, Valid

LEMMA CopyKeeps ==
    ASSUME FlashInv, FlashProgram, AtCopyRecord \/ AtCopyMeta
    PROVE  KeptBy(flash')
<1>1. Types /\ RamOk(LastActive) /\ mNvActivePageId \in Page /\ OtherPage \in Page
  BY Other DEF FlashInv, AtCopyRecord, AtCopyMeta, RamOk
<1>2. PICK q, f : q = OtherPage /\ f = flash'
  OBVIOUS
<1>3. Cell = 0 .. Bottom /\ Bottom \in Nat /\ PAGE = Bottom + 1 /\ 0 \in Cell
  BY Sizes DEF Cell
<1>4. (\A x \in Page \ {q} : f[x] = flash[x]) /\ f[q][0] = BLANK
  <2>1. CASE AtCopyRecord
    <3>1. PICK a \in Cell, dst \in Cell, to \in Cell, v \in Value, e \in Entry :
            CopyNext(a, dst, to, v, e, to + Size(e)) /\ Head(todo) = Program(q, to, Data(e, v))
      BY <1>2, <2>1 DEF AtCopyRecord
    <3>2. PICK n, free : n = Size(e) /\ free = to + n
      OBVIOUS
    <3>3. CopyOk(a, dst, free, free) /\ to > dst
      BY <3>1, <3>2 DEF CopyNext
    <3>4. free \in dst .. Bottom /\ dst \in 1 .. Bottom
      BY <1>1, <1>3, <3>3, CopiedSubset
    <3>5. flash[q][0] = BLANK
      BY <1>2, <1>3, <3>3 DEF CopyOk
    <3>6. n \in Nat \ {0} /\ to \in Nat /\ to + n <= PAGE /\ 0 \notin to .. to + n - 1
      BY <1>3, <3>2, <3>3, <3>4, Sizes
    <3>7. /\ \A x \in Page \ {q} : f[x] = flash[x]
          /\ \A x \in Cell : x \notin to .. to + n - 1 => f[q][x] = flash[q][x]
      BY <1>1, <1>2, <3>1, <3>2, <3>6, BecomesRecord
    <3> QED
      BY <1>3, <3>5, <3>6, <3>7
  <2>2. CASE AtCopyMeta
    <3>1. PICK a \in Cell, dst \in Cell, to \in Cell, v \in Value, e \in Entry :
            CopyNext(a, dst, to, v, e, to) /\ Head(todo) = Program(q, dst, <<Meta(e, to)>>)
      BY <1>2, <2>2 DEF AtCopyMeta
    <3>2. PICK free : free = to + Size(e)
      OBVIOUS
    <3>3. CopyOk(a, dst, free, to) /\ to > dst
      BY <3>1, <3>2 DEF CopyNext
    <3>4. free \in dst .. Bottom /\ dst \in 1 .. Bottom
      BY <1>1, <1>3, <3>3, CopiedSubset
    <3>5. flash[q][0] = BLANK
      BY <1>2, <1>3, <3>3 DEF CopyOk
    <3>6. Meta(e, to) \in CellValue /\ MetaOk(Meta(e, to), dst)
      <4>1. to \in Nat /\ Size(e) \in Nat
        BY <1>3, Sizes
      <4>2. /\ Meta(e, to) \in CellValue /\ Meta(e, to).entry = e /\ Meta(e, to).offset = to
        BY <4>1, CellFacts
      <4>3. to \in dst + 1 .. Bottom - Size(e)
        BY <1>3, <3>2, <3>3, <3>4, <4>1
      <4> QED
        BY <4>2, <4>3 DEF MetaOk
    <3>7. /\ \A x \in Page \ {q} : f[x] = flash[x]
          /\ f[q] = [flash[q] EXCEPT ![dst] = Meta(e, to)] /\ flash[q] \in PageOfCells
      BY <1>1, <1>2, <3>1, <3>6, BecomesCell
    <3> QED
      BY <1>3, <3>4, <3>5, <3>7 DEF PageOfCells
  <2> QED
    BY <2>1, <2>2
<1>5. LosesPage(f, OtherPage)
  BY <1>1, <1>2, <1>4, LosesBlank
<1>6. KeptBy(f)
  BY <1>1, <1>5 DEF KeptBy
<1> QED
  BY <1>2, <1>6

LEMMA FirstCounterKeeps ==
    ASSUME FlashInv, FlashProgram, AtFirstCounter
    PROVE  KeptBy(flash')
<1>1. /\ Switched /\ mNvActivePageId \in Page /\ mNvPageCounter \in Nat
      /\ Head(todo) = Program(mNvActivePageId, 0, <<Counter(mNvPageCounter)>>)
  BY DEF FlashInv, AtFirstCounter, Switched, Types
<1>2. PICK p, c, f : p = mNvActivePageId /\ c = Counter(mNvPageCounter) /\ f = flash'
  OBVIOUS
<1>3. c \in CellValue /\ MetaOk(c, 0)
  BY <1>1, <1>2, CellFacts DEF MetaOk
<1>4. Cell = 0 .. Bottom /\ Bottom \in Nat /\ 4 < Bottom /\ 0 \in Cell /\ Bottom \in Cell
  BY Sizes DEF Cell
<1>5. (\A x \in Page \ {p} : f[x] = flash[x]) /\ f[p] = [flash[p] EXCEPT ![0] = c] /\ flash[p] \in PageOfCells
  <2>1. Head(todo) = Program(p, 0, <<c>>) /\ p \in Page
    BY <1>1, <1>2
  <2> QED
    BY <1>2, <1>3, <1>4, <2>1, BecomesCell
<1>6. f[p][Bottom] = BLANK
  <2>1. flash[p][Bottom] = BLANK
    BY <1>1, <1>2 DEF Switched
  <2> QED
    BY <1>4, <1>5, <2>1 DEF PageOfCells
<1>7. LosesPage(f, p)
  BY <1>1, <1>2, <1>5, <1>6, LosesBlank
<1>8. KeptBy(f)
  BY <1>1, <1>2, <1>7 DEF KeptBy
<1> QED
  BY <1>2, <1>8

-----------------------------------------------------------------------------
(* A storage that the module formats at start-up has nothing to lose.      *)
EmptyValid == \A p \in Page : Valid(flash, p) => NoMetas(flash[p])
Unformatted ==
    ~mNvModuleInitialized /\ todo # << >> /\ Head(todo).op \in {"NvInternalFormat", "erase", "program"} => EmptyValid

(* Where a call may be before the module is initialised.                   *)
LEMMA Uninitialised ==
    ASSUME FlashInv, ~mNvModuleInitialized, todo # << >>
    PROVE  \/ todo \in {<<Call("NvIdle")>>, <<Call("NvShutdown")>>}
           \/ Head(todo).op = "erase" /\ AtFormatErase
           \/ Head(todo).op = "program" /\ AtFormatCounter
           \/ Head(todo).op = "NvInternalFormat" /\ AtFormat
           \/ Head(todo).op = "NvUpdateLastMetaInfoAddress" /\ AtUpdate
           \/ Head(todo).op = "init" /\ AtInit
           \/ Head(todo).op = "return" /\ todo = <<Call("return")>>
<1>1. /\ ~AtRecord /\ ~AtMeta /\ ~AtWritten /\ ~AtCopyPage /\ ~AtCopyErase /\ ~AtCopy /\ ~AtCopyRecord /\ ~AtCopyMeta
      /\ ~AtFirstCounter /\ ~AtLastCounter /\ ~AtCopied /\ ~AtSyncErase /\ ~AtErased /\ ~AtSecond /\ ~AtIdleErase
      /\ ~AtFormatted
  BY DEF AtRecord, AtMeta, AtWritten, AtCopyPage, AtCopyErase, AtCopy, AtCopyRecord, AtCopyMeta,
         AtFirstCounter,
         AtLastCounter, AtCopied, AtSyncErase, AtErased, AtSecond, AtIdleErase, AtFormatted, Switched, RamOk
<1>2. AtQuiet => todo \in {<<Call("NvIdle")>>, <<Call("NvShutdown")>>}
  BY DEF AtQuiet
<1>3. AtReturn => todo = <<Call("return")>>
  BY DEF AtReturn
<1> QED
  BY <1>1, <1>2, <1>3, PhaseOf DEF FlashInv

LEMMA KeepsEmpty ==
    ASSUME ~mNvModuleInitialized, EmptyValid, NEW f, KeptBy(f)
    PROVE  \A p \in Page : Valid(f, p) => NoMetas(f[p])
<1>1. f = flash \/ \E p \in Page : LosesPage(f, p)
  BY DEF KeptBy, RamOk, Switched
<1> QED
  BY <1>1 DEF EmptyValid, LosesPage, Valid

LEMMA FormatCounterEmpty ==
    ASSUME FlashInv, FlashProgram, AtFormatCounter
    PROVE  EmptyValid'
<1>1. PICK f, c : f = flash' /\ c = Counter(mNvPageCounter)
  OBVIOUS
<1>2. c \in CellValue /\ ~Is(c, "meta") /\ (\A a : MetaOk(c, a)) /\ flash[1] = BlankPage
  BY <1>1, CellFacts DEF FlashInv, Types, MetaOk, AtFormatCounter
<1>3. Cell = 0 .. Bottom /\ Bottom \in Nat /\ 4 < Bottom /\ 0 \in Cell /\ Bottom \in Cell /\ FirstMeta = 1 /\ Page = {0, 1}
  BY Sizes DEF Cell, FirstMeta, Page
<1>4. PICK x : \/ flash[0] = BlankPage /\ todo = Formatted(<<x>>)
               \/ flash[0] = [BlankPage EXCEPT ![0] = c] /\ todo = Tail(Formatted(<<x>>))
  BY <1>1 DEF AtFormatCounter
<1>5. PICK a \in {0, Bottom} : Head(todo) = Program(0, a, <<c>>)
  BY <1>1, <1>4, FormattedStack
<1>6. (\A q \in Page \ {0} : f[q] = flash[q]) /\ f[0] = [flash[0] EXCEPT ![a] = c] /\ flash[0] \in PageOfCells
  BY <1>1, <1>2, <1>3, <1>5, BecomesCell
<1>7. \A y \in FirstMeta .. Bottom - 1 : ~Is(flash[0][y], "meta") /\ f[0][y] = flash[0][y]
  <2>1. ASSUME NEW y \in FirstMeta .. Bottom - 1
        PROVE  ~Is(flash[0][y], "meta") /\ f[0][y] = flash[0][y]
    <3>1. y \in Cell /\ y # 0 /\ y # Bottom
      BY <1>3
    <3>2. flash[0][y] = BlankPage[y]
      BY <1>4, <3>1 DEF BlankPage
    <3> QED
      BY <1>6, <3>1, <3>2, FormatFlash, CellFacts DEF PageOfCells
  <2> QED
    BY <2>1
<1>8. NoMetas(f[0])
  BY <1>7 DEF NoMetas
<1>9. NoMetas(f[1])
  <2>1. f[1] = BlankPage
    BY <1>2, <1>3, <1>6
  <2>2. \A y \in FirstMeta .. Bottom - 1 : y \in Cell
    BY <1>3
  <2> QED
    BY <2>1, <2>2, FormatFlash, CellFacts DEF NoMetas
<1> QED
  BY <1>1, <1>3, <1>8, <1>9 DEF EmptyValid

LEMMA EmptyAtInit ==
    ASSUME FlashInv, MetaSpaceKept, AtInit, LastMeta(flash, mNvActivePageId) = NotFound
    PROVE  EmptyValid
<1>1. PICK p, q, n : p = mNvActivePageId /\ q = OtherPage /\ n = mNvPageCounter
  OBVIOUS
<1>2. /\ p \in Page /\ q \in Page /\ p # q /\ Page = {p, q} /\ Valid(flash, p) /\ flash[p][0].n = n /\ n \in Nat
      /\ Valid(flash, q) => flash[q][0].n < n
      /\ FlashOk(flash) /\ FlashTypes(flash)
  <2>1. Counter(n).n = n
    BY DEF Counter
  <2> QED
    BY <1>1, <2>1, Other DEF AtInit, FlashInv, Types
<1>3. PICK last \in 0 .. Bottom - 1 : PageOk(flash[p], last)
  BY <1>2 DEF FlashOk
<1>4. \E a \in FirstMeta .. Bottom - 1 : flash[p][a] = BLANK
  BY <1>2 DEF MetaSpaceKept
<1>5. last = 0
  <2>1. last # NotFound
    BY <1>3, Sizes DEF NotFound
  <2> QED
    BY <1>1, <1>3, <1>4, <2>1, LastMetaIs
<1>6. NoMetas(flash[p])
  BY <1>3, <1>5, Sizes DEF PageOk, NoMetas, FirstMeta
<1>7. Valid(flash, q) => NoMetas(flash[q])
  <2>1. Valid(flash, q) => flash[q][0].n \in Nat
    BY <1>2, CounterNat
  <2>2. PICK k : k = flash[q][0].n
    OBVIOUS
  <2>3. Valid(flash, q) => n > k
    BY <1>2, <2>1, <2>2
  <2> QED
    BY <1>2, <1>6, <2>2, <2>3 DEF FlashOk
<1> QED
  BY <1>2, <1>6, <1>7 DEF EmptyValid

LEMMA NoPageEmpty ==
    ASSUME ActivePage(flash) = gVirtualPageNone_c
    PROVE  EmptyValid
<1>1. ~Valid(flash, 0) /\ ~Valid(flash, 1)
  BY DEF ActivePage, gVirtualPageNone_c
<1> QED
  BY <1>1 DEF EmptyValid, Page

(* The operation that runs names the step.                                 *)
LEMMA StepOf ==
    ASSUME Step
    PROVE  /\ todo # << >>
           /\ Head(todo).op = "erase" => FlashErase
           /\ Head(todo).op = "program" => FlashProgram
           /\ Head(todo).op = "NvInternalFormat" => NvInternalFormat
           /\ Head(todo).op = "NvUpdateLastMetaInfoAddress" => NvUpdateLastMetaInfoAddress
           /\ Head(todo).op = "init" => NvModuleInit_init
           /\ Head(todo).op = "return" => NvModuleInit_return
           /\ Head(todo).op = "NvIdle" => NvIdle
           /\ Head(todo).op = "NvShutdown" => NvShutdown
BY DEF Step, FlashErase, FlashProgram, NvWriteRecord, NvWriteRecord_written, NvCopyPage,
       NvInternalCopy,
         NvCopyPage_switch, Copied, NvSyncSave_copied, NvSyncSave_erased, NvInternalFormat, NvUpdateLastMetaInfoAddress,
         NvModuleInit_init, NvModuleInit_return, NvAddSaveRequestToQueue, NvPushPendingSave, NvProcessFirstSaveInQueue,
         NvSyncSave, NvAtomicSave, NvIdle, NvIdle_erase, NvIdle_saves, NvCompletePendingOperations, NvShutdown,
         NvFormat_formatted, Running

(* A call never takes the module back to the state before NvModuleInit.    *)
LEMMA FlagStays ==
    ASSUME Step
    PROVE  mNvModuleInitialized' \/ mNvModuleInitialized' = mNvModuleInitialized
<1>1. CASE FlashErase \/ FlashProgram \/ NvWriteRecord \/ NvWriteRecord_written
  BY <1>1 DEF FlashErase, FlashProgram, NvWriteRecord, NvWriteRecord_written, ramState
<1>2. CASE NvCopyPage \/ NvInternalCopy \/ NvCopyPage_switch \/ Copied
  BY <1>2 DEF NvCopyPage, NvInternalCopy, NvCopyPage_switch, Copied, ramState
<1>3. CASE NvSyncSave_copied \/ NvSyncSave_erased \/ NvInternalFormat \/ NvUpdateLastMetaInfoAddress
  BY <1>3
     DEF NvSyncSave_copied, NvSyncSave_erased, NvInternalFormat, NvUpdateLastMetaInfoAddress,
         ramState
<1>4. CASE NvModuleInit_init \/ NvModuleInit_return \/ NvAddSaveRequestToQueue \/ NvPushPendingSave
  BY <1>4
     DEF NvModuleInit_init, NvModuleInit_return, NvAddSaveRequestToQueue, NvPushPendingSave,
         ramState
<1>5. CASE NvProcessFirstSaveInQueue \/ NvSyncSave \/ NvAtomicSave \/ NvIdle
  BY <1>5 DEF NvProcessFirstSaveInQueue, NvSyncSave, NvAtomicSave, NvIdle, ramState
<1>6. CASE NvIdle_erase \/ NvIdle_saves \/ NvCompletePendingOperations \/ NvShutdown
  BY <1>6 DEF NvIdle_erase, NvIdle_saves, NvCompletePendingOperations, NvShutdown, ramState
<1>7. CASE NvFormat_formatted
  BY <1>7 DEF NvFormat_formatted, ramState
<1> QED
  BY <1>1, <1>2, <1>3, <1>4, <1>5, <1>6, <1>7 DEF Step

LEMMA UnformattedSteps ==
    ASSUME FlashInv, Stack(todo), MetaSpaceKept, Unformatted, Step
    PROVE  Unformatted'
<1>1. SUFFICES ASSUME ~mNvModuleInitialized', todo' # << >>,
                      Head(todo').op \in {"NvInternalFormat", "erase", "program"}
               PROVE  EmptyValid'
  BY DEF Unformatted
<1>2. ~mNvModuleInitialized /\ todo # << >>
  BY <1>1, StepOf, FlagStays
<1>3. CASE todo \in {<<Call("NvIdle")>>, <<Call("NvShutdown")>>}
  <2>1. Head(todo).op \in {"NvIdle", "NvShutdown"} /\ Rest = << >>
    BY <1>3, StackCall DEF Rest
  <2>2. NvIdle \/ NvShutdown
    BY <2>1, StepOf
  <2>3. todo' = << >>
    BY <1>2, <2>1, <2>2 DEF NvIdle, NvShutdown
  <2> QED
    BY <1>1, <2>3
<1>4. CASE Head(todo).op = "erase" /\ AtFormatErase
  <2>1. FlashErase
    BY <1>4, StepOf
  <2>2. EmptyValid
    BY <1>2, <1>4 DEF Unformatted
  <2>3. PICK f : f = flash'
    OBVIOUS
  <2>4. KeptBy(f)
    BY <2>1, <2>3, EraseKeeps
  <2>5. \A p \in Page : Valid(f, p) => NoMetas(f[p])
    BY <1>2, <2>2, <2>4, KeepsEmpty
  <2> QED
    BY <2>3, <2>5 DEF EmptyValid
<1>5. CASE Head(todo).op = "program" /\ AtFormatCounter
  <2>1. FlashProgram
    BY <1>5, StepOf
  <2> QED
    BY <1>5, <2>1, FormatCounterEmpty
<1>6. CASE Head(todo).op = "NvInternalFormat" /\ AtFormat
  <2>1. EmptyValid
    BY <1>2, <1>6 DEF Unformatted
  <2>2. NvInternalFormat
    BY <1>6, StepOf
  <2> QED
    BY <2>1, <2>2 DEF NvInternalFormat, EmptyValid
<1>7. CASE Head(todo).op = "NvUpdateLastMetaInfoAddress" /\ AtUpdate
  <2>1. todo' = Rest
    BY <1>7, StepOf DEF NvUpdateLastMetaInfoAddress
  <2>2. Rest \in {<<Call("init")>>, <<Call("return")>>}
    BY <1>2, <1>7 DEF AtUpdate, FormatCaller
  <2>3. Head(todo').op \in {"init", "return"}
    BY <2>1, <2>2, StackCall
  <2> QED
    BY <1>1, <2>3
<1>8. CASE Head(todo).op = "init" /\ AtInit
  <2>1. NvModuleInit_init
    BY <1>8, StepOf
  <2>2. LastMeta(flash, mNvActivePageId) = NotFound /\ flash' = flash
    BY <1>1, <2>1 DEF NvModuleInit_init
  <2>3. EmptyValid
    BY <1>8, <2>2, EmptyAtInit
  <2> QED
    BY <2>2, <2>3 DEF EmptyValid
<1>9. CASE Head(todo).op = "return" /\ todo = <<Call("return")>>
  <2>1. NvModuleInit_return
    BY <1>9, StepOf
  <2>2. todo' = << >>
    BY <1>9, <2>1, StackCall DEF NvModuleInit_return, Rest
  <2> QED
    BY <1>1, <2>2
<1> QED
  BY <1>2, <1>3, <1>4, <1>5, <1>6, <1>7, <1>8, <1>9, Uninitialised

LEMMA UnformattedKept ==
    ASSUME FlashInv, Stack(todo), MetaSpaceKept, Unformatted, [Next]_vars
    PROVE  Unformatted'
<1>1. CASE Step
  BY <1>1, UnformattedSteps
<1>2. CASE PowerLoss
  BY <1>2 DEF PowerLoss, Unformatted
<1>3. CASE NvModuleInit
  <2>1. CASE ActivePage(flash) = gVirtualPageNone_c
    BY <1>3, <2>1, NoPageEmpty DEF NvModuleInit, Unformatted, EmptyValid
  <2>2. CASE ActivePage(flash) # gVirtualPageNone_c
    <3>1. todo' = <<Call("init")>>
      BY <1>3, <2>2 DEF NvModuleInit
    <3>2. Head(todo').op = "init"
      BY <3>1, StackCall
    <3> QED
      BY <3>2 DEF Unformatted
  <2> QED
    BY <2>1, <2>2
<1>4. CASE (\E e \in Entry, v \in Value : CallSave(e, v)) \/ CallNvAtomicSave \/ CallNvCompletePendingOperations
             \/ CallNvFormat \/ \E e \in Entry : NvRestoreDataSet(e)
  <2>1. CASE \E e \in Entry, v \in Value : CallSave(e, v)
    BY <2>1 DEF CallSave, Saves, Enter, ramState, Unformatted
  <2>2. CASE CallNvAtomicSave
    BY <2>2 DEF CallNvAtomicSave, Saves, Enter, ramState, Unformatted
  <2>3. CASE CallNvCompletePendingOperations
    BY <2>3 DEF CallNvCompletePendingOperations, Enter, ramState, Unformatted
  <2>4. CASE CallNvFormat
    BY <2>4 DEF CallNvFormat, Saves, Enter, ramState, Unformatted
  <2>5. CASE \E e \in Entry : NvRestoreDataSet(e)
    BY <2>5 DEF NvRestoreDataSet, ramState, Unformatted
  <2> QED
    BY <1>4, <2>1, <2>2, <2>3, <2>4, <2>5
<1>5. CASE CallNvIdle \/ CallNvShutdown
  <2>1. todo' \in {<<Call("NvIdle")>>, <<Call("NvShutdown")>>}
    BY <1>5 DEF CallNvIdle, CallNvShutdown, Enter
  <2>2. Head(todo').op \in {"NvIdle", "NvShutdown"}
    BY <2>1, StackCall
  <2> QED
    BY <2>2 DEF Unformatted
<1>6. CASE NvSetCriticalSection \/ NvClearCriticalSection \/ UNCHANGED vars
  BY <1>6
     DEF NvSetCriticalSection, NvClearCriticalSection, vars, ramState, Unformatted, EmptyValid
<1> QED
  BY <1>1, <1>2, <1>3, <1>4, <1>5, <1>6 DEF Next

-----------------------------------------------------------------------------
(* What a restart restores stays the same as long as the newest page does. *)
LEMMA SameSource ==
    ASSUME FlashTypes(flash), HasRoom(flash), NEW f, FlashTypes(f), HasRoom(f),
           NEW p, NEW last, Source(flash, p, last), Source(f, p, last),
           \A x \in Cell : x \in FirstMeta .. last \/ x \in Edge(flash[p], last) .. Bottom - 1 => f[p][x] = flash[p][x]
    PROVE  Restored(f) = Restored(flash)
<1>1. /\ Restored(f) = [e \in Entry |-> NvRestoreData(f, p, last, e)]
      /\ Restored(flash) = [e \in Entry |-> NvRestoreData(flash, p, last, e)]
  BY RestoredIs
<1>2. p \in Page /\ PageOk(flash[p], last)
  BY DEF Source
<1>3. flash[p] \in PageOfCells /\ MetasOk(flash[p])
  BY <1>2, PageTypes
<1>4. \A e \in Entry : NvRestoreData(f, p, last, e) = NvRestoreData(flash, p, last, e)
  BY <1>2, <1>3, RestoreBetween
<1> QED
  BY <1>1, <1>4

LEMMA OthersLost ==
    ASSUME FlashTypes(flash), HasRoom(flash), NEW f, FlashTypes(f), HasRoom(f),
           NEW p, NEW last, Source(flash, p, last), NEW q \in Page \ {p}, LosesPage(f, q)
    PROVE  Restored(f) = Restored(flash)
<1>1. CASE f = flash
  BY <1>1, Zenon
<1>2. CASE f # flash
  <2>1. ~Valid(f, q) /\ p \in Page /\ f[p] = flash[p]
    BY <1>2 DEF LosesPage, Source
  <2>2. Page = {p, q}
    BY <2>1 DEF Page
  <2>3. Valid(f, p) /\ PageOk(f[p], last)
    BY <2>1, Zenon DEF Source, Valid
  <2>4. \A x \in Page \ {p} : ~Valid(f, x)
    BY <2>1, <2>2
  <2>5. Source(f, p, last)
    BY <2>1, <2>3, <2>4, Zenon DEF Source
  <2> QED
    BY <2>1, <2>5, SameSource
<1> QED
  BY <1>1, <1>2

LEMMA BetweenSame ==
    ASSUME FlashInv, HasRoom(flash), RamOk(LastActive), NEW f, FlashTypes(f), HasRoom(f), Between(f)
    PROVE  Restored(f) = Restored(flash)
<1>1. PICK p, q, last, edge : p = mNvActivePageId /\ q = OtherPage /\ last = LastActive /\ edge = Edge(flash[p], last)
  OBVIOUS
<1>2. FlashTypes(flash) /\ FlashOk(flash) /\ mNvPageCounter \in Nat /\ RamOk(last) /\ p \in Page /\ q \in Page
      /\ Page = {p, q} /\ PageOk(flash[p], last)
  BY <1>1, Other DEF FlashInv, Types, RamOk
<1>3. /\ f[q] = flash[q]
      /\ \A x \in Cell : x \notin last + 1 .. edge - 1 => f[p][x] = flash[p][x]
      /\ \A x \in last + 1 .. edge - 1 : ~Is(f[p][x], "meta")
  BY <1>1 DEF Between
<1>4. PageOk(f[p], last) /\ Valid(f, p) /\ f[p][0] = flash[p][0] /\ (Valid(f, q) <=> Valid(flash, q))
  BY <1>1, <1>2, <1>3, BetweenWrite
<1>5. Source(flash, p, last)
  BY <1>1, <1>2, ActiveSource
<1>6. Source(f, p, last)
  <2>1. ASSUME NEW x \in Page \ {p}, Valid(f, x) PROVE f[x][0].n < f[p][0].n
    <3>1. x = q
      BY <1>2, <2>1
    <3>2. Valid(flash, x) /\ f[x] = flash[x]
      BY <1>3, <1>4, <2>1, <3>1
    <3>3. flash[x][0].n < flash[p][0].n
      BY <1>5, <2>1, <3>2 DEF Source
    <3> QED
      BY <1>4, <3>2, <3>3
  <2> QED
    BY <1>2, <1>4, <2>1 DEF Source
<1>7. \A x \in Cell : x \in FirstMeta .. last \/ x \in edge .. Bottom - 1 => f[p][x] = flash[p][x]
  <2>1. flash[p] \in PageOfCells /\ MetasOk(flash[p])
    BY <1>2, PageTypes
  <2>2. edge \in last + 1 .. Bottom /\ last \in 0 .. Bottom - 1 /\ Bottom \in Nat
    BY <1>1, <1>2, <2>1, EdgeFacts, Sizes DEF PageOk
  <2> QED
    BY <1>3, <2>2
<1> QED
  BY <1>1, <1>2, <1>5, <1>6, <1>7, SameSource

(* After the copy of a page and before the new one is valid, a restart     *)
(* still goes by the old one.                                              *)
LEMMA OldSource ==
    ASSUME Switched, mNvPageCounter \in Nat
    PROVE  Source(flash, OtherPage, NvLastMetaInfoAddress[OtherPage])
<1>1. PICK p, q, m : p = mNvActivePageId /\ q = OtherPage /\ m = NvLastMetaInfoAddress[q]
  OBVIOUS
<1>2. p \in Page /\ q \in Page /\ Page \ {q} = {p} /\ Valid(flash, q) /\ PageOk(flash[q], m) /\ flash[p][Bottom] = BLANK
  BY <1>1, Other DEF Switched
<1>3. ~Valid(flash, p)
  BY <1>2 DEF Valid, Is
<1>4. \A x \in Page \ {q} : ~Valid(flash, x)
  BY <1>2, <1>3
<1> QED
  BY <1>1, <1>2, <1>4, Zenon DEF Source

LEMMA KeptStored ==
    ASSUME FlashInv, MetaSpaceKept, NEW f, FlashTypes(f), HasRoom(f), KeptBy(f),
           AtFormatErase \/ AtFormatCounter => EmptyValid
    PROVE  Restored(f) = stored
<1>1. FlashTypes(flash) /\ stored = Restored(flash) /\ mNvPageCounter \in Nat
  BY DEF FlashInv, Types
<1>2. HasRoom(flash)
  BY Zenon DEF MetaSpaceKept, HasRoom
<1>3. CASE f = flash
  BY <1>1, <1>3, Zenon
<1>4. CASE RamOk(LastActive) /\ Between(f)
  BY <1>1, <1>2, <1>4, BetweenSame
<1>5. CASE RamOk(LastActive) /\ LosesPage(f, OtherPage)
  <2>1. OtherPage \in Page \ {mNvActivePageId}
    BY <1>5, Other DEF RamOk
  <2>2. Source(flash, mNvActivePageId, LastActive)
    BY <1>5, ActiveSource
  <2> QED
    BY <1>1, <1>2, <1>5, <2>1, <2>2, OthersLost
<1>6. CASE Switched /\ LosesPage(f, mNvActivePageId)
  <2>1. mNvActivePageId \in Page \ {OtherPage}
    BY <1>6, Other DEF Switched
  <2>2. Source(flash, OtherPage, NvLastMetaInfoAddress[OtherPage])
    BY <1>1, <1>6, OldSource
  <2> QED
    BY <1>1, <1>2, <1>6, <2>1, <2>2, OthersLost
<1>7. CASE (AtFormatErase \/ AtFormatCounter) /\ \E p \in Page : LosesPage(f, p)
  <2>1. \A p \in Page : Valid(flash, p) => NoMetas(flash[p])
    BY <1>7 DEF EmptyValid
  <2>2. \A p \in Page : Valid(f, p) => NoMetas(f[p])
    BY <1>7, <2>1 DEF LosesPage, Valid
  <2>3. Restored(flash) = [e \in Entry |-> NONE] /\ Restored(f) = [e \in Entry |-> NONE]
    BY <2>1, <2>2, RestoredNothing
  <2> QED
    BY <1>1, <2>3, Zenon
<1> QED
  BY <1>3, <1>4, <1>5, <1>6, <1>7 DEF KeptBy

-----------------------------------------------------------------------------
(* The meta of a record makes a restart restore the value in the record.   *)
LEMMA ReadsOthers ==
    ASSUME NEW g, NEW last \in 0 .. Bottom - 1, PageOk(g, last), NEW m \in last + 1 .. Bottom - 1, NEW d,
           NEW h, h[m].entry # d, \A a \in FirstMeta .. Bottom - 1 : a # m => h[a] = g[a]
    PROVE  MetasOf(h, m, d) = MetasOf(g, last, d)
<1>1. Bottom \in Nat /\ FirstMeta = 1
  BY Sizes DEF FirstMeta
<1>2. ASSUME NEW a \in MetasOf(h, m, d) PROVE a \in MetasOf(g, last, d)
  <2>1. a \in FirstMeta .. m /\ Is(h[a], "meta") /\ h[a].entry = d
    BY <1>2 DEF MetasOf
  <2>2. a # m /\ a \in FirstMeta .. Bottom - 1 /\ h[a] = g[a]
    BY <1>1, <2>1
  <2>3. a <= last
    BY <2>1, <2>2 DEF PageOk
  <2> QED
    BY <1>1, <2>1, <2>2, <2>3 DEF MetasOf
<1>3. ASSUME NEW a \in MetasOf(g, last, d) PROVE a \in MetasOf(h, m, d)
  <2>1. a \in FirstMeta .. last /\ Is(g[a], "meta") /\ g[a].entry = d
    BY <1>3 DEF MetasOf
  <2>2. a # m /\ a \in FirstMeta .. Bottom - 1 /\ a \in FirstMeta .. m
    BY <1>1, <2>1
  <2> QED
    BY <2>1, <2>2 DEF MetasOf
<1> QED
  BY <1>2, <1>3

(* The metas of d up to m on page h are those up to last on page g, and    *)
(* so are their records.                                                   *)
SameRecords(h, m, g, last, d) ==
    /\ MetasOf(h, m, d) = MetasOf(g, last, d)
    /\ \A x \in Cell : x \in FirstMeta .. last \/ x \in Edge(g, last) .. Bottom - 1 => h[x] = g[x]

LEMMA ReadsSame ==
    ASSUME NEW f, NEW g, NEW p, g[p] \in PageOfCells, MetasOk(g[p]), NEW last, PageOk(g[p], last), NEW d \in Entry,
           NEW m, SameRecords(f[p], m, g[p], last, d)
    PROVE  NvRestoreData(f, p, m, d) = NvRestoreData(g, p, last, d)
<1>1. /\ MetasOf(f[p], m, d) = MetasOf(g[p], last, d)
      /\ \A x \in Cell : x \in FirstMeta .. last \/ x \in Edge(g[p], last) .. Bottom - 1 => f[p][x] = g[p][x]
  BY DEF SameRecords
<1>2. NvRestoreData(f, p, last, d) = NvRestoreData(g, p, last, d)
  BY <1>1, RestoreBetween
<1>3. Bottom \in Nat /\ Cell = 0 .. Bottom /\ FirstMeta = 1 /\ last \in 0 .. Bottom - 1
  BY Sizes DEF Cell, FirstMeta, PageOk
<1>4. MetasOf(f[p], last, d) = MetasOf(g[p], last, d)
  <2>1. \A x \in FirstMeta .. last : f[p][x] = g[p][x]
    BY <1>3, <1>1
  <2> QED
    BY <2>1 DEF MetasOf
<1>5. PICK metas : metas = MetasOf(f[p], m, d)
  OBVIOUS
<1>6. metas = MetasOf(f[p], last, d)
  BY <1>4, <1>5, <1>1
<1>7. /\ metas = {a \in FirstMeta .. m : Is(f[p][a], "meta") /\ f[p][a].entry = d}
      /\ metas = {a \in FirstMeta .. last : Is(f[p][a], "meta") /\ f[p][a].entry = d}
  BY <1>5, <1>6 DEF MetasOf
<1>8. NvRestoreData(f, p, m, d) = NvRestoreData(f, p, last, d)
  BY <1>7, Zenon DEF NvRestoreData
<1> QED
  BY <1>2, <1>8, Zenon

LEMMA ReadsNew ==
    ASSUME NEW f, NEW p, f[p] \in PageOfCells, NEW m \in FirstMeta .. Bottom - 1, NEW e \in Entry, NEW v \in Value,
           NEW r \in Nat, f[p][m] = Meta(e, r), Holds(f[p], e, v, r)
    PROVE  NvRestoreData(f, p, m, e) = v
<1>1. PICK metas : metas = {a \in FirstMeta .. m : Is(f[p][a], "meta") /\ f[p][a].entry = e}
  OBVIOUS
<1>2. Is(f[p][m], "meta") /\ f[p][m].entry = e /\ f[p][m].offset = r
  BY CellFacts
<1>3. m \in metas /\ metas \subseteq 0 .. m /\ m \in Nat
  BY <1>1, <1>2, Sizes DEF FirstMeta
<1>4. Max(metas) = m
  <2>1. Max(metas) \in metas /\ \A k \in metas : k <= Max(metas)
    BY <1>3, MaxFacts
  <2>2. PICK k : k = Max(metas)
    OBVIOUS
  <2>3. k \in metas /\ \A j \in metas : j <= k
    BY <2>1, <2>2, Zenon
  <2>4. k = m
    BY <1>3, <2>3
  <2> QED
    BY <2>2, <2>4
<1>5. NvRestoreData(f, p, m, e) = ReadRecord(f, p, e, r)
  BY <1>1, <1>2, <1>3, <1>4 DEF NvRestoreData
<1> QED
  BY <1>5, ReadRecordValue

(* After the meta is written, and after a page copy, the RAM copy reads    *)
(* what a restart would.                                                   *)
LEMMA WrittenWarm ==
    FlashInv /\ MetaSpaceKept =>
        \A e, m : todo # << >> /\ Head(todo) = WrittenCall(e, m) =>
            stored = [d \in Entry |-> NvRestoreData(flash, mNvActivePageId, m, d)]
<1>1. SUFFICES ASSUME FlashInv, MetaSpaceKept, NEW e, NEW m, todo # << >>, Head(todo) = WrittenCall(e, m)
               PROVE  stored = [d \in Entry |-> NvRestoreData(flash, mNvActivePageId, m, d)]
  OBVIOUS
<1>2. Head(todo).op = "written" /\ Head(todo).meta = m
  BY <1>1 DEF WrittenCall
<1>3. AtWritten
  BY <1>1, <1>2, PhaseOf DEF FlashInv, QuietNames
<1>4. PICK d \in Entry, k \in Cell : RamOk(k) /\ Head(todo) = WrittenCall(d, k)
  BY <1>3 DEF AtWritten
<1>5. k = m
  BY <1>2, <1>4 DEF WrittenCall
<1> QED
  BY <1>1, <1>4, <1>5, WarmReads

LEMMA WrittenWarmNext ==
    (FlashInv /\ MetaSpaceKept)' =>
        (\A e, m : todo # << >> /\ Head(todo) = WrittenCall(e, m) =>
            stored = [d \in Entry |-> NvRestoreData(flash, mNvActivePageId, m, d)])'
BY WrittenWarm, PTL

LEMMA CallerWarm ==
    FlashInv /\ MetaSpaceKept =>
        (mNvModuleInitialized /\ todo # << >> /\ Head(todo).op \in {"copied", "erase old page", "return"} =>
            stored = [d \in Entry |-> NvRestoreData(flash, mNvActivePageId, LastActive, d)])
<1>1. SUFFICES ASSUME FlashInv, MetaSpaceKept, mNvModuleInitialized, todo # << >>,
                      Head(todo).op \in {"copied", "erase old page", "return"}
               PROVE  stored = [d \in Entry |-> NvRestoreData(flash, mNvActivePageId, LastActive, d)]
  OBVIOUS
<1>2. AtCopied \/ AtReturn
  BY <1>1, PhaseOf DEF FlashInv, QuietNames
<1>3. RamOk(LastActive)
  BY <1>1, <1>2 DEF AtCopied, AtReturn
<1>4. PICK last : last = LastActive
  OBVIOUS
<1>5. stored = [d \in Entry |-> NvRestoreData(flash, mNvActivePageId, last, d)]
  BY <1>1, <1>3, <1>4, WarmReads
<1> QED
  BY <1>4, <1>5, Zenon

LEMMA CallerWarmNext ==
    (FlashInv /\ MetaSpaceKept)' =>
        (mNvModuleInitialized /\ todo # << >> /\ Head(todo).op \in {"copied", "erase old page", "return"} =>
            stored = [d \in Entry |-> NvRestoreData(flash, mNvActivePageId, LastActive, d)])'
BY CallerWarm, PTL

-----------------------------------------------------------------------------
(* A save is complete when its meta is.                                    *)
LEMMA MetaSaves ==
    ASSUME FlashInv, MetaSpaceKept, FlashInv', MetaSpaceKept', FlashProgram, AtMeta
    PROVE  \E e \in Entry : stored'[e] \in Value /\ \A d \in Entry \ {e} : stored'[d] = stored[d]
<1>1. /\ Types /\ RamOk(LastActive) /\ mNvActivePageId \in Page /\ FlashTypes(flash)
  BY DEF FlashInv, AtMeta, RamOk, Types
<1>2. PICK e \in Entry, v \in Value, r \in Cell, m \in Cell :
          /\ Placed(e, r, m) /\ Holds(flash[mNvActivePageId], e, v, r)
          /\ Head(todo) = Program(mNvActivePageId, m, <<Meta(e, r)>>)
          /\ Top(Rest, "written") /\ Head(Rest) = WrittenCall(e, m)
  BY DEF AtMeta
<1>3. PICK p, g, edge, last, c :
          p = mNvActivePageId /\ g = flash[p] /\ last = LastActive /\ edge = Edge(g, last) /\ c = Meta(e, r)
  OBVIOUS
<1>4. /\ m \in FirstMeta .. Bottom - 1 /\ m \in last + 1 .. edge - 1
      /\ Size(e) \in Nat \ {0} /\ last \in 0 .. Bottom - 1 /\ edge \in last + 1 .. Bottom
      /\ MetaOk(c, m)
  BY <1>1, <1>2, <1>3, PlacedFacts
<1>5. Bottom \in Nat /\ Cell = 0 .. Bottom /\ r \in Nat /\ m \in Nat /\ FirstMeta = 1
  BY Sizes DEF Cell, Bottom, FirstMeta
<1>6. c \in CellValue
  BY <1>3, <1>5, CellFacts
<1>7. PICK f : f = flash'
  OBVIOUS
<1>8. /\ todo' = Rest
      /\ f[p] = [g EXCEPT ![m] = c] /\ g \in PageOfCells /\ MetasOk(g) /\ f[p] \in PageOfCells
      /\ mNvActivePageId' = p
  <2>1. /\ todo' = Rest /\ UNCHANGED ramState
        /\ f[p] = [g EXCEPT ![m] = c] /\ g \in PageOfCells /\ MetasOk(g) /\ f[p] \in PageOfCells
    BY <1>1, <1>2, <1>3, <1>4, <1>6, <1>7, BecomesCell
  <2> QED
    BY <1>3, <2>1 DEF ramState
<1>9. stored' = [d \in Entry |-> NvRestoreData(f, p, m, d)]
  <2>1. todo' # << >> /\ Head(todo') = WrittenCall(e, m)
    BY <1>2, <1>8 DEF Top
  <2>2. stored' = [d \in Entry |-> NvRestoreData(flash', mNvActivePageId', m, d)]
    BY <2>1, WrittenWarmNext
  <2> QED
    BY <1>7, <1>8, <2>2, Zenon
<1>10. stored = [d \in Entry |-> NvRestoreData(flash, p, last, d)]
  BY <1>1, <1>3, WarmReads
<1>11. PageOk(g, last) /\ f[p][m] = c /\ \A x \in Cell : x # m => f[p][x] = g[x]
  BY <1>1, <1>3, <1>4, <1>5, <1>8 DEF RamOk, PageOfCells
<1>12. NvRestoreData(f, p, m, e) = v
  <2>1. m + 3 <= r /\ Holds(g, e, v, r) /\ r + Size(e) <= edge
    BY <1>2, <1>3 DEF Placed
  <2>2. ASSUME NEW k \in 1 .. Size(e) PROVE f[p][r + k - 1] = g[r + k - 1]
    <3>1. r + k - 1 \in Cell /\ r + k - 1 # m
      BY <1>4, <1>5, <2>1
    <3> QED
      BY <1>11, <3>1
  <2>3. Holds(f[p], e, v, r)
    BY <2>1, <2>2 DEF Holds
  <2>4. f[p][m] = Meta(e, r)
    BY <1>3, <1>11
  <2> QED
    BY <1>4, <1>5, <1>8, <2>3, <2>4, ReadsNew
<1>13. ASSUME NEW d \in Entry \ {e} PROVE NvRestoreData(f, p, m, d) = NvRestoreData(flash, p, last, d)
  <2>1. \A x \in Cell : x \in FirstMeta .. last \/ x \in edge .. Bottom - 1 => f[p][x] = g[x]
    BY <1>4, <1>5, <1>11
  <2>2. MetasOf(f[p], m, d) = MetasOf(g, last, d)
    <3>1. /\ m \in last + 1 .. Bottom - 1 /\ f[p][m].entry # d
          /\ \A a \in FirstMeta .. Bottom - 1 : a # m => f[p][a] = g[a]
      BY <1>3, <1>4, <1>5, <1>11, CellFacts
    <3> QED
      BY <1>4, <1>11, <3>1, ReadsOthers
  <2>3. SameRecords(f[p], m, g, last, d)
    BY <1>3, <2>1, <2>2 DEF SameRecords
  <2>4. /\ flash[p] \in PageOfCells /\ MetasOk(flash[p]) /\ PageOk(flash[p], last) /\ d \in Entry
        /\ SameRecords(f[p], m, flash[p], last, d)
    BY <1>3, <1>8, <1>11, <2>3
  <2> QED
    BY <2>4, ReadsSame
<1>14. stored'[e] = v
  BY <1>9, <1>12
<1>15. \A d \in Entry \ {e} : stored'[d] = stored[d]
  <2>1. ASSUME NEW d \in Entry \ {e} PROVE stored'[d] = stored[d]
    <3>1. stored'[d] = NvRestoreData(f, p, m, d) /\ stored[d] = NvRestoreData(flash, p, last, d)
      BY <1>9, <1>10
    <3> QED
      BY <1>13, <3>1, Zenon
  <2> QED
    BY <2>1
<1> QED
  BY <1>14, <1>15

(* The second counter makes the copy of a page the one that counts.        *)
LEMMA CounterSaves ==
    ASSUME FlashInv, MetaSpaceKept, FlashInv', MetaSpaceKept', FlashProgram, AtLastCounter
    PROVE  stored' = stored
<1>1. /\ Types /\ Switched /\ mNvActivePageId \in Page /\ mNvPageCounter \in Nat /\ FlashTypes(flash)
      /\ Head(todo) = Program(mNvActivePageId, Bottom, <<Counter(mNvPageCounter)>>) /\ Caller(Rest)
  BY DEF FlashInv, AtLastCounter, Switched, Types
<1>2. PICK p, q, g, last, m, c : /\ p = mNvActivePageId /\ q = OtherPage /\ g = flash[p] /\ last = LastActive
                                 /\ m = NvLastMetaInfoAddress[q] /\ c = Counter(mNvPageCounter)
  OBVIOUS
<1>3. c \in CellValue /\ MetaOk(c, Bottom) /\ Bottom \in Cell
  BY <1>1, <1>2, CellFacts, Sizes DEF MetaOk, Cell
<1>4. PICK f : f = flash'
  OBVIOUS
<1>5. /\ todo' = Rest /\ f[p] = [g EXCEPT ![Bottom] = c] /\ g \in PageOfCells /\ MetasOk(g)
      /\ mNvModuleInitialized' /\ mNvActivePageId' = p /\ LastActive' = last
  <2>1. /\ todo' = Rest /\ UNCHANGED ramState
        /\ f[p] = [g EXCEPT ![Bottom] = c] /\ g \in PageOfCells /\ MetasOk(g)
    BY <1>1, <1>2, <1>3, <1>4, BecomesCell
  <2> QED
    BY <1>1, <1>2, <2>1 DEF ramState, LastActive, Switched
<1>6. stored' = [d \in Entry |-> NvRestoreData(f, p, last, d)]
  <2>1. todo' # << >> /\ Head(todo').op \in {"copied", "erase old page", "return"}
    <3>1. \/ Rest # << >> /\ Head(Rest).op \in {"copied", "erase old page"}
          \/ Rest = <<Call("return")>>
      BY <1>1 DEF Caller, Top
    <3>2. Rest # << >> /\ Head(Rest).op \in {"copied", "erase old page", "return"}
      BY <3>1, StackCall
    <3> QED
      BY <1>5, <3>2
  <2>2. stored' = [d \in Entry |-> NvRestoreData(flash', mNvActivePageId', LastActive', d)]
    BY <1>5, <2>1, CallerWarmNext
  <2> QED
    BY <1>4, <1>5, <2>2, Zenon
<1>7. stored = [d \in Entry |-> NvRestoreData(flash, q, m, d)]
  <2>1. HasRoom(flash) /\ stored = Restored(flash)
    BY Zenon DEF MetaSpaceKept, HasRoom, FlashInv
  <2>2. Source(flash, q, m)
    BY <1>1, <1>2, OldSource
  <2> QED
    BY <1>1, <2>1, <2>2, RestoredIs, Zenon
<1>8. ASSUME NEW d \in Entry PROVE NvRestoreData(f, p, last, d) = NvRestoreData(flash, q, m, d)
  <2>1. \A x \in 1 .. Bottom - 1 : f[p][x] = g[x]
    BY <1>5, Sizes DEF PageOfCells, Cell
  <2>2. PageOk(g, last)
    BY <1>1, <1>2 DEF Switched
  <2>3. NvRestoreData(f, p, last, d) = NvRestoreData(flash, p, last, d)
    <3>1. /\ flash[p] \in PageOfCells /\ MetasOk(flash[p]) /\ PageOk(flash[p], last) /\ d \in Entry
          /\ \A x \in 1 .. Bottom - 1 : f[p][x] = flash[p][x]
      BY <1>2, <1>5, <2>1, <2>2
    <3> QED
      BY <3>1, RestoreSame
  <2>4. NvRestoreData(flash, p, last, d) = NvRestoreData(flash, q, m, d)
    BY <1>1, <1>2, Zenon DEF Switched, SameData
  <2> QED
    BY <2>3, <2>4, Zenon
<1> QED
  BY <1>6, <1>7, <1>8

(* The counters of a formatted page save nothing.                          *)
LEMMA FormatSaves ==
    ASSUME FlashInv, FlashInv', FlashProgram, AtFormatCounter, EmptyValid
    PROVE  stored' = stored
<1>1. stored = [e \in Entry |-> NONE]
  <2>1. \A p \in Page : Valid(flash, p) => NoMetas(flash[p])
    BY DEF EmptyValid
  <2>2. Restored(flash) = [e \in Entry |-> NONE]
    BY <2>1, RestoredNothing
  <2> QED
    BY <2>2 DEF FlashInv
<1>2. PICK f : f = flash'
  OBVIOUS
<1>3. \A p \in Page : Valid(f, p) => NoMetas(f[p])
  BY <1>2, FormatCounterEmpty DEF EmptyValid
<1>4. Restored(f) = [e \in Entry |-> NONE]
  BY <1>3, RestoredNothing
<1>5. stored' = Restored(f)
  BY <1>2 DEF FlashInv
<1> QED
  BY <1>1, <1>4, <1>5, Zenon

(* Only the program of a meta changes what a restart restores.             *)
LEMMA KeptFlash ==
    ASSUME FlashInv, MetaSpaceKept, FlashInv', MetaSpaceKept', AtFormatErase \/ AtFormatCounter => EmptyValid,
           KeptBy(flash')
    PROVE  stored' = stored
<1>1. PICK f : f = flash'
  OBVIOUS
<1>2. FlashTypes(f) /\ stored' = Restored(f)
  BY <1>1 DEF FlashInv, Types
<1>3. HasRoom(f)
  BY <1>1, Zenon DEF MetaSpaceKept, HasRoom
<1>4. KeptBy(f)
  BY <1>1
<1>5. Restored(f) = stored
  BY <1>2, <1>3, <1>4, KeptStored
<1> QED
  BY <1>2, <1>5, Zenon

LEMMA ProgramSaves ==
    ASSUME FlashInv, MetaSpaceKept, FlashInv', MetaSpaceKept', AtFormatErase \/ AtFormatCounter => EmptyValid,
           FlashProgram, ~AtMeta
    PROVE  stored' = stored
<1>1. todo # << >> /\ Head(todo).op = "program" /\ Phase
  BY DEF FlashProgram, Running, FlashInv
<1>2. AtRecord \/ AtCopyRecord \/ AtCopyMeta \/ AtFirstCounter \/ AtLastCounter \/ AtFormatCounter
  BY <1>1, PhaseOf DEF QuietNames
<1>3. CASE AtRecord \/ AtCopyRecord \/ AtCopyMeta \/ AtFirstCounter
  BY <1>3, RecordKeeps, CopyKeeps, FirstCounterKeeps, KeptFlash
<1>4. CASE AtLastCounter
  BY <1>4, CounterSaves
<1>5. CASE AtFormatCounter
  BY <1>5, FormatSaves
<1> QED
  BY <1>2, <1>3, <1>4, <1>5

LEMMA LossSaves ==
    ASSUME FlashInv, MetaSpaceKept, FlashInv', MetaSpaceKept', AtFormatErase \/ AtFormatCounter => EmptyValid, PowerLoss
    PROVE  stored' = stored
<1>1. PICK f \in Interrupted : flash' = f
  BY DEF PowerLoss, BecomesFlash
<1>2. KeptBy(f)
  BY InterruptedOk DEF FlashInv
<1> QED
  BY <1>1, <1>2, KeptFlash

-----------------------------------------------------------------------------
(* A format the application asked for is the only one of a storage that    *)
(* may hold something.                                                     *)
Has(s, name) == \E k \in DOMAIN s : s[k].op = name

LEMMA HasTail ==
    ASSUME NEW s, Stack(s), s # << >>, NEW name, Has(Tail(s), name)
    PROVE  Has(s, name)
BY StackTail DEF Has

LEMMA FormattedHas ==
    /\ Has(Formatted(<<Call("formatted")>>), "formatted")
    /\ Has(Tail(Formatted(<<Call("formatted")>>)), "formatted")
<1>1. PICK x, s, u : x = Call("formatted") /\ s = Formatted(<<x>>) /\ u = Tail(Tail(s))
  OBVIOUS
<1>2. /\ Stack(s) /\ s # << >> /\ Tail(s) # << >> /\ Stack(Tail(s))
      /\ u # << >> /\ Stack(u) /\ Tail(u) = <<x>>
  BY <1>1, FormattedStack, Zenon
<1>3. Has(<<x>>, "formatted")
  BY <1>1 DEF Has, Call
<1>4. Has(u, "formatted")
  BY <1>2, <1>3, HasTail
<1>5. Has(Tail(s), "formatted")
  BY <1>1, <1>2, <1>4, HasTail
<1>6. Has(s, "formatted")
  BY <1>2, <1>5, HasTail
<1> QED
  BY <1>1, <1>5, <1>6, Zenon

LEMMA FormattingHas == Formatting <=> Has(todo, "formatted")
BY DEF Formatting, Has

LEMMA OwnFormat ==
    ASSUME FlashInv, Stack(todo), Unformatted, ~Formatting, AtFormatErase \/ AtFormatCounter
    PROVE  EmptyValid
<1>1. PICK x, s : x = Call("formatted") /\ s = Formatted(<<x>>)
  OBVIOUS
<1>2. Has(s, "formatted") /\ Has(Tail(s), "formatted") /\ s # << >> /\ Stack(s)
  BY <1>1, FormattedHas, FormattedStack, Zenon
<1>3. ~Has(todo, "formatted")
  BY FormattingHas
<1>4. todo # << >> /\ Head(todo).op \in {"erase", "program"}
  <2>1. CASE AtFormatErase
    BY <2>1 DEF AtFormatErase, Top
  <2>2. CASE AtFormatCounter
    <3>1. PICK y : todo = Formatted(<<y>>) \/ todo = Tail(Formatted(<<y>>))
      BY <2>2 DEF AtFormatCounter
    <3>2. todo # << >> /\ \E p, a, c : Head(todo) = Program(p, a, c)
      BY <3>1, FormattedStack, Zenon
    <3> QED
      BY <3>2 DEF Program
  <2> QED
    BY <2>1, <2>2
<1>5. CASE mNvModuleInitialized
  <2>1. CASE AtFormatErase
    <3>1. Rest = <<Erase(1)>> \o s \/ Rest = s
      BY <1>1, <1>5, <2>1, StackCall DEF AtFormatErase, FormatCaller
    <3>2. Has(Rest, "formatted")
      <4>1. PICK t : t = <<Erase(1)>> \o s
        OBVIOUS
      <4>2. Stack(t) /\ t # << >> /\ Tail(t) = s
        BY <1>2, <4>1, StackPush
      <4>3. Has(t, "formatted")
        BY <1>2, <4>2, HasTail
      <4> QED
        BY <1>2, <3>1, <4>1, <4>3
    <3>3. todo # << >>
      BY <2>1 DEF AtFormatErase, Top
    <3> QED
      BY <1>3, <3>2, <3>3, HasTail DEF Rest
  <2>2. CASE AtFormatCounter
    <3>1. todo = s \/ todo = Tail(s)
      BY <1>1, <1>5, <2>2, StackCall DEF AtFormatCounter, FormatCaller
    <3> QED
      BY <1>2, <1>3, <3>1
  <2> QED
    BY <2>1, <2>2
<1>6. CASE ~mNvModuleInitialized
  BY <1>4, <1>6 DEF Unformatted
<1> QED
  BY <1>5, <1>6

-----------------------------------------------------------------------------
(* The storage implements the data sets.                                   *)
LEMMA StoredType == FlashInv => stored \in [Entry -> Value \union {NONE}]
<1>1. SUFFICES ASSUME FlashInv PROVE stored \in [Entry -> Value \union {NONE}]
  OBVIOUS
<1>2. PICK p : p = ActivePage(flash)
  OBVIOUS
<1>3. stored = [e \in Entry |-> IF p = gVirtualPageNone_c \/ LastMeta(flash, p) = NotFound THEN NONE
                               ELSE NvRestoreData(flash, p, LastMeta(flash, p), e)]
  BY <1>1, <1>2, RestoredFrom, Zenon DEF FlashInv
<1>4. ASSUME NEW e \in Entry, p # gVirtualPageNone_c, LastMeta(flash, p) # NotFound
      PROVE  NvRestoreData(flash, p, LastMeta(flash, p), e) \in Value \union {NONE}
  <2>1. p \in Page /\ Valid(flash, p)
    BY <1>2, <1>4 DEF ActivePage, Page
  <2>2. PICK last \in 0 .. Bottom - 1 : PageOk(flash[p], last)
    BY <1>1, <2>1 DEF FlashInv, FlashOk
  <2>3. LastMeta(flash, p) = last
    BY <1>4, <2>2, LastMetaOk
  <2>4. flash[p] \in PageOfCells
    BY <1>1, <2>1, PageTypes DEF FlashInv, Types
  <2>5. NvRestoreData(flash, p, last, e) \in Value \union {NONE}
    BY <2>2, <2>4, ReadBack
  <2> QED
    BY <2>3, <2>5
<1>5. ASSUME NEW e \in Entry
      PROVE  (IF p = gVirtualPageNone_c \/ LastMeta(flash, p) = NotFound THEN NONE
              ELSE NvRestoreData(flash, p, LastMeta(flash, p), e)) \in Value \union {NONE}
  BY <1>4
<1> QED
  BY <1>3, <1>5

LEMMA StoredTypeNext == (FlashInv => stored \in [Entry -> Value \union {NONE}])'
BY StoredType, PTL

(* The other steps leave the flash alone.                                  *)
LEMMA StoredStays ==
    ASSUME [Next]_vars, ~FlashErase, ~FlashProgram, ~PowerLoss
    PROVE  stored' = stored
<1>1. CASE NvWriteRecord \/ NvWriteRecord_written \/ NvCopyPage \/ NvInternalCopy \/ NvCopyPage_switch \/ Copied
  BY <1>1
     DEF NvWriteRecord, NvWriteRecord_written, NvCopyPage, NvInternalCopy, NvCopyPage_switch,
         Copied
<1>2. CASE \/ NvSyncSave_copied \/ NvSyncSave_erased \/ NvInternalFormat \/ NvUpdateLastMetaInfoAddress
           \/ NvModuleInit_init \/ NvModuleInit_return
  BY <1>2
     DEF NvSyncSave_copied, NvSyncSave_erased, NvInternalFormat, NvUpdateLastMetaInfoAddress,
         NvModuleInit_init, NvModuleInit_return
<1>3. CASE NvAddSaveRequestToQueue \/ NvPushPendingSave \/ NvProcessFirstSaveInQueue \/ NvSyncSave \/ NvAtomicSave \/ NvIdle
  BY <1>3
     DEF NvAddSaveRequestToQueue, NvPushPendingSave, NvProcessFirstSaveInQueue, NvSyncSave,
         NvAtomicSave, NvIdle
<1>4. CASE NvIdle_erase \/ NvIdle_saves \/ NvCompletePendingOperations \/ NvShutdown \/ NvFormat_formatted
  BY <1>4
     DEF NvIdle_erase, NvIdle_saves, NvCompletePendingOperations, NvShutdown, NvFormat_formatted
<1>5. CASE NvModuleInit \/ NvSetCriticalSection \/ NvClearCriticalSection \/ UNCHANGED vars
  BY <1>5 DEF NvModuleInit, NvSetCriticalSection, NvClearCriticalSection, vars
<1>6. CASE \E e \in Entry, v \in Value : CallSave(e, v)
  BY <1>6 DEF CallSave, Saves, Enter
<1>7. CASE CallNvAtomicSave \/ CallNvIdle \/ CallNvCompletePendingOperations \/ CallNvShutdown \/ CallNvFormat
  BY <1>7
     DEF CallNvAtomicSave, CallNvIdle, CallNvCompletePendingOperations, CallNvShutdown,
         CallNvFormat, Saves, Enter
<1>8. CASE \E e \in Entry : NvRestoreDataSet(e)
  BY <1>8 DEF NvRestoreDataSet
<1> QED
  BY <1>1, <1>2, <1>3, <1>4, <1>5, <1>6, <1>7, <1>8 DEF Next, Step

LEMMA SavesOrKeeps ==
    ASSUME FlashInv, FlashInv', MetaSpaceKept, MetaSpaceKept', Stack(todo), Unformatted, ~Formatting, [Next]_vars
    PROVE  \/ stored' = stored
           \/ /\ \E e \in Entry : stored'[e] \in Value /\ \A d \in Entry \ {e} : stored'[d] = stored[d]
              /\ ~Formatting'
<1>1. AtFormatErase \/ AtFormatCounter => EmptyValid
  BY OwnFormat
<1>2. CASE FlashErase
  BY <1>1, <1>2, EraseKeeps, KeptFlash
<1>3. CASE PowerLoss
  BY <1>1, <1>3, LossSaves
<1>4. CASE FlashProgram /\ ~AtMeta
  BY <1>1, <1>4, ProgramSaves
<1>5. CASE FlashProgram /\ AtMeta
  <2>1. todo' = Rest /\ todo # << >>
    BY <1>5 DEF FlashProgram, Running
  <2>2. ~Has(Rest, "formatted")
    BY <2>1, HasTail, FormattingHas DEF Rest
  <2>3. ~Formatting'
    BY <2>1, <2>2 DEF Formatting, Has
  <2> QED
    BY <1>5, <2>3, MetaSaves
<1> QED
  BY <1>2, <1>3, <1>4, <1>5, StoredStays

LEMMA AbstractStep ==
    ASSUME FlashInv, FlashInv', MetaSpaceKept, MetaSpaceKept', Stack(todo), Unformatted, [Next]_vars
    PROVE  [Abstract!Next]_<<stored, Formatting>>
<1>1. Formatting \in BOOLEAN /\ Formatting' \in BOOLEAN
  BY Zenon DEF Formatting
<1>2. CASE Formatting
  <2>1. stored' \in [Entry -> Value \union {NONE}]
    BY StoredTypeNext
  <2>2. Abstract!Format
    BY <1>1, <1>2, <2>1, Zenon DEF Abstract!Format
  <2> QED
    BY <2>2 DEF Abstract!Next
<1>3. CASE ~Formatting
  <2>1. CASE stored' = stored
    <3>1. CASE Formatting'
      <4>1. Formatting' = TRUE
        BY <1>1, <3>1, Zenon
      <4>2. Abstract!BeginFormat
        BY <2>1, <4>1, Zenon DEF Abstract!BeginFormat
      <4> QED
        BY <4>2 DEF Abstract!Next
    <3>2. CASE ~Formatting'
      <4>1. Formatting' = Formatting
        BY <1>1, <1>3, <3>2, Zenon
      <4> QED
        BY <2>1, <4>1, Zenon
    <3> QED
      BY <3>1, <3>2
  <2>2. CASE stored' # stored
    <3>1. PICK e \in Entry : stored'[e] \in Value /\ \A d \in Entry \ {e} : stored'[d] = stored[d]
      BY <1>3, <2>2, SavesOrKeeps
    <3>2. ~Formatting'
      BY <1>3, <2>2, SavesOrKeeps
    <3>3. Formatting' = Formatting
      BY <1>1, <1>3, <3>2, Zenon
    <3>4. Abstract!Save(e)
      BY <1>3, <3>1, <3>3, Zenon DEF Abstract!Save
    <3> QED
      BY <3>4 DEF Abstract!Next
  <2> QED
    BY <2>1, <2>2
<1> QED
  BY <1>2, <1>3

LEMMA AbstractInit ==
    ASSUME Init
    PROVE  Abstract!Init /\ Stack(todo) /\ Unformatted
<1>1. todo = << >> /\ stored = [e \in Entry |-> NONE]
  BY DEF Init
<1>2. Stack(todo) /\ Unformatted
  BY <1>1, StackEmpty DEF Unformatted
<1>3. ~Formatting
  BY <1>1 DEF Formatting
<1>4. Formatting = FALSE
  <2>1. Formatting \in BOOLEAN
    BY Zenon DEF Formatting
  <2> QED
    BY <1>3, <2>1, Zenon
<1>5. Abstract!Init
  BY <1>1, <1>4, Zenon DEF Abstract!Init
<1> QED
  BY <1>2, <1>5

(* At every command of the flash controller, and whenever power fails in   *)
(* one, what a restart would restore changes by the one data set whose     *)
(* meta is completed; page copies, erases, the saves that are cut short    *)
(* and the format of an empty storage change nothing.  It holds as long as *)
(* a page keeps the blank cell that the meta search at start-up ends at,   *)
(* and nobody formats the storage while an erase is pending.               *)
THEOREM Refinement ==
    ASSUME NoFormatWhileErasing
    PROVE  Spec /\ []MetaSpaceKept => ImplementsDataSets
<1>1. Init => Abstract!Init /\ Stack(todo) /\ Unformatted
  BY AbstractInit
<1>2. FlashInv /\ MetaSpaceKept /\ Stack(todo) /\ Unformatted /\ [Next]_vars => Stack(todo)' /\ Unformatted'
  BY StackKept, UnformattedKept
<1>3. FlashInv /\ FlashInv' /\ MetaSpaceKept /\ MetaSpaceKept' /\ Stack(todo) /\ Unformatted /\ [Next]_vars =>
         [Abstract!Next]_<<stored, Formatting>>
  BY AbstractStep
<1>4. Spec => []FlashInv
  BY FlashInvariant
<1>5. Spec /\ []MetaSpaceKept => Abstract!Spec
  BY <1>1, <1>2, <1>3, <1>4, PTL DEF Spec, Abstract!Spec
<1> QED
  BY <1>5 DEF ImplementsDataSets

=============================================================================
