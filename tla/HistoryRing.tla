---------------------------- MODULE HistoryRing ----------------------------
(***************************************************************************)
(* The history's flash ring, app/src/app_history.c: a ring of erase pages, *)
(* each a header and a stream of packed records, written one double word   *)
(* at a time; the mount that finds the ring again after a reset; and the   *)
(* replay that reads it by absolute ordinals.                              *)
(*                                                                         *)
(* A capture holds m_lock throughout but is one step per flash operation:  *)
(* a reset may come between any two, an operation may fail, and the radio  *)
(* may start a replay meanwhile.  A byte of a record is known by the       *)
(* record's number and its place in it.  Times, fix-ups, v1 pages and the  *)
(* wrap of the 32-bit sequence number are left out.                        *)
(***************************************************************************)
EXTENDS Integers, Sequences, FiniteSetsExt

CONSTANTS
  NPages,         \* HIST_NPAGES
  DwData,         \* DW_DATA: data bytes of a double word
  PayloadDw,      \* PAYLOAD_DW_V2: double words of a page
  SampleSize,     \* of each layout, the bytes of a record (m_sample_size)
  Intervals,      \* the values of interval_report
  GoesBack,       \* the ring may go on from pages of an earlier layout than its newest
  MaxRecords,     \* bound: captures in a run
  MaxEvents       \* bound: resets, failed flash operations, clears and replays in a run

ASSUME RingAssumption ==
  /\ NPages \in Nat /\ NPages >= 3
  /\ {DwData, PayloadDw} \subseteq Nat \ {0}
  /\ SampleSize \in Seq(1..(PayloadDw * DwData)) /\ SampleSize # <<>>
  /\ Intervals \subseteq Nat \ {0} /\ GoesBack \in BOOLEAN
  /\ {MaxRecords, MaxEvents} \subseteq Nat

VARIABLES
  flash,    \* the pages: header (valid if its CRC is) and double words written so far
  ram,      \* m_live .. m_head_full, m_layout, m_interval, m_remount_pending
  at,       \* the flash operation the capture under way does next; "idle": none
  rest,     \* that capture's bytes not staged yet, m_head_dw and m_stage_len at its start
  sel,      \* the layout layout_build() would make of the configuration now
  replay,   \* m_hist_active, m_replay_active, m_hist_cursor, m_hist_end
  made,     \* ghost: the layout and interval each record was taken under
  events    \* counter for MaxEvents

vars == <<flash, ram, at, rest, sel, replay, made, events>>

Layouts == DOMAIN SampleSize
Phys == 0..(NPages - 1)

\* records_per_page()
PerPage(l) == (PayloadDw * DwData) \div SampleSize[l]

Zero == <<0, 0>>
Erased == <<-1, 0>>
Blank == [valid |-> FALSE, seq |-> 0, layout |-> 1, interval |-> 0, first |-> 0, dws |-> <<>>]
NoRest == [left |-> <<>>, dw |-> 0, staged |-> 0]
NoReplay == [on |-> FALSE, held |-> FALSE, cursor |-> 0, end |-> 0, last |-> 0, layout |-> 0]

-----------------------------------------------------------------------------
(* The view in RAM *)

HeadPage(r) == r.live[Len(r.live)]
HeadRecords(r) == IF r.live = <<>> THEN 0 ELSE r.abs - HeadPage(r).first
FirstAbs(r) == IF r.live = <<>> THEN r.abs ELSE r.live[1].first
After(phys) == (phys + 1) % NPages

\* Mutant: a reset starts the ordinals again.
ResetRewinds(r) ==
  [r EXCEPT !.live = <<>>, !.dw = 0, !.stage = <<>>, !.full = FALSE, !.seq = @ + 1, !.abs = 0]

\* backend_reset_logical()
Reset(r) ==
  [r EXCEPT !.live = <<>>, !.dw = 0, !.stage = <<>>, !.full = FALSE, !.seq = @ + 1]

\* Mutant: a page that is rolled onto stays the oldest live one.
OpenedKeepsTail(r) ==
  [r EXCEPT !.live = Append(r.live, [first |-> r.abs, phys |-> After(r.last)]),
            !.seq = @ + 1, !.last = After(r.last), !.dw = 0, !.stage = <<>>, !.full = FALSE]

\* A rollover commits its page (the second half of advance_page()).
Opened(r) ==
  LET next == After(r.last)
      evicts == r.live # <<>> /\ r.live[1].phys = next
  IN [r EXCEPT !.live = Append(IF evicts THEN Tail(r.live) ELSE r.live,
                               [first |-> r.abs, phys |-> next]),
               !.seq = @ + 1, !.last = next, !.dw = 0, !.stage = <<>>, !.full = FALSE]

\* The record's first bytes fill the stage, up to a double word.
Taken(r, left) == Min({DwData - Len(r.stage), Len(left)})
Staged(r, left) == [r EXCEPT !.stage = @ \o SubSeq(left, 1, Taken(r, left))]
Remaining(r, left) == SubSeq(left, Taken(r, left) + 1, Len(left))

\* The stage as flush_stage_pad() writes it.
Padded(stage) == [j \in 1..DwData |-> IF j <= Len(stage) THEN stage[j] ELSE Zero]
Flushed(r) == [r EXCEPT !.dw = @ + 1, !.stage = <<>>]
Programmed(f, r, dw) == [f EXCEPT ![HeadPage(r).phys].dws = Append(@, dw)]

-----------------------------------------------------------------------------
(* backend_mount() *)

ValidPages == {p \in Phys : flash[p].valid}

\* The scan keeps the first page of the highest sequence number.
Newest(S) ==
  CHOOSE p \in S : \A q \in S : \/ flash[q].seq < flash[p].seq
                                \/ flash[q].seq = flash[p].seq /\ p <= q
Matching(l) == {p \in ValidPages : flash[p].layout = l}

\* The page i before head continues its run.
Continues(head, i) ==
  LET p == (head + NPages - i) % NPages
  IN /\ flash[p].valid
     /\ flash[p].layout = flash[head].layout /\ flash[p].interval = flash[head].interval
     /\ flash[head].seq - flash[p].seq = i
Chain(head) ==
  LET n == Max({k \in 0..(NPages - 1) : \A i \in 1..k : Continues(head, i)})
  IN [j \in 1..(n + 1) |-> (head + NPages - (n + 1 - j)) % NPages]

\* Mutant: the mount leaves the last double word out.
FoundFewer(p) ==
  LET l == flash[p].layout
  IN IF flash[p].dws = <<>> THEN 0
     ELSE Min({((Len(flash[p].dws) - 1) * DwData) \div SampleSize[l], PerPage(l)})

\* The records the head page is taken to hold, from its written double words.
FoundRecords(p) ==
  LET l == flash[p].layout
  IN Min({(Len(flash[p].dws) * DwData) \div SampleSize[l], PerPage(l)})

\* The newest page of the layout is the head; without one the ring only goes on
\* after the newest page of any.
Mounted(l, r) ==
  LET r0 == [r EXCEPT !.live = <<>>, !.seq = 0, !.abs = 0, !.dw = 0, !.stage = <<>>,
                      !.full = FALSE, !.layout = l]
      any == Newest(ValidPages)
      head == Newest(Matching(l))
  IN IF ValidPages = {} THEN r0
     ELSE IF Matching(l) = {} THEN [r0 EXCEPT !.seq = flash[any].seq + 2, !.last = any]
     ELSE [r0 EXCEPT !.live = [i \in 1..Len(Chain(head)) |->
                                 LET p == Chain(head)[i] IN [first |-> flash[p].first, phys |-> p]],
                     !.seq = flash[head].seq + 1, !.last = head,
                     !.abs = flash[head].first + FoundRecords(head),
                     !.dw = Len(flash[head].dws), !.full = TRUE,
                     !.interval = flash[head].interval]

\* What backend_mount() returns.
Restored(r) == r.live # <<>> /\ r.abs # r.live[1].first

\* app_history_init(): the layout it builds may not be the one captures use.
Booted(l) ==
  LET r == Mounted(l, [live |-> <<>>, seq |-> 0, abs |-> 0, last |-> NPages - 1, dw |-> 0,
                       stage |-> <<>>, full |-> FALSE, layout |-> l, interval |-> 0,
                       pending |-> TRUE])
  IN IF Restored(r) THEN r ELSE [r EXCEPT !.interval = 0]

-----------------------------------------------------------------------------
Init ==
  /\ flash = [p \in Phys |-> Blank]
  /\ sel = 1 /\ ram = Booted(1)
  /\ at = "idle" /\ rest = NoRest /\ replay = NoReplay
  /\ made = <<>> /\ events = 0

\* An operation of the flash fails only within the bound.
MayFail == events < MaxEvents /\ events' = events + 1
Works == events' = events

\* The capture under way ends.
Done == at' = "idle" /\ rest' = NoRest

\* The record is stored. A full page's staged tail is committed at once.
Stored(r) ==
  LET counted == [r EXCEPT !.abs = @ + 1]
      fills == HeadRecords(counted) >= PerPage(r.layout)
  IN /\ ram' = [counted EXCEPT !.full = @ \/ fills]
     /\ IF fills /\ r.stage # <<>> THEN at' = "tail" /\ rest' = NoRest ELSE Done

\* The byte loop of backend_append(), up to its next write.
Streams(r, left, dw, staged) ==
  LET s == Staged(r, left)
  IN IF Len(s.stage) = DwData
     THEN /\ ram' = s /\ at' = "stream"
          /\ rest' = [left |-> Remaining(r, left), dw |-> dw, staged |-> staged]
     ELSE Stored(s)

\* The head page takes no more records.
NeedsPage(r) == r.live = <<>> \/ r.full \/ HeadRecords(r) + 1 > PerPage(r.layout)

\* backend_append() from the rollover test on.
Appends(r, rec) ==
  \/ /\ NeedsPage(r) /\ replay.held /\ ram' = r /\ Done
  \/ /\ NeedsPage(r) /\ ~replay.held /\ ram' = r
     /\ at' = IF r.live # <<>> /\ r.stage # <<>> THEN "close" ELSE "erase"
     /\ rest' = [NoRest EXCEPT !.left = rec]
  \/ ~NeedsPage(r) /\ Streams(r, rec, r.dw, Len(r.stage))

\* capture(), up to backend_append(): the remount of a boot whose layout changed,
\* then the interval, then the layout.
Remounted ==
  IF ram.pending /\ sel # ram.layout
  THEN IF ~replay.held /\ Restored(Mounted(sel, ram)) THEN Mounted(sel, ram)
       ELSE Reset(IF replay.held THEN [ram EXCEPT !.layout = sel] ELSE Mounted(sel, ram))
  ELSE ram
AtInterval(r, i) == IF r.interval = i THEN r ELSE [Reset(r) EXCEPT !.interval = i]
AtLayout(r, l) == IF r.layout = l THEN r ELSE [Reset(r) EXCEPT !.layout = l]
Ready(i) == [AtLayout(AtInterval(Remounted, i), sel) EXCEPT !.pending = FALSE]

\* The bytes of record n.
Record(n, l) == [j \in 1..SampleSize[l] |-> <<n, j>>]

\* A slot off the grid splits: it closes a head page that still takes records.
Capture(i, split) ==
  /\ at = "idle" /\ Len(made) < MaxRecords
  /\ GoesBack \/ ~ram.pending \/ ~replay.held
  /\ made' = Append(made, [layout |-> sel, interval |-> i])
  /\ LET r == Ready(i)
         rec == Record(Len(made) + 1, sel)
         closes == split /\ r.live # <<>> /\ ~r.full
         closed == [r EXCEPT !.full = TRUE]
     IN \/ ~closes /\ ~split /\ Appends(r, rec)
        \/ closes /\ r.stage = <<>> /\ Appends(closed, rec)
        \/ /\ closes /\ r.stage # <<>>
           /\ ram' = closed /\ at' = "split" /\ rest' = [NoRest EXCEPT !.left = rec]
  /\ UNCHANGED <<flash, sel, replay, events>>

\* The split's padded write; its failure is left to advance_page().
SplitWrites ==
  /\ at = "split"
  /\ \/ /\ Works /\ flash' = Programmed(flash, ram, Padded(ram.stage))
        /\ Appends(Flushed(ram), rest.left)
     \/ MayFail /\ UNCHANGED flash /\ Appends(ram, rest.left)
  /\ UNCHANGED <<sel, replay, made>>

\* advance_page() closes the old head ...
CloseWrites ==
  /\ at = "close"
  /\ \/ /\ Works /\ flash' = Programmed(flash, ram, Padded(ram.stage))
        /\ ram' = Flushed(ram) /\ at' = "erase" /\ UNCHANGED rest
     \/ MayFail /\ UNCHANGED <<flash, ram>> /\ Done
  /\ UNCHANGED <<sel, replay, made>>

\* ... erases the next page (one that fails may have erased it) ...
PageErases ==
  /\ at = "erase"
  /\ LET erased == [flash EXCEPT ![After(ram.last)] = Blank]
     IN \/ Works /\ flash' = erased /\ at' = "header" /\ UNCHANGED rest
        \/ MayFail /\ flash' \in {flash, erased} /\ Done
  /\ UNCHANGED <<ram, sel, replay, made>>

\* ... and writes its header; the record follows.
HeaderWrites ==
  /\ at = "header"
  /\ \/ /\ Works
        /\ flash' = [flash EXCEPT ![After(ram.last)] =
                       [valid |-> TRUE, seq |-> ram.seq, layout |-> ram.layout,
                        interval |-> ram.interval, first |-> ram.abs, dws |-> <<>>]]
        /\ Streams(Opened(ram), rest.left, 0, 0)
     \/ MayFail /\ UNCHANGED <<flash, ram>> /\ Done
  /\ UNCHANGED <<sel, replay, made>>

\* A double word that failed: its data is dropped, and unless nothing of the
\* record, nor of the one before, went with it, the page is closed.
Dropped(r) ==
  [r EXCEPT !.stage = <<>>, !.full = @ \/ r.dw # rest.dw \/ rest.staged # 0]

StreamWrites ==
  /\ at = "stream"
  /\ \/ /\ Works /\ flash' = Programmed(flash, ram, ram.stage)
        /\ Streams(Flushed(ram), rest.left, rest.dw, rest.staged)
     \/ MayFail /\ UNCHANGED flash /\ ram' = Dropped(ram) /\ Done
  /\ UNCHANGED <<sel, replay, made>>

TailWrites ==
  /\ at = "tail"
  /\ \/ /\ Works /\ flash' = Programmed(flash, ram, Padded(ram.stage)) /\ ram' = Flushed(ram)
     \/ MayFail /\ UNCHANGED <<flash, ram>>
  /\ Done /\ UNCHANGED <<sel, replay, made>>

-----------------------------------------------------------------------------
(* Around the captures *)

\* A slot re-typed, a capability or a channel list changed in the configuration.
\* With ~GoesBack a layout that was left does not come back.
Retype ==
  /\ \E l \in Layouts : l # sel /\ (GoesBack \/ l > sel) /\ sel' = l
  /\ UNCHANGED <<flash, ram, at, rest, replay, made, events>>

\* app_history_set_channels(), the list already in the configuration. It drops the
\* pending remount: with ~GoesBack not before the boot's first capture.
SetChannels ==
  /\ at = "idle" /\ (GoesBack \/ ~ram.pending)
  /\ ram' = [AtLayout(ram, sel) EXCEPT !.pending = FALSE] /\ ram' # ram
  /\ UNCHANGED <<flash, at, rest, sel, replay, made, events>>

\* app_history_clear(): the erase goes page by page, and its failure is ignored.
\* It drops the pending remount as well.
Clear ==
  /\ at = "idle" /\ events < MaxEvents /\ events' = events + 1
  /\ \E n \in 0..NPages :
       /\ n = NPages \/ GoesBack \/ ~ram.pending
       /\ flash' = [p \in Phys |-> IF p < n THEN Blank ELSE flash[p]]
  /\ ram' = [Reset(ram) EXCEPT !.pending = FALSE]
  /\ UNCHANGED <<at, rest, sel, replay, made>>

\* A reset or a loss of power, at any point of a capture, and the next boot. The
\* layout inputs may still change before its first capture.
Boot ==
  /\ events < MaxEvents /\ events' = events + 1
  /\ \E l \in Layouts : (GoesBack \/ l <= sel) /\ ram' = Booted(l)
  /\ Done /\ replay' = NoReplay
  /\ UNCHANGED <<flash, sel, made>>

-----------------------------------------------------------------------------
(* Reading *)

\* backend_read(): the page of an ordinal, and its bytes; <<>> is -EIO.
PageOf(a) ==
  LET S == {i \in DOMAIN ram.live : ram.live[i].first <= a} IN IF S = {} THEN 1 ELSE Max(S)
Flash(phys, d) ==
  LET dws == flash[phys].dws
  IN IF d \div DwData < Len(dws) THEN dws[(d \div DwData) + 1][(d % DwData) + 1] ELSE Erased
InStage(i, d) == ram.live[i].phys = HeadPage(ram).phys /\ d >= ram.dw * DwData
Readable(i, d) == InStage(i, d) => d - ram.dw * DwData < Len(ram.stage)
ByteAt(i, d) ==
  IF InStage(i, d) THEN ram.stage[d - ram.dw * DwData + 1] ELSE Flash(ram.live[i].phys, d)
Read(a) ==
  LET i == PageOf(a)
      size == SampleSize[ram.layout]
      from == (a - ram.live[i].first) * size
  IN IF \A j \in 0..(size - 1) : Readable(i, from + j)
     THEN [j \in 1..size |-> ByteAt(i, from + j - 1)]
     ELSE <<>>

Window == IF ram.live = <<>> THEN {} ELSE FirstAbs(ram)..(ram.abs - 1)

\* The number a stored record was taken under; 0: not read back whole.
NumberOf(bytes) ==
  IF bytes # <<>> /\ bytes[1][1] > 0 /\ bytes = Record(bytes[1][1], ram.layout)
  THEN bytes[1][1] ELSE 0

\* app_radio_history_replay_start() takes the cursor and the end ...
StartReplay ==
  /\ at = "idle" /\ ~replay.on /\ events < MaxEvents /\ events' = events + 1
  /\ replay' = [on |-> TRUE, held |-> FALSE, cursor |-> FirstAbs(ram), end |-> ram.abs, last |-> 0,
                layout |-> IF ram.pending THEN 0 ELSE ram.layout]
  /\ UNCHANGED <<flash, ram, at, rest, sel, made>>

\* ... and then holds the rollover off; a capture may come between.
HoldRollover ==
  /\ replay.on /\ ~replay.held /\ replay' = [replay EXCEPT !.held = TRUE]
  /\ UNCHANGED <<flash, ram, at, rest, sel, made, events>>

\* export_locked() with room for one record: from the cursor, or the oldest record
\* if that one is gone, past what cannot be read.
Exportable ==
  {a \in Window : replay.cursor <= a /\ a < replay.end /\ Read(a) # <<>>}
ExportFrame ==
  /\ at = "idle" /\ replay.held /\ Exportable # {}
  /\ LET a == Min(Exportable)
         n == NumberOf(Read(a))
     IN replay' = [replay EXCEPT !.cursor = a + 1, !.last = IF n = 0 THEN @ ELSE n]
  /\ UNCHANGED <<flash, ram, at, rest, sel, made, events>>

\* The replay runs out, or the radio gives it up (hist_finish()).
EndReplay ==
  /\ replay.on /\ replay' = NoReplay
  /\ UNCHANGED <<flash, ram, at, rest, sel, made, events>>

Flashes == SplitWrites \/ CloseWrites \/ PageErases \/ HeaderWrites \/ StreamWrites \/ TailWrites
Next ==
  \/ \E i \in Intervals, split \in BOOLEAN : Capture(i, split)
  \/ Flashes \/ Retype \/ SetChannels \/ Clear \/ Boot
  \/ StartReplay \/ HoldRollover \/ ExportFrame \/ EndReplay

Spec == Init /\ [][Next]_vars

-----------------------------------------------------------------------------
(* Properties *)

Numbers == 0..MaxRecords
Byte == {Zero, Erased} \union (Numbers \X Nat)
Page == [valid : BOOLEAN, seq : Nat, layout : Layouts, interval : Nat, first : Nat,
         dws : Seq([1..DwData -> Byte])]

TypeOK ==
  /\ flash \in [Phys -> Page] /\ \A p \in Phys : Len(flash[p].dws) <= PayloadDw
  /\ ram \in [live : Seq([first : Nat, phys : Phys]), seq : Nat, abs : Nat, last : Phys,
              dw : 0..PayloadDw, stage : Seq(Byte), full : BOOLEAN, layout : Layouts,
              interval : Nat, pending : BOOLEAN]
  /\ Len(ram.stage) <= DwData /\ (at # "stream" => Len(ram.stage) < DwData)
  /\ Len(ram.live) <= NPages
  /\ at \in {"idle", "split", "close", "erase", "header", "stream", "tail"}
  /\ rest \in [left : Seq(Byte), dw : 0..PayloadDw, staged : 0..DwData]
  /\ sel \in Layouts
  /\ replay \in [on : BOOLEAN, held : BOOLEAN, cursor : Nat, end : Nat, last : Numbers,
                 layout : Layouts \union {0}]
  /\ made \in Seq([layout : Layouts, interval : Intervals]) /\ Len(made) <= MaxRecords
  /\ events \in 0..MaxEvents

\* The pages taken to be live are one run of the flash: each holds, under the
\* current layout and interval, the ordinals from its own first one to the next
\* page's.  Only the oldest may be gone, when a rollover erased it and got no
\* further.  A page of an earlier run that a mount chains in breaks it, and the
\* count of stored records with it (backend_reset_logical(), backend_mount()).
OneRun ==
  \A i \in DOMAIN ram.live :
    LET lp == ram.live[i]
        page == flash[lp.phys]
        next == IF i = Len(ram.live) THEN ram.abs ELSE ram.live[i + 1].first
    IN /\ lp.first <= next /\ next <= lp.first + PerPage(ram.layout)
       /\ i < Len(ram.live) => ram.live[i + 1].phys = After(lp.phys)
       /\ \/ /\ page.valid /\ page.first = lp.first /\ page.layout = ram.layout
             /\ ram.interval \in {0, page.interval}
          \/ i = 1 /\ page = Blank /\ lp.phys = After(ram.last)

\* What is read at an ordinal is in place: it may be missing (a write failed
\* under it, or the oldest page is half evicted) or the padding of a closed
\* page, but is never shifted, nor of two records, nor of a record taken under
\* another layout or interval (the damage a failed double word may do,
\* backend_append()).
InPlace(a) ==
  LET bytes == Read(a)
      got == {j \in DOMAIN bytes : bytes[j][1] > 0}
  IN \A j \in got :
       /\ bytes[j][2] = j
       /\ \A k \in got : bytes[k][1] = bytes[j][1]
       /\ made[bytes[j][1]].layout = ram.layout
       /\ ram.interval \in {0, made[bytes[j][1]].interval}
RecordsInPlace == at = "idle" => \A a \in Window : InPlace(a)

\* Later ordinals hold later records: no mount chains a page of an earlier run
\* onto a newer one.  "Burn one seq value so no future page can ever land exactly
\* 1 above the last pre-reset page's seq" (backend_reset_logical()), and a mount
\* that restores nothing still goes on after the newest page (backend_mount()).
RecordOf(a) == Max({0} \union {Read(a)[j][1] : j \in DOMAIN Read(a)})
NoStalePage ==
  at = "idle" =>
    \A a, b \in Window : (a < b /\ RecordOf(b) > 0) => RecordOf(a) < RecordOf(b)

\* The ring can be read: its pages are one run, and its records are where they
\* count and in the order they were taken.
RingInv == TypeOK /\ OneRun /\ RecordsInPlace /\ NoStalePage

\* The records the flash holds whole, staged bytes apart.
OnFlash(i, d) == ~InStage(i, d)
Committed ==
  {NumberOf(Read(a)) : a \in {b \in Window :
     LET i == PageOf(b) IN OnFlash(i, (b + 1 - ram.live[i].first) * SampleSize[ram.layout] - 1)}}
    \ {0}
Found == {NumberOf(Read(a)) : a \in Window} \ {0}

\* A reset loses the staged tail and nothing else: "each record is durable once
\* its double word flushes".  Every record that was stored, wherever in a write,
\* a rollover or a split the power failed, is found by the next mount of its
\* layout.
CommittedSurvive ==
  [][(Boot /\ ram'.layout = ram.layout) => Committed \subseteq Found']_vars

\* A replay sends no record twice or out of order, and none of a layout other
\* than its cursor was taken under, over captures, evictions and resets of the
\* ring meanwhile ("the replay ends instead of streaming the new layout under
\* the old one").  One that starts before the boot's first capture is left out:
\* a remount may come between its cursor and its hold.
ReplayInOrder ==
  [][(ExportFrame /\ replay.layout # 0) =>
       LET n == NumberOf(Read(Min(Exportable)))
       IN n > 0 => n > replay.last /\ made[n].layout = replay.layout]_vars

=============================================================================
