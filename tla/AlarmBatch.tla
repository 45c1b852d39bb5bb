----------------------------- MODULE AlarmBatch -----------------------------
(***************************************************************************)
(* The alarm-detail batch of app/src/app_alarm.c: the edges of a           *)
(* rate-limit window, laid out as pages of one report into the radio's     *)
(* alarm queue, or held.                                                   *)
(*                                                                         *)
(* Every function here runs under m_lock, so each is one operator from the *)
(* batch before to the batch after.  Edges are counted, not named; how     *)
(* many of them a page takes depends on their encoding, so a layout is any *)
(* that the greedy loop can produce.                                       *)
(***************************************************************************)
EXTENDS Integers, Sequences

CONSTANTS
  BatchMax,     \* ALARM_BATCH_MAX
  AlarmDepth,   \* APP_RADIO_TX_QUEUE_DEPTH
  PageEvents    \* bound: events one page takes at most

ASSUME BatchAssumption == {BatchMax, AlarmDepth, PageEvents} \subseteq Nat \ {0}

\* m_batch_count, m_window_total, m_batch_held, m_window_open; and, out of the
\* radio's sight, what the reports told so far and what no page had room for.
NoBatch == [n |-> 0, total |-> 0, held |-> FALSE, open |-> FALSE, told |-> 0, silent |-> 0]

BatchType(edges) ==
  [n : 0..BatchMax, total : 0..edges, held : BOOLEAN, open : BOOLEAN,
   told : 0..edges, silent : 0..edges]

(* The greedy layout of n events: at most AlarmDepth pages, all the events   *)
(* unless the pages run out or an event fits no frame of the budget.         *)
Layouts(n) ==
  {l \in [pages : 0..AlarmDepth, laid : 0..n, skipped : BOOLEAN] :
     /\ l.pages <= l.laid /\ l.laid <= l.pages * PageEvents
     /\ l.skipped => l.laid < n /\ l.pages < AlarmDepth
     /\ l.laid < n => l.skipped \/ l.pages = AlarmDepth}

\* The total a report carries: its own events and those the window dropped.
TotalOf(b, left) == b.total - left

\* Mutant: what is left over opens a window of its own, without a timer.
ReportedUnheld(b, l) ==
  LET left == IF l.skipped THEN 0 ELSE b.n - l.laid
      said == IF l.pages > 0 THEN [b EXCEPT !.told = @ + TotalOf(b, left)]
                             ELSE [b EXCEPT !.silent = @ + TotalOf(b, left)]
  IN [said EXCEPT !.n = left, !.total = left, !.held = FALSE, !.open = left > 0]
\* The report leaves with the pages of l; what is left over stays held.
Reported(b, l) ==
  LET left  == IF l.skipped THEN 0 ELSE b.n - l.laid
      total == TotalOf(b, left)
      said  == IF l.pages > 0 THEN [b EXCEPT !.told = @ + total]
                              ELSE [b EXCEPT !.silent = @ + total]
  IN IF left > 0
       THEN [said EXCEPT !.n = left, !.total = left, !.held = TRUE, !.open = TRUE]
       ELSE [said EXCEPT !.n = 0, !.total = 0, !.held = FALSE, !.open = FALSE]

Kept(b) == [b EXCEPT !.held = TRUE, !.open = TRUE]

MustWait(l, room) == l.pages > room /\ room < AlarmDepth

(* alarm_batch_flush(): the batches it may leave, with the pages it queued   *)
(* and whether it arms its own timer.  hold is app_radio_data_hold_ms():     *)
(* "down" (the next link-up releases the batch), "wait" (the boot/join       *)
(* sequence, whose deadline it waits for itself) or "none".                  *)
Flushes(b, hold, room) ==
  IF b.n = 0
    THEN {[batch |-> [b EXCEPT !.open = FALSE, !.total = 0], pages |-> 0, timer |-> FALSE]}
  ELSE IF hold # "none"
    THEN {[batch |-> Kept(b), pages |-> 0, timer |-> hold = "wait"]}
  ELSE {[batch |-> IF MustWait(l, room) THEN Kept(b) ELSE Reported(b, l),
         pages |-> IF MustWait(l, room) THEN 0
                   ELSE IF l.pages < room THEN l.pages ELSE room,
         timer |-> FALSE] : l \in Layouts(b.n)}

Added(b) == [b EXCEPT !.total = @ + 1, !.n = IF @ < BatchMax THEN @ + 1 ELSE @]

(* alarm_queue() with a rate limit: the first edge opens the window.         *)
Opens(b) == ~b.open
Collected(b) ==
  Added(IF Opens(b) THEN [b EXCEPT !.open = TRUE, !.total = 0, !.n = 0] ELSE b)
ClosesEarly(b) == b.n = BatchMax /\ ~b.held

\* alarm_queue() without one: the edge is added, and the batch flushed.
CollectedAlone(b) == Added(IF b.n = 0 THEN [b EXCEPT !.total = 0] ELSE b)
=============================================================================
