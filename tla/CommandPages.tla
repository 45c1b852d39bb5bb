---------------------------- MODULE CommandPages ----------------------------
(***************************************************************************)
(* The answers of app/src/app_cmd.c that need more than one frame: how      *)
(* each kind of answer is laid out as pages, and the one page stream by     *)
(* which the node sends the pages after the first by itself.                *)
(*                                                                         *)
(* A unit of an answer (a field, an item, an alarm, a ROM) is known by its  *)
(* place in the answer, and by its encoded size; a page is the sequence of  *)
(* its units.  Every radio command and every page runs on the radio work    *)
(* queue, so each is one action.  A scan, an Info and a radio state are     *)
(* kept for the pages to come; settings and requested fields are read and   *)
(* laid out again for each page.  An answer over the phone is paged by the  *)
(* phone: laid out afresh for each page, it leaves nothing behind.          *)
(***************************************************************************)
EXTENDS Integers, Sequences, SequencesExt

CONSTANTS
  Contents,    \* the answers that are kept: their kinds and the sizes of their units
  Settings,    \* the sizes the settings-info items may have, by what is configured
  Budgets,     \* payload budgets of a frame
  DumpBudget,  \* DUMP_PAGE_BUDGET
  Envelope,    \* bytes page_index and page_count take
  Requests,    \* field ids of GetConfig and GetParam requests, in order
  FieldSizes,  \* DUMP_FIELDS: the size of each field
  AlarmFields, \* the fields that are alarm slots, and may be empty
  MaxSets      \* bound: how often the configuration changes

ASSUME BudgetAssumption ==
  /\ DumpBudget \in Nat /\ Envelope \in Nat /\ Budgets \subseteq Nat
  /\ MaxSets \in Nat
ASSUME FieldAssumption ==
  /\ FieldSizes \in Seq(Nat \ {0}) /\ AlarmFields \subseteq DOMAIN FieldSizes
  /\ Requests \subseteq Seq(Nat)

\* The answers a stream keeps, and all that are laid out for the frame's budget.
Snapshots == {"w1scan", "info", "radio"}
LaidOut   == Snapshots \union {"settings"}
ASSUME ContentsAssumption ==
  /\ Contents \subseteq [kind : Snapshots, units : Seq(Nat), alarms : Nat]
  /\ Settings \subseteq Seq(Nat) /\ \A a, b \in Settings : Len(a) = Len(b)

VARIABLES
  filled,      \* the configuration: which fields are there (alarm slots not empty)
  settings,    \* the configuration and slots: the sizes of the settings-info items now
  stream,      \* m_page_stream
  pageWork,    \* m_page_stream_work is scheduled
  asked,       \* history: the last answer that was laid out, and its pages
  told,        \* history: the pages queued since the stream was armed
  steady,      \* history: the configuration did not change since then
  sets         \* how often the configuration changed

pagesVars == <<filled, settings, stream, pageWork, asked, told, steady, sets>>

(* An answer: its kind, the sizes of its units, how many of them, at the end, *)
(* are active alarms.                                                        *)
Answer(kind, units, alarms) == [kind |-> kind, units |-> units, alarms |-> alarms]

\* No page: an Error in its place, or a full queue.
NoPage == <<0>>

NoAnswer == Answer("none", <<>>, 0)
NoStream == [kind |-> "none", next |-> 0, count |-> 0, cap |-> 0, what |-> NoAnswer, ids |-> <<>>]

Unasked == [what |-> NoAnswer, cap |-> 0, pages |-> <<>>]

PagesInit ==
  /\ filled = DOMAIN FieldSizes
  /\ settings \in Settings
  /\ stream = NoStream
  /\ pageWork = FALSE
  /\ asked = Unasked
  /\ told = <<>>
  /\ steady = TRUE
  /\ sets = 0

----------------------------------------------------------------------------
\* Layouts.

Total(sizes, page) ==
  LET sum[i \in 0..Len(page)] == IF i = 0 THEN 0 ELSE sum[i - 1] + sizes[page[i]]
  IN sum[Len(page)]
SizeOf(a, page) == Total(a.units, page)
Whole(a) == [u \in DOMAIN a.units |-> u]

FitsWhole(a, cap) == SizeOf(a, Whole(a)) <= cap
Fits(a, page, cap) == SizeOf(a, page) + Envelope <= cap

IsAlarm(a, u) == u > Len(a.units) - a.alarms

\* The alarms of a page are one run of the list.
MayFollow(a, page, u) ==
  ~(page # <<>> /\ IsAlarm(a, u) /\ IsAlarm(a, Last(page)) /\ Last(page) # u - 1)

\* Mutant: a unit that opens a page is not tried alone.
PackedUntried(a, cap, pages, u) ==
  IF pages # <<>> /\ MayFollow(a, Last(pages), u) /\ Fits(a, Append(Last(pages), u), cap)
    THEN Front(pages) \o <<Append(Last(pages), u)>>
    ELSE Append(pages, <<u>>)
(* One step of the greedy layouts: the unit joins the page, opens the next    *)
(* one, or, too big even alone, is left out.                                  *)
Packed(a, cap, pages, u) ==
  IF pages # <<>> /\ MayFollow(a, Last(pages), u) /\ Fits(a, Append(Last(pages), u), cap)
    THEN Front(pages) \o <<Append(Last(pages), u)>>
  ELSE IF Fits(a, <<u>>, cap) THEN Append(pages, <<u>>)
  ELSE pages

(* config_status_layout(), info_layout(), rs_layout().                        *)
Greedy(a, cap) ==
  LET upto[u \in 0..Len(a.units)] ==
        IF u = 0 THEN <<>> ELSE Packed(a, cap, upto[u - 1], u)
  IN upto[Len(a.units)]

\* Most ROMs per page that fit, with page fields if it is not the whole scan.
PerPage(a, cap) ==
  LET n == Len(a.units)
      fit == {k \in 1..n : IF k = n THEN FitsWhole(a, cap) ELSE Fits(a, SubSeq(Whole(a), 1, k), cap)}
  IN IF fit = {} THEN 0 ELSE Max(fit)

(* The split of a 1-Wire scan by ROM.                                         *)
Split(a, cap) ==
  LET k == PerPage(a, cap)
      n == Len(a.units)
      lesser(x, y) == IF x < y THEN x ELSE y
  IN IF k = 0 THEN <<>>
     ELSE [p \in 1..((n + k - 1) \div k) |-> SubSeq(Whole(a), (p - 1) * k + 1, lesser(p * k, n))]

Layout(a, cap) == IF a.kind = "w1scan" THEN Split(a, cap) ELSE Greedy(a, cap)

\* A field asked for twice is told once, an empty alarm slot not at all.
Tell(s, f, there) == IF f \in there /\ ~Contains(s, f) THEN Append(s, f) ELSE s
Dumped(ids, there) ==
  LET upto[i \in 0..Len(ids)] == IF i = 0 THEN <<>> ELSE Tell(upto[i - 1], ids[i], there)
  IN upto[Len(ids)]

\* The field opens the next page.
NextPage(used, size) == used > 0 /\ used + size > DumpBudget

(* The pages of a GetConfig or a GetParam: of the fields there are now.       *)
Dump(pages, f) ==
  IF NextPage(Total(FieldSizes, Last(pages)), FieldSizes[f])
    THEN Append(pages, <<f>>)
    ELSE Front(pages) \o <<Append(Last(pages), f)>>
DumpPages(ids, there) ==
  LET fields == Dumped(ids, there)
      upto[i \in 0..Len(fields)] == IF i = 0 THEN <<<<>>>> ELSE Dump(upto[i - 1], fields[i])
  IN upto[Len(fields)]

----------------------------------------------------------------------------
\* Radio commands.

\* page_stream_start(), and the kick that the action PAGE_STREAM becomes; page 0
\* may find no room in the queue, and the stream goes on without it.
StreamArmed(s, page) ==
  /\ stream' = s
  /\ pageWork' = TRUE
  /\ steady' = TRUE
  /\ \E queued \in BOOLEAN : told' = <<IF queued THEN page ELSE NoPage>>

\* The answer of one frame, or an Error (NOT_READY over a running stream,
\* BUDGET_TOO_SMALL): nothing is kept.
OneFrame == UNCHANGED <<stream, pageWork, told, steady>>

(* GetConfig and GetParam: pages of a fixed budget, so page 0 may be too big  *)
(* for the frame: an Error goes in its place, and the stream goes on.         *)
AskConfig(ids) ==
  LET pages == DumpPages(ids, filled)
  IN /\ asked' = [what |-> Answer("config", FieldSizes, 0), cap |-> DumpBudget, pages |-> pages]
     /\ IF Len(pages) > 1 /\ stream.kind = "none"
          THEN StreamArmed([NoStream EXCEPT !.kind = "request", !.next = 1, !.count = Len(pages),
                                      !.ids = ids], pages[1])
          ELSE OneFrame
     /\ UNCHANGED <<filled, settings, sets>>

Refuses(a) == stream.kind # "none" /\ OneFrame

SettingsInfo == Answer("settings", settings, 0)

(* GetInfo, GetRadioState, GetSettings, W1Scan: an answer that does not fit    *)
(* whole is laid out for the budget, and kept for the pages to come unless    *)
(* they read it again.                                                        *)
Ask(a, cap) ==
  LET pages == Layout(a, cap)
  IN /\ asked' = [what |-> a, cap |-> cap, pages |-> pages]
     /\ \/ (FitsWhole(a, cap) \/ Len(pages) <= 1) /\ OneFrame
        \/ ~FitsWhole(a, cap) /\ Len(pages) > 1 /\ Refuses(a)
        \/ /\ ~FitsWhole(a, cap) /\ Len(pages) > 1
           /\ stream.kind = "none"
           /\ StreamArmed([NoStream EXCEPT !.kind = a.kind, !.next = 1, !.count = Len(pages),
                                     !.cap = cap, !.what = IF a.kind = "settings" THEN NoAnswer ELSE a],
                          pages[1])
     /\ UNCHANGED <<filled, settings, sets>>

\* A SetParam adds and removes alarm rules and changes settings; a rebind of the 1-Wire
\* slots changes the types the settings-info tells.
SetParam(there, items) ==
  /\ sets < MaxSets
  /\ <<there, items>> # <<filled, settings>>
  /\ filled' = there /\ settings' = items
  /\ steady' = FALSE
  /\ sets' = sets + 1
  /\ asked' = Unasked
  /\ UNCHANGED <<stream, pageWork, told>>

(* The pages of the running stream as its next turn finds them: a request is   *)
(* dispatched again, with the fields of now, and the settings are laid out    *)
(* again, with the sizes of now.                                              *)
StreamPages ==
  CASE stream.kind = "request"  -> DumpPages(stream.ids, filled)
    [] stream.kind = "settings" -> Layout(SettingsInfo, stream.cap)
    [] OTHER                    -> Layout(stream.what, stream.cap)

\* A request that makes fewer pages than it did is answered with an Error.
StreamPage == IF stream.next < Len(StreamPages) THEN StreamPages[stream.next + 1] ELSE NoPage
\* Other pages that are not there (-ENODATA) end the stream.
PageIsGone == stream.kind # "request" /\ stream.next >= Len(StreamPages)

\* Mutant: the last page is taken for one past the end.
EndsBefore(s) == s.next + 2 >= s.count
EndsAfter(s) == s.next + 1 >= s.count

(* page_stream_work_handler() and app_cmd_stream_next(): two slots are free;  *)
(* the handler runs once more after the last page.                            *)
NextStreamPage ==
  /\ pageWork
  /\ IF stream.kind = "none"
       THEN /\ pageWork' = FALSE
            /\ told' = <<>>
            /\ UNCHANGED stream
       ELSE IF PageIsGone
       THEN /\ pageWork' = FALSE
            /\ stream' = NoStream
            /\ UNCHANGED told
       ELSE /\ told' = Append(told, StreamPage)
            /\ stream' = IF EndsAfter(stream) THEN NoStream
                         ELSE [stream EXCEPT !.next = @ + 1]
            /\ UNCHANGED pageWork
  /\ asked' = Unasked
  /\ UNCHANGED <<filled, settings, steady, sets>>

\* The link is down when the page is due.
StreamCancel ==
  /\ pageWork
  /\ pageWork' = FALSE
  /\ stream' = NoStream
  /\ told' = <<>>
  /\ asked' = Unasked
  /\ UNCHANGED <<filled, settings, steady, sets>>

----------------------------------------------------------------------------
\* A phone, which asks for each page.

(* The page the phone gets of `count`, or what it gets in its place.           *)
HostPage(a, cap, page) ==
  LET pages == Layout(a, cap)
  IN IF page = 0 /\ FitsWhole(a, cap) THEN Whole(a)
     ELSE IF page >= Len(pages) THEN NoPage
     ELSE pages[page + 1]

(* What a phone collects: the whole answer, or the pages up to the first that  *)
(* does not exist.                                                            *)
HostRead(a, cap) ==
  IF FitsWhole(a, cap) THEN <<HostPage(a, cap, 0)>>
  ELSE LET n == Min({p \in 0..Len(a.units) : HostPage(a, cap, p) = NoPage})
       IN [p \in 1..n |-> HostPage(a, cap, p - 1)]

PagesNext ==
  \/ \E ids \in Requests : AskConfig(ids)
  \/ \E a \in Contents \union {SettingsInfo}, cap \in Budgets : Ask(a, cap)
  \/ \E slots \in SUBSET AlarmFields, items \in Settings :
       SetParam((DOMAIN FieldSizes \ AlarmFields) \union slots, items)
  \/ NextStreamPage
  \/ StreamCancel

PagesSpec == PagesInit /\ [][PagesNext]_pagesVars

----------------------------------------------------------------------------
PagesType ==
  /\ filled \subseteq DOMAIN FieldSizes /\ settings \in Settings
  /\ stream.kind \in LaidOut \union {"none", "request"}
  /\ stream.kind # "none" => stream.next \in 1..(stream.count - 1)
  /\ {pageWork, steady} \subseteq BOOLEAN
  /\ sets \in 0..MaxSets

\* Safety: a stream that runs has its handler scheduled; one without would
\* refuse every later answer that needs pages (stream_busy()).
StreamIsDriven == stream.kind # "none" => pageWork

Flat(pages) == FlattenSeq(pages)

Allowed(a, cap, pages) ==
  \A p \in DOMAIN pages :
    /\ Fits(a, pages[p], cap)
    /\ \A i \in 2..Len(pages[p]) : MayFollow(a, SubSeq(pages[p], 1, i - 1), pages[p][i])

\* The sequence s cut into pages: page p ends at ends[p].
Cut(s, ends, m) == [p \in 1..m |-> SubSeq(s, ends[p - 1] + 1, ends[p])]
Cuts(s, m) ==
  {ends \in [0..m -> 0..Len(s)] :
     ends[0] = 0 /\ ends[m] = Len(s) /\ \A p \in 1..m : ends[p - 1] <= ends[p]}

\* Once and in order, and every unit that fits a frame at all.
TellsAll(a, cap, s) ==
  /\ \A i, j \in DOMAIN s : i < j => s[i] < s[j]
  /\ {s[i] : i \in DOMAIN s} = {u \in DOMAIN a.units : Fits(a, <<u>>, cap)}

(* Safety, a layout against its definition: the pages tell every unit that    *)
(* fits a frame at all, once and in order, no page is empty or too big, and   *)
(* no layout in order has fewer pages; a phone that reads on to the first     *)
(* page that does not exist gets the same units.                              *)
LayoutIsRight ==
  LET a == asked.what
      cap == asked.cap
      greedy == asked.pages
  IN a.kind \in LaidOut \ {"w1scan"} =>
       /\ TellsAll(a, cap, Flat(greedy))
       /\ Allowed(a, cap, greedy) /\ \A p \in DOMAIN greedy : greedy[p] # <<>>
       /\ \A m \in 0..(Len(greedy) - 1) : \A ends \in Cuts(Flat(greedy), m) :
            ~Allowed(a, cap, Cut(Flat(greedy), ends, m))
       /\ Flat(HostRead(a, cap)) = IF FitsWhole(a, cap) THEN Whole(a) ELSE Flat(greedy)

PagesInv == PagesType /\ StreamIsDriven /\ LayoutIsRight

(* Safety: a stream of pages that ended told its answer from the first page   *)
(* to the last, each once, whatever was asked while it ran; an answer that    *)
(* each page reads again, if the configuration did not change meanwhile.      *)
\* The pages of the stream are those it was armed with.
Lasting == stream.kind \in Snapshots \/ (stream.kind # "none" /\ steady)
StreamTellsAll ==
  [][Lasting /\ stream' = NoStream /\ told' # <<>> =>
       /\ Len(told') = stream.count
       /\ Tail(told') = Tail(StreamPages)
       /\ told'[1] \in {NoPage, StreamPages[1]}]_pagesVars

=============================================================================
