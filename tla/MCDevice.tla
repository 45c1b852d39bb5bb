------------------------------ MODULE MCDevice ------------------------------
(* An instance of the unit beside its radio: one behaviour moves one part of   *)
(* it, chosen at the start, and the others keep their initial state.           *)
EXTENDS CommandPages, Commands, AlarmEval, W1Slots, ParamBatch

CONSTANT Parts     \* the parts a run moves
VARIABLES part, deck

others == <<part, deck>>
deviceVars == <<pagesVars, cmdVars, alarmVars, w1Vars, paramVars, others>>

---------------------------------------------------------------------------
(* Pages: of every kind of answer one that fits a frame and one that does not. *)
ContentsC ==
  {Answer(k, u, 0) : k \in {"w1scan", "radio"}, u \in {<<1, 2>>, <<2, 2, 1>>}}
    \cup {Answer("info", <<1, 1, 2>>, 2), Answer("info", <<2, 1, 1, 1>>, 3), Answer("info", <<1, 4>>, 0)}
SettingsC == {<<1, 1, 1>>, <<2, 2, 1>>, <<1, 2, 2>>, <<1, 4, 1>>}
RequestsC == {<<1>>, <<1, 2, 3>>, <<3, 2, 2>>}
SizesC    == <<2, 1, 2>>

---------------------------------------------------------------------------
(* Commands: a reset, a key, a claim or a bad SetParam, followed by another.     *)
TapsC ==
  {"vendor_reset", "factory_reset", "set_bad"} \X {"claim_active", "device_reset", "set_deny"}
    \cup {"set_secret_key", "set_keys", "claim_done"} \X {"vendor_reset", "lrw_reset", "factory_reset"}
    \cup {<<"enter_calibration", "reboot">>, <<"reset_counters", "lrw_join">>}
DownlinksC == {"set_keys", "set_rule", "set_bad", "save", "lrw_join", "reset_counters"}

---------------------------------------------------------------------------
(* Alarms: a deck is the pair of rules that a slot is edited between; without  *)
(* rules, the watches over the probes or over the board.                      *)
Rule(k, w1, on, hold, from, to, tag) ==
  [kind |-> k, w1 |-> w1, on |-> on, hold |-> hold, from |-> from, to |-> to, tag |-> <<tag>>]
Band   == Rule("threshold", FALSE, TRUE, 1, 0, 0, "A")
Probe  == Rule("threshold", TRUE, TRUE, 0, 0, 0, "B")
Tilt   == Rule("state", TRUE, TRUE, 1, 1, 1, "B")
Lasts  == Rule("state", FALSE, TRUE, 2, 1, 1, "A")
Rises  == Rule("state", FALSE, TRUE, 1, 0, 1, "A")
Hit    == Rule("pulse", FALSE, TRUE, 1, 0, 1, "A")
Motion == Rule("pulse", FALSE, TRUE, 2, 1, 1, "A")
Still  == Rule("pulse", FALSE, TRUE, 2, 0, 0, "A")
Rate   == Rule("rate", FALSE, TRUE, 0, 0, 0, "A")
Decks  == {{Band, [Band EXCEPT !.on = FALSE]}, {Probe, Tilt}, {Lasts, Rises}, {Hit, Still},
           {Motion, Rate}}
RulesC == UNION Decks
PartsOfC == [t \in {"A", "B"} |-> IF t = "A" THEN 1 ELSE 2]

InDeck(k) == \E r \in deck \cap RulesC : r.kind = k \/ (k = "threshold" /\ r.w1)
DeckNext ==
  \/ \E i \in Idx, r \in (deck \cap RulesC) \cup {NoRule} : Store(i, r)
  \/ InDeck("threshold") /\ Reading
  \/ InDeck("state") /\ LevelTurns
  \/ LevelEvent
  \/ deck \cap RulesC # {} /\ PulseEvent
  \/ InDeck("rate") /\ Counts
  \/ deck = {NoRule} /\ \E s \in Slots : SlotRebinds(s) \/ Samples(s)
  \/ deck = {} /\ BoardReads
  \/ Poll \/ Tick

---------------------------------------------------------------------------
(* 1-Wire: three probes of one type, one more than its driver takes, and one   *)
(* of another; slots that are new, that expect a type, and that are taught,    *)
(* one of them without its type.                                              *)
TypeOfC == [d \in 1..4 |-> IF d = 4 THEN "B" ELSE "A"]
Saves(rs, ks) == [rom |-> rs, kind |-> ks]
Untaught == Saves(<<0, 0>>, <<"", "">>)
SavedC == {Untaught, Saves(<<0, 0>>, <<"B", "A">>), Saves(<<4, 2>>, <<"", "A">>)}
\* What hangs on the bus at boot; any of it may come and go later.
BusesC == {{}, {1, 4}, {2, 3, 4}, {1, 2, 3, 4}}

---------------------------------------------------------------------------
(* Parameters: one rule slot for the probe of slot 1, one for anything.         *)
FieldsC == {<<1, 13>>, <<2, 2>>, <<3, 1>>, <<3, 23>>, <<4, 1>>, <<5, 2>>}
Board   == [NoneSlot EXCEPT !.on = TRUE, !.type = 1, !.kind = "state", !.to = 1]
First   == [NoneSlot EXCEPT !.on = TRUE, !.slot = 1, !.type = 2, !.kind = "threshold",
                            !.hi = 9, !.dwell = 2]
Invalid == [First EXCEPT !.dwell = 10]
Absent  == [NoneSlot EXCEPT !.slot = 3]
Message(tp, replace, writes, put) == [tp |-> tp, replace |-> replace, writes |-> writes, slots |-> put]
BatchesC ==
  {Message(tp, FALSE, <<1, 13>> :> v, <<>>) : tp \in {"lrw", "nfc"}, v \in {7, 300}}
    \cup {Message("nfc", FALSE, w, <<>>) :
            w \in {(<<2, 2>> :> 0) @@ (<<3, 23>> :> 2), <<3, 23>> :> 0, (<<2, 2>> :> 3) @@ (<<5, 2>> :> 7)}}
    \cup {Message("lrw", again, w, put) : again \in BOOLEAN, w \in {<<>>, <<3, 23>> :> 2},
            put \in {0 :> First, (0 :> Absent) @@ (1 :> Invalid), 1 :> Absent}}
    \cup {Message("vendor", TRUE, <<>>, <<>>), Message("vendor", FALSE, <<>>, 0 :> First),
          Message("nfc", TRUE, <<1, 13>> :> -1, <<>>)}
ShellWritesC == {<<<<1, 13>>, 5>>, <<<<2, 2>>, 5>>, <<<<3, 1>>, 1>>, <<<<3, 23>>, 0>>,
                 <<<<3, 23>>, 2>>, <<<<4, 1>>, 10>>, <<<<5, 2>>, 7>>}
ShellRulesC == {Board, First, Invalid}
Held(check, type, sample, put) ==
  [fields |-> (<<1, 13>> :> check) @@ (<<2, 2>> :> sample) @@ (<<3, 1>> :> 1) @@ (<<3, 23>> :> type)
                @@ (<<4, 1>> :> 10) @@ (<<5, 2>> :> 7),
   slots |-> put]
StoresC == {Held(5, 0, 5, [i \in {0, 1} |-> NoneSlot]), Held(300, 2, 3, (0 :> First) @@ (1 :> Invalid))}

---------------------------------------------------------------------------
Init ==
  /\ part \in Parts
  /\ PagesInit /\ (part # "pages" => settings = CHOOSE items \in Settings : TRUE)
  /\ CmdInit /\ (part # "commands" =>
                   phone = (CHOOSE taps \in Taps : TRUE) /\ flash.rule = "stale")
  /\ AlarmInit /\ IF part = "alarms" THEN deck \in Decks \cup {{NoRule}, {}} /\ mbOk = (deck # {})
                  ELSE deck = {} /\ mbOk
  /\ W1Init /\ plugged \in BusesC /\ (part # "w1" => plugged = {} /\ Saves(rom, kind) = Untaught)
  /\ ParamInit /\ (part # "params" => draft.fields[<<1, 13>>] = 5)

Next ==
  \/ part = "pages" /\ PagesNext
     /\ UNCHANGED <<cmdVars, alarmVars, w1Vars, paramVars, others>>
  \/ part = "commands" /\ CmdNext
     /\ UNCHANGED <<pagesVars, alarmVars, w1Vars, paramVars, others>>
  \/ part = "alarms" /\ DeckNext
     /\ UNCHANGED <<pagesVars, cmdVars, w1Vars, paramVars, others>>
  \/ part = "w1" /\ W1Next
     /\ UNCHANGED <<pagesVars, cmdVars, alarmVars, paramVars, others>>
  \/ part = "params" /\ ParamNext
     /\ UNCHANGED <<pagesVars, cmdVars, alarmVars, w1Vars, others>>
Spec == Init /\ [][Next]_deviceVars
=============================================================================
