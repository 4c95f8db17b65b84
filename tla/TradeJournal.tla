---------------------------- MODULE TradeJournal ----------------------------
(***************************************************************************)
(* AnalyticsConsole: the performance of an account, the heatmap of a month *)
(* and the journal of its trades, whose setup and notes the user edits in  *)
(* place.  A row of the journal shows the user's edit, once there is one,  *)
(* and the last answer of GET /trades otherwise.                           *)
(*                                                                         *)
(* A trade's realized P&L is its outcome, and its day is a month.          *)
(***************************************************************************)
EXTENDS Integers, FiniteSets, SequencesExt

CONSTANTS JournalTrades,  \* what was traded: [id -> product, pnl, month]
          EditedTrades,   \* bound: those the user edits
          Months,         \* months, as integers
          Setups,         \* SETUP_TAGS, and "" for none
          Notes,          \* texts of a note, "" for none
          MaxSaves,       \* bound: saves under way
          NoEdit, NoAnalytics

ASSUME JournalAssumption ==
  /\ IsFiniteSet(DOMAIN JournalTrades) /\ EditedTrades \subseteq DOMAIN JournalTrades
  /\ Months \subseteq Int /\ IsFiniteSet(Months) /\ "" \in Setups /\ "" \in Notes
  /\ \A t \in DOMAIN JournalTrades :
       JournalTrades[t] \in [product : {"DELIVERY", "INTRADAY", "FNO"}, pnl : Int, month : Months]
  /\ MaxSaves \in Nat
  /\ NoEdit \notin [tag : Setups, notes : Notes, saving : BOOLEAN, saved : BOOLEAN]
  /\ NoAnalytics \notin [DOMAIN JournalTrades -> [tag : Setups, notes : Notes]]

VARIABLES
  jrEntries,   \* the backend: id -> [tag, notes]
  jrTrades,    \* the console's answer of GET /trades: id -> [tag, notes], or NoAnalytics
  jrEdits,     \* journalEdits: id -> NoEdit or [tag, notes, saving, saved]
  jrSaves,     \* the PATCHes under way, in the order they were sent: [id, tag, notes],
               \* whether it is stored, whether the page still waits for its answer
  jrOverlaps,  \* history: trades whose last save was sent while another was under way
  jrTimers,    \* trades whose "Saved" is to be cleared
  jrFigures,   \* performance: known and not failed; the months of known calendars
  jrMonth      \* the month that the heatmap shows

jrVars == <<jrEntries, jrTrades, jrEdits, jrSaves, jrOverlaps, jrTimers, jrFigures, jrMonth>>

Ids == DOMAIN JournalTrades
Blank == [tag |-> "", notes |-> ""]
\* trades = data || []: an answer that is missing is an empty list.
Listed == IF jrTrades = NoAnalytics THEN {} ELSE Ids

TradeJournalInit ==
  /\ jrEntries = [t \in Ids |-> Blank]
  /\ jrTrades = NoAnalytics
  /\ jrEdits = [t \in Ids |-> NoEdit]
  /\ jrSaves = <<>> /\ jrOverlaps = {} /\ jrTimers = {}
  /\ jrFigures = [performance |-> FALSE, calendars |-> {}]
  /\ jrMonth = CHOOSE m \in Months : TRUE

-----------------------------------------------------------------------------
\* The three queries. The answers of a month are kept under its own key.
FiguresAnswered ==
  /\ jrFigures' \in {[jrFigures EXCEPT !.performance = TRUE],
                     [jrFigures EXCEPT !.performance = FALSE],
                     [jrFigures EXCEPT !.calendars = @ \cup {jrMonth}]}
  /\ UNCHANGED <<jrEntries, jrTrades, jrEdits, jrSaves, jrOverlaps, jrTimers, jrMonth>>

TradesAnswered ==
  /\ jrTrades' = jrEntries
  /\ UNCHANGED <<jrEntries, jrEdits, jrSaves, jrOverlaps, jrTimers, jrFigures, jrMonth>>

\* Without all of them there is no console, but a sentence.
Shown == jrFigures.performance /\ jrMonth \in jrFigures.calendars

-----------------------------------------------------------------------------
OfMonth(month) == {t \in Ids : JournalTrades[t].month = month}
PnlOf(trades) == SumFunctionOnSet([t \in Ids |-> JournalTrades[t].pnl], trades)

\* The equity curve ends at the sum of every trade; its products count them.
EquityNow == PnlOf(Listed)
Products == [p \in {"DELIVERY", "INTRADAY", "FNO"} |->
               Cardinality({t \in Listed : JournalTrades[t].product = p})]

\* Setups that were tagged and won at least once, with their rate in percent unless
\* that rounds to nothing. Mistakes are no setup.
Rate(won, tagged) == (200 * Cardinality(won) + Cardinality(tagged)) \div (2 * Cardinality(tagged))
SetupAccuracy ==
  LET tagged(s) == {t \in Listed : jrTrades[t].tag = s}
      won(s) == {t \in tagged(s) : JournalTrades[t].pnl > 0}
      rated == {s \in Setups \ {"", "Mistake"} : won(s) # {} /\ Rate(won(s), tagged(s)) > 0}
  IN [s \in rated |-> Rate(won(s), tagged(s))]

\* The heatmap of a month, and its line of totals.
Heatmap(month) ==
  LET days == OfMonth(month) IN
  [net |-> PnlOf(days),
   profitable |-> {t \in days : JournalTrades[t].pnl > 0},
   losing |-> {t \in days : JournalTrades[t].pnl < 0}]

\* Rows of the journal: the filters see what the backend answered, not the edits.
FilteredTrades(setup, outcome) ==
  {t \in Listed :
     /\ setup = "ALL" \/ jrTrades[t].tag = (IF setup = "UNTAGGED" THEN "" ELSE setup)
     /\ outcome = "WIN" => JournalTrades[t].pnl > 0
     /\ outcome = "LOSS" => JournalTrades[t].pnl < 0}

JournalRow(t) ==
  IF jrEdits[t] = NoEdit
  THEN [tag |-> jrTrades[t].tag, notes |-> jrTrades[t].notes, saving |-> FALSE, saved |-> FALSE]
  ELSE jrEdits[t]

-----------------------------------------------------------------------------
ChooseMonth ==
  /\ Shown /\ jrMonth' \in Months \cap {jrMonth - 1, jrMonth + 1}
  /\ UNCHANGED <<jrEntries, jrTrades, jrEdits, jrSaves, jrOverlaps, jrTimers, jrFigures>>

\* Some setting of the filters lists a trade, and the tabs and filters keep nothing.
CanEdit(t) ==
  /\ Shown
  /\ \E setup \in Setups \cup {"ALL", "UNTAGGED"}, outcome \in {"ALL", "WIN", "LOSS"} :
       t \in FilteredTrades(setup, outcome)

SavesOf(t) == {i \in DOMAIN jrSaves : jrSaves[i].id = t}

\* handleSaveJournal; nothing keeps a save from being sent while another is under way.
Save(t, tag, notes) ==
  /\ Len(jrSaves) < MaxSaves
  /\ jrSaves' = Append(jrSaves, [id |-> t, tag |-> tag, notes |-> notes, stored |-> FALSE, waited |-> TRUE])
  /\ jrOverlaps' = IF SavesOf(t) = {} THEN jrOverlaps \ {t} ELSE jrOverlaps \cup {t}
  /\ jrEdits' = [jrEdits EXCEPT ![t] = [tag |-> tag, notes |-> notes, saving |-> TRUE, saved |-> FALSE]]

\* A setup is saved as it is chosen, with the notes as they stand.
ChooseSetup(t) ==
  /\ CanEdit(t)
  /\ \E s \in Setups : s # JournalRow(t).tag /\ Save(t, s, JournalRow(t).notes)
  /\ UNCHANGED <<jrEntries, jrTrades, jrTimers, jrFigures, jrMonth>>

TypeNotes(t) ==
  /\ CanEdit(t)
  /\ \E n \in Notes : n # JournalRow(t).notes /\
       jrEdits' = [jrEdits EXCEPT ![t] = [tag |-> JournalRow(t).tag, notes |-> n,
                                          saving |-> FALSE, saved |-> FALSE]]
  /\ UNCHANGED <<jrEntries, jrTrades, jrSaves, jrOverlaps, jrTimers, jrFigures, jrMonth>>

\* Leaving the field saves notes that differ from the last answer.
LeaveNotes(t) ==
  /\ CanEdit(t) /\ JournalRow(t).notes # jrTrades[t].notes
  /\ Save(t, JournalRow(t).tag, JournalRow(t).notes)
  /\ UNCHANGED <<jrEntries, jrTrades, jrTimers, jrFigures, jrMonth>>

\* The backend stores them in any order.
SaveStored(i) ==
  /\ ~jrSaves[i].stored
  /\ jrEntries' = [jrEntries EXCEPT ![jrSaves[i].id] = [tag |-> jrSaves[i].tag, notes |-> jrSaves[i].notes]]
  /\ jrSaves' = IF jrSaves[i].waited THEN [jrSaves EXCEPT ![i].stored = TRUE] ELSE RemoveAt(jrSaves, i)
  /\ UNCHANGED <<jrTrades, jrEdits, jrOverlaps, jrTimers, jrFigures, jrMonth>>

\* Fault: what was typed meanwhile stays, under the word "Saved".
SavedOver(edit, save) == [edit EXCEPT !.saving = FALSE, !.saved = TRUE]

\* The row goes back to what was saved, whatever was typed meanwhile.
SavedAs(edit, save) == [tag |-> save.tag, notes |-> save.notes, saving |-> FALSE, saved |-> TRUE]

\* The answer of success.
SaveAnswered(i) ==
  LET t == jrSaves[i].id IN
  /\ jrSaves[i].stored
  /\ jrSaves' = RemoveAt(jrSaves, i)
  /\ jrEdits' = [jrEdits EXCEPT ![t] = SavedAs(@, jrSaves[i])]
  /\ jrTimers' = jrTimers \cup {t}
  /\ UNCHANGED <<jrEntries, jrTrades, jrOverlaps, jrFigures, jrMonth>>

\* An answer that refuses leaves the row as it is.
SaveRefused(i) ==
  /\ jrSaves[i].waited /\ ~jrSaves[i].stored
  /\ jrSaves' = RemoveAt(jrSaves, i)
  /\ UNCHANGED <<jrEntries, jrTrades, jrEdits, jrOverlaps, jrTimers, jrFigures, jrMonth>>

\* A failure keeps the edit and says nothing; the save may be stored later.
SaveFails(i) ==
  LET t == jrSaves[i].id IN
  /\ jrSaves[i].waited
  /\ jrSaves' \in {RemoveAt(jrSaves, i)} \cup
       (IF jrSaves[i].stored THEN {} ELSE {[jrSaves EXCEPT ![i].waited = FALSE]})
  /\ jrEdits' = [jrEdits EXCEPT ![t].saving = FALSE, ![t].saved = FALSE]
  /\ UNCHANGED <<jrEntries, jrTrades, jrOverlaps, jrTimers, jrFigures, jrMonth>>

\* 2.5 seconds after a save, whatever the row has come to since.
SavedExpires(t) ==
  /\ t \in jrTimers
  /\ jrTimers' = jrTimers \ {t}
  /\ jrEdits' = [jrEdits EXCEPT ![t].saving = FALSE, ![t].saved = FALSE]
  /\ UNCHANGED <<jrEntries, jrTrades, jrSaves, jrOverlaps, jrFigures, jrMonth>>

TradeJournalNext ==
  \/ FiguresAnswered \/ TradesAnswered \/ ChooseMonth
  \/ \E i \in DOMAIN jrSaves : SaveStored(i) \/ SaveAnswered(i) \/ SaveRefused(i) \/ SaveFails(i)
  \/ \E t \in EditedTrades : ChooseSetup(t) \/ TypeNotes(t) \/ LeaveNotes(t) \/ SavedExpires(t)

-----------------------------------------------------------------------------
\* A row that says "Saved" shows the setup and the notes that the backend holds,
\* whatever was typed while they were saved, whichever answer of the list came since
\* and whatever failed before, unless its last save was sent while another save of it
\* was under way: the two may then be stored in one order and answered in the other. And
\* the figures agree: the months of the heatmap add up to the end of the equity curve,
\* the products to the trades, and a setup that is listed has won.
JournalTruthful ==
  /\ \A t \in Listed : JournalRow(t).saved /\ t \notin jrOverlaps =>
       [tag |-> JournalRow(t).tag, notes |-> JournalRow(t).notes] = jrEntries[t]
  /\ Listed # {} =>
       /\ EquityNow = SumFunction([m \in Months |-> Heatmap(m).net])
       /\ SumFunction(Products) = Cardinality(Listed)
       /\ \A s \in DOMAIN SetupAccuracy : SetupAccuracy[s] \in 1..100
=============================================================================
