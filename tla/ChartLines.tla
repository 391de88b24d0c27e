----------------------------- MODULE ChartLines -----------------------------
(***************************************************************************)
(* The lines a terminal's chart draws for the open positions of its symbol *)
(* (TradingViewChart, loadChartLibrary).  A library creates shapes         *)
(* asynchronously; a map of entries says which are drawn, and an effect    *)
(* brings it in line with the store after every change.  When the feed     *)
(* stalls, a watchdog greys the entry lines.                               *)
(*                                                                         *)
(* A position has an entry line and at most one level, which stands for    *)
(* its stop loss, its take profit and the lines of a pending order: these  *)
(* are treated alike.  Calls into the chart succeed, creations apart.      *)
(***************************************************************************)
EXTENDS Naturals, Sequences, FiniteSets

CONSTANTS
    Symbols, FirstSymbol,
    Levels,       \* prices of a level, other than Absent and OpenPrice
    MaxChanges,   \* bound: changes of the list, symbols picked
    MaxFaults     \* bound: failed loads and creations

Positions == Symbols                    \* bound: one position of each symbol
LineKeys == Positions \X {"entry", "level"}
Absent == 0                             \* a row that is not there, a level that is not set
OpenPrice == 1
NoLine == [n |-> 0]

VARIABLES
    patient,      \* nobody picks a symbol while the library loads, or returns after it failed
    rows,         \* the store's positions: each one's open price and its level
    selected,     \* selectedSymbol
    loader,       \* loadPromise and its script: "untried", "pending", "loaded", "failed", "hung"
    widget,       \* "away", "loading", "built", "ready" (chartReady) or "failed" (loadError)
    charted,      \* the symbol of the widget; while loading, initialSymbol
    queued,       \* switches that wait for onChartReady
    lines,        \* linesRef
    creations,    \* createShape, under way
    shapes,       \* what is drawn
    due,          \* something the effects depend on has changed
    picked,       \* selectedSymbol has
    silent,       \* no tick of the symbol for longer than the threshold
    stale,        \* the watchdog's memory of that
    changes, faults

vars == <<patient, rows, selected, loader, widget, charted, queued, lines, creations, shapes,
          due, picked, silent, stale, changes, faults>>

Price == Levels \union {OpenPrice}
\* An entry of linesRef: the number of its shape; whether it is drawn yet; its label, and
\* whether that was written less than the throttle's time ago.
Line == [n : Nat \ {0}, drawn : BOOLEAN, price : Price, label : {"live", "behind", "grey"},
         fresh : BOOLEAN]
Shape == [key : LineKeys, n : Nat \ {0}, price : Price]

TypeOK ==
    /\ patient \in BOOLEAN
    /\ rows \in [Positions -> [entry : {Absent, OpenPrice}, level : Levels \union {Absent}]]
    /\ {selected, charted} \subseteq Symbols
    /\ loader \in {"untried", "pending", "loaded", "failed", "hung"}
    /\ widget \in {"away", "loading", "built", "ready", "failed"}
    /\ queued \in Seq(Symbols)
    /\ lines \in [LineKeys -> Line \union {NoLine}]
    /\ creations \subseteq Shape
    /\ shapes \subseteq Shape
    /\ {due, picked, silent, stale} \subseteq BOOLEAN
    /\ changes \in 0..MaxChanges
    /\ faults \in 0..MaxFaults

Nothing == [k \in LineKeys |-> NoLine]
NoRow == [entry |-> Absent, level |-> Absent]

Init ==
    /\ patient \in BOOLEAN
    /\ rows = [p \in Positions |-> NoRow]
    /\ selected = FirstSymbol
    /\ loader = "untried"
    /\ widget = "away"
    /\ charted = selected
    /\ queued = <<>>
    /\ lines = Nothing
    /\ creations = {}
    /\ shapes = {}
    /\ due = FALSE
    /\ picked = FALSE
    /\ silent = FALSE
    /\ stale = FALSE
    /\ changes = 0
    /\ faults = 0

Acts == changes < MaxChanges /\ changes' = changes + 1
Fault == faults < MaxFaults /\ faults' = faults + 1

-----------------------------------------------------------------------------
(* The widget. *)

\* The chart mounts: loadChartLibrary shares a promise that is pending or done.  After a
\* failure the script element is still in the page, and its events do not come again.
Mount ==
    /\ widget = "away"
    /\ patient => loader # "failed"
    /\ widget' = "loading"
    /\ charted' = selected
    /\ loader' = CASE loader = "untried" -> "pending"
                   [] loader = "failed" -> "hung"
                   [] OTHER -> loader
    /\ UNCHANGED <<patient, rows, selected, queued, lines, creations, shapes, due, picked,
                   silent, stale, changes, faults>>

\* The chart's page is left: what was created is gone with the widget, and what is being
\* created or loaded finds nobody.
Leave ==
    /\ widget # "away"
    /\ widget' = "away"
    /\ queued' = <<>>
    /\ lines' = Nothing
    /\ creations' = {}
    /\ shapes' = {}
    /\ due' = FALSE
    /\ picked' = FALSE
    /\ UNCHANGED <<patient, rows, selected, loader, charted, silent, stale, changes, faults>>

LibraryLoads ==
    /\ loader = "pending"
    /\ loader' = "loaded"
    /\ UNCHANGED <<patient, rows, selected, widget, charted, queued, lines, creations, shapes,
                   due, picked, silent, stale, changes, faults>>

\* Variant: the failure is not shown.
LibraryFailsSilently ==
    /\ Fault
    /\ loader = "pending"
    /\ loader' = "failed"
    /\ UNCHANGED <<patient, rows, selected, widget, charted, queued, lines, creations, shapes,
                   due, picked, silent, stale, changes>>

LibraryFails ==
    /\ Fault
    /\ loader = "pending"
    /\ loader' = "failed"
    /\ widget' = IF widget = "loading" THEN "failed" ELSE widget
    /\ UNCHANGED <<patient, rows, selected, charted, queued, lines, creations, shapes, due,
                   picked, silent, stale, changes>>

Build ==
    /\ widget = "loading"
    /\ loader = "loaded"
    /\ widget' = "built"
    /\ UNCHANGED <<patient, rows, selected, loader, charted, queued, lines, creations, shapes,
                   due, picked, silent, stale, changes, faults>>

\* The first callback of onChartReady; the watchdog starts to count.
ChartReady ==
    /\ widget = "built"
    /\ widget' = "ready"
    /\ due' = TRUE
    /\ silent' = FALSE
    /\ stale' = FALSE
    /\ UNCHANGED <<patient, rows, selected, loader, charted, queued, lines, creations, shapes,
                   picked, changes, faults>>

Drawn(line) == line # NoLine /\ line.drawn
ShapeOfEntry(s, entries) == Drawn(entries[s.key]) /\ entries[s.key].n = s.n

\* What is left when the shape of each entry is removed.
Others == {s \in shapes : ~ShapeOfEntry(s, lines)}

\* A switch of the symbol that had to wait: the lines go with the old one.
CallbackRuns ==
    /\ widget = "ready"
    /\ queued # <<>>
    /\ queued' = Tail(queued)
    /\ charted' = Head(queued)
    /\ lines' = Nothing
    /\ shapes' = Others
    /\ UNCHANGED <<patient, rows, selected, loader, widget, creations, due, picked, silent,
                   stale, changes, faults>>

-----------------------------------------------------------------------------
(* The effects, in the order of their declaration. *)

\* The price of a line that should be drawn, or Absent.
Desired(k) == IF k[1] = selected THEN rows[k[1]][k[2]] ELSE Absent

\* The number of a shape of k that is not in use.
NextShape(k) ==
    LET used == {lines[k].n} \union {c.n : c \in {d \in creations \union shapes : d.key = k}}
    IN  CHOOSE n \in 1..(Cardinality(used) + 1) : n \notin used

\* The key is reserved while the library creates the shape.
Reserved(k) ==
    [n |-> NextShape(k), drawn |-> FALSE, price |-> Desired(k), label |-> "live",
     fresh |-> k[2] = "entry"]

\* Variant: a line that was drawn stays where it is.
RefreshedInPlace(line, price) ==
    LET paint == line.label # "live" /\ ~line.fresh
    IN  [line EXCEPT !.label = IF paint THEN "live" ELSE @, !.fresh = paint \/ @]

\* Variant: a colour that differs is no reason to write the label.
RefreshedText(line, price) ==
    LET paint == line.label = "behind" /\ ~line.fresh
    IN  [line EXCEPT !.price = price,
                     !.label = IF paint THEN "live" ELSE @,
                     !.fresh = paint \/ @]

\* A line that is drawn follows its price, and its label the profit, within the throttle.
Refreshed(line, price) ==
    LET paint == line.label # "live" /\ ~line.fresh
    IN  [line EXCEPT !.price = price,
                     !.label = IF paint THEN "live" ELSE @,
                     !.fresh = paint \/ @]

\* The entries after the effect, of the entries before it.
Reconciled(before) ==
    [k \in LineKeys |->
        CASE Desired(k) = Absent -> NoLine
          [] Desired(k) # Absent /\ before[k] = NoLine -> Reserved(k)
          [] Desired(k) # Absent /\ Drawn(before[k]) -> Refreshed(before[k], Desired(k))
          [] OTHER -> before[k]]

ShapeOf(k, line) == [key |-> k, n |-> line.n, price |-> line.price]

\* What is asked for.
NewOf(before, after) ==
    {ShapeOf(k, after[k]) : k \in {j \in LineKeys : before[j] = NoLine /\ after[j] # NoLine}}

\* The shapes, at the prices of their entries.
Moved(drawn, after) ==
    {IF ShapeOfEntry(s, after) THEN ShapeOf(s.key, after[s.key]) ELSE s : s \in drawn}

\* Variant: a line that is no longer wanted is forgotten, and its shape stays.
ReconcileForgets(before, drawn) ==
    IF widget # "ready" THEN UNCHANGED <<lines, shapes, creations>>
    ELSE LET after == Reconciled(before) IN
         /\ lines' = after
         /\ shapes' = Moved(drawn, after)
         /\ creations' = creations \union NewOf(before, after)

\* Lines are asked for, moved, and removed.
Reconcile(before, drawn) ==
    IF widget # "ready" THEN UNCHANGED <<lines, shapes, creations>>
    ELSE LET after == Reconciled(before)
             gone == {s \in drawn : ShapeOfEntry(s, before) /\ ~ShapeOfEntry(s, after)} IN
         /\ lines' = after
         /\ shapes' = Moved(drawn \ gone, after)
         /\ creations' = creations \union NewOf(before, after)

\* The library runs the callback of a switch at once, or later.
Switch ==
    \/ /\ queued' = Append(queued, selected)
       /\ Reconcile(lines, shapes)
       /\ UNCHANGED charted
    \/ /\ widget = "ready"
       /\ queued = <<>>
       /\ charted' = selected
       /\ Reconcile(Nothing, Others)
       /\ UNCHANGED queued

\* A symbol picked before there is a widget is not passed on.
Effects ==
    /\ due
    /\ due' = FALSE
    /\ picked' = FALSE
    /\ IF picked /\ widget \in {"built", "ready"}
         THEN Switch
         ELSE Reconcile(lines, shapes) /\ UNCHANGED <<queued, charted>>
    /\ silent' = (silent /\ ~picked)
    /\ stale' = (stale /\ ~picked)
    /\ UNCHANGED <<patient, rows, selected, loader, widget, changes, faults>>

\* Variant: whatever was created stays.
CreatedAlways(c) ==
    /\ c \in creations
    /\ creations' = creations \ {c}
    /\ lines' = IF lines[c.key].n = c.n THEN [lines EXCEPT ![c.key].drawn = TRUE] ELSE lines
    /\ shapes' = shapes \union {c}
    /\ UNCHANGED <<patient, rows, selected, loader, widget, charted, queued, due, picked, silent,
                   stale, changes, faults>>

\* createShape has answered: the shape is kept if the entry it was made for is still there.
Created(c) ==
    LET wanted == lines[c.key].n = c.n IN
    /\ c \in creations
    /\ creations' = creations \ {c}
    /\ lines' = IF wanted THEN [lines EXCEPT ![c.key].drawn = TRUE] ELSE lines
    /\ shapes' = IF wanted THEN shapes \union {c} ELSE shapes
    /\ UNCHANGED <<patient, rows, selected, loader, widget, charted, queued, due, picked, silent,
                   stale, changes, faults>>

\* The entry goes, and the next effect asks again.
CreateFails(c) ==
    /\ Fault
    /\ c \in creations
    /\ creations' = creations \ {c}
    /\ lines' = IF lines[c.key].n = c.n THEN [lines EXCEPT ![c.key] = NoLine] ELSE lines
    /\ UNCHANGED <<patient, rows, selected, loader, widget, charted, queued, shapes, due, picked,
                   silent, stale, changes>>

-----------------------------------------------------------------------------
(* What goes on around it. *)

\* The user picks another symbol.
Select(s) ==
    /\ Acts
    /\ s # selected
    /\ patient => widget # "loading"
    /\ selected' = s
    /\ due' = (widget # "away")
    /\ picked' = (widget # "away")
    /\ UNCHANGED <<patient, rows, loader, widget, charted, queued, lines, creations, shapes,
                   silent, stale, faults>>

\* The list changes: a position is opened or closed, its level set, moved or removed.
ListChanges(p) ==
    /\ Acts
    /\ \E level \in Levels \union {Absent} :
          \E row \in {NoRow, [entry |-> OpenPrice, level |-> level]} \ {rows[p]} :
             rows' = [rows EXCEPT ![p] = row]
    /\ due' = (widget # "away")
    /\ UNCHANGED <<patient, selected, loader, widget, charted, queued, lines, creations, shapes,
                   picked, silent, stale, faults>>

\* The poll of the positions answers with the same ones, in a new list.
Poll ==
    /\ widget # "away"
    /\ due' = TRUE
    /\ UNCHANGED <<patient, rows, selected, loader, widget, charted, queued, lines, creations,
                   shapes, picked, silent, stale, changes, faults>>

\* A tick of the symbol: a position of it has another profit.
Tick ==
    /\ widget = "ready"
    /\ silent' = FALSE
    /\ due' = (due \/ rows[selected] # NoRow)
    /\ LET k == <<selected, "entry">> IN
       lines' = IF rows[selected] # NoRow /\ lines[k] # NoLine /\ lines[k].label = "live"
                  THEN [lines EXCEPT ![k].label = "behind"] ELSE lines
    /\ UNCHANGED <<patient, rows, selected, loader, widget, charted, queued, creations, shapes,
                   picked, stale, changes, faults>>

GoesSilent ==
    /\ widget = "ready"
    /\ silent' = TRUE
    /\ UNCHANGED <<patient, rows, selected, loader, widget, charted, queued, lines, creations,
                   shapes, due, picked, stale, changes, faults>>

\* The watchdog acts when silence begins or ends; then it greys the entry lines.
WatchdogFires ==
    /\ widget = "ready"
    /\ stale # silent
    /\ stale' = silent
    /\ lines' = IF silent
                  THEN [k \in LineKeys |->
                          IF k[2] = "entry" /\ Drawn(lines[k])
                            THEN [lines[k] EXCEPT !.label = "grey", !.fresh = TRUE] ELSE lines[k]]
                  ELSE lines
    /\ UNCHANGED <<patient, rows, selected, loader, widget, charted, queued, creations, shapes,
                   due, picked, silent, changes, faults>>

\* Half a second has passed since a label was written.
ThrottlePasses ==
    /\ \E k \in LineKeys :
          /\ lines[k] # NoLine
          /\ lines[k].fresh
          /\ lines' = [lines EXCEPT ![k].fresh = FALSE]
    /\ UNCHANGED <<patient, rows, selected, loader, widget, charted, queued, creations, shapes,
                   due, picked, silent, stale, changes, faults>>

AnyCreated == \E c \in creations : Created(c)

Next ==
    \/ Mount \/ Leave \/ LibraryLoads \/ LibraryFails \/ Build \/ ChartReady \/ CallbackRuns
    \/ Effects \/ AnyCreated \/ \E c \in creations : CreateFails(c)
    \/ \E s \in Symbols : Select(s)
    \/ \E p \in Positions : ListChanges(p)
    \/ Poll \/ Tick \/ GoesSilent \/ WatchdogFires \/ ThrottlePasses

\* What the library or its script answers, and what is done with it; while the page stays open
\* there is an end to it.
LibraryStep == LibraryLoads \/ Build \/ ChartReady \/ CallbackRuns \/ AnyCreated

-----------------------------------------------------------------------------
(* What it promises. *)

\* What is drawn is what the entries say: no shape is drawn twice, left behind by a symbol or
\* a position that is gone, or at another price.
DrawnAsRecorded ==
    shapes = {ShapeOf(k, lines[k]) : k \in {j \in LineKeys : Drawn(lines[j])}}

\* The inductive invariant behind it: what is being created for an entry that is still there
\* is the shape it records, and not drawn yet.
LinesInv ==
    /\ TypeOK
    /\ DrawnAsRecorded
    /\ \A c \in creations :
          lines[c.key].n = c.n => ~lines[c.key].drawn /\ c = ShapeOf(c.key, lines[c.key])

\* If its page stays open, the chart shows the symbol picked in the end and, once it is
\* there, a line for each price of a position of that symbol and no other.
LinesSettle ==
    patient /\ <>[](widget # "away") => <>[](widget = "ready" =>
        /\ charted = selected
        /\ {<<s.key, s.price>> : s \in shapes} =
              {<<k, Desired(k)>> : k \in {j \in LineKeys : Desired(j) # Absent}})

\* The chart is there, or says that it cannot be.
ChartAppears == patient => []<>(widget \notin {"loading", "built"})

\* A label that fell behind the ticks, or was greyed by silence, is written anew.
LabelsRecover ==
    \A k \in LineKeys : []<>(silent \/ lines[k] = NoLine \/ lines[k].label = "live")
=============================================================================
