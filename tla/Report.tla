-------------------------------- MODULE Report --------------------------------
(***************************************************************************)
(* What the master does with the gathered events (main.c:543-552): it      *)
(* prints them in the order of ranks and ids, sorting its lists in place,  *)
(* and exports sorted copies of them as an XML document (main.c:323-421,   *)
(* xml.c).  Composed with Gather: the senders may still be returning.      *)
(***************************************************************************)
EXTENDS Gather, SequencesExt

CONSTANT Namings  \* names that the kernel's events may have: functions from ids to integers

\* Names are integers as far as strcmp can tell them apart: by their first different byte.
ASSUME NamingsAssumption == \A naming \in Namings : \A id \in DOMAIN naming : naming[id] \in Int

\* Every event has a name.
ASSUME NamedAssumption ==
  \A naming \in Namings : \A load \in Loads : \A r \in Ranks : \A p \in EventPhases :
    0 .. Len(load[r][p]) - 1 \subseteq DOMAIN naming

VARIABLES
  options,  \* of the command line: silent, export, parseOnly
  naming,   \* the names of the events, the same on all ranks
  step,     \* the master's place in main: what it does next
  doc       \* the XML document: buffer and stack of open elements, innermost first

rvars == << vars, options, naming, step, doc >>

Options == [silent : BOOLEAN, export : BOOLEAN, parseOnly : BOOLEAN]
Unread == [silent |-> FALSE, export |-> FALSE, parseOnly |-> FALSE]
NoDoc == [buffer |-> << >>, stack |-> << >>]

RInit ==
  /\ Init
  /\ options = Unread /\ naming = << >>
  /\ step = "gather"
  /\ doc = NoDoc

-------------------------------------------------------------------------------
(* Sorting: timing.c, and the merge sort of glib.                                *)

\* An event with its name, as all of the code sees it.
NamedEvents == [proc : Ranks, id : Nat, label : {"short", "long", "garbled"}, name : Int]
Named(e) == [proc |-> e.proc, id |-> e.id, label |-> e.label, name |-> naming[e.id]]

\* compare_time_events and compare_coretime_events.  Mutant: events of one rank stay as
\* they were gathered.
Compare_RankOnly(e, f) ==
  IF e.proc # f.proc THEN (IF e.proc < f.proc THEN -1 ELSE 1) ELSE 0

Compare(e, f) ==
  IF e.proc # f.proc THEN (IF e.proc < f.proc THEN -1 ELSE 1)
  ELSE IF e.id # f.id THEN (IF e.id < f.id THEN -1 ELSE 1) ELSE 0

\* compare_time_events_full and compare_coretime_events_full: only -1 and 1 are seen as
\* a difference of the names, while strcmp may return any integer of that sign.
strcmp(e, f) == e.name - f.name
CompareFull(e, f) == IF strcmp(e, f) \in {-1, 1} THEN strcmp(e, f) ELSE Compare(e, f)

NotAfter(full, e, f) == (IF full THEN CompareFull(e, f) ELSE Compare(e, f)) <= 0

\* g_slist_sort_merge: one element after the other is taken from one of two lists, of which
\* the first one wins a tie.  first counts the elements that came from s.
Nothing == [first |-> 0, list |-> << >>]
TakeOne(s, t, full, k, taken) ==
  LET i == taken.first
      j == k - 1 - i IN
  IF i < Len(s) /\ (j = Len(t) \/ NotAfter(full, s[i + 1], t[j + 1]))
  THEN [first |-> i + 1, list |-> Append(taken.list, s[i + 1])]
  ELSE [first |-> i, list |-> Append(taken.list, t[j + 1])]

Merge(s, t, full) ==
  LET merged[k \in 0 .. Len(s) + Len(t)] ==
        IF k = 0 THEN Nothing ELSE TakeOne(s, t, full, k, merged[k - 1])
  IN  merged[Len(s) + Len(t)].list

\* g_slist_sort: the list is halved, the halves are sorted and merged.
SortList(s, full) ==
  LET sorted[u \in Seq(Events \cup NamedEvents)] ==
        LET half == Len(u) \div 2 IN
        IF Len(u) <= 1 THEN u
        ELSE Merge(sorted[SubSeq(u, 1, half)], sorted[SubSeq(u, half + 1, Len(u))], full)
  IN  sorted[s]

-------------------------------------------------------------------------------
(* xml.c.  A token of the buffer is a sequence that starts with its kind;        *)
(* indentation is layout.                                                        *)

Put(d, token) == [d EXCEPT !.buffer = Append(@, token)]

\* An open tag ends where its first child begins.
CloseTag(d) ==
  IF d.stack # << >> /\ ~Head(d.stack).hasContent
  THEN [Put(d, << ">" >>) EXCEPT !.stack = << [Head(@) EXCEPT !.hasContent = TRUE] >> \o Tail(@)]
  ELSE d

\* Mutant: the open tag above is not ended.
StartElement_Inside(d, name) ==
  [Put(d, << "<", name >>) EXCEPT !.stack = << [name |-> name, hasContent |-> FALSE] >> \o @]

StartElement(d, name) ==
  [Put(CloseTag(d), << "<", name >>) EXCEPT
     !.stack = << [name |-> name, hasContent |-> FALSE] >> \o @]

AddAttribute(d, key, value) ==
  IF d.stack # << >> /\ ~Head(d.stack).hasContent THEN Put(d, << key, value >>) ELSE d

EndElement(d) ==
  IF d.stack = << >> THEN d
  ELSE [Put(d, IF Head(d.stack).hasContent THEN << "</", Head(d.stack).name >> ELSE << "/>" >>)
          EXCEPT !.stack = Tail(@)]

\* An element of an event; its figures are stood for by the event's label.
Figures(d, name, e) == EndElement(AddAttribute(StartElement(d, name), "figures", e.label))
FigureNames(p) ==
  IF Phases[p] = "timeevents" THEN << "Walltime" >> ELSE << "Throughput", "Calltime", "Requests" >>

ExportFigures(d, p, e) ==
  IF Phases[p] = "timeevents" THEN Figures(d, "Walltime", e)
  ELSE Figures(Figures(Figures(d, "Throughput", e), "Calltime", e), "Requests", e)

ExportEvent(d, p, e) ==
  LET tag == AddAttribute(AddAttribute(AddAttribute(StartElement(d, "Event"),
               "rank", e.proc), "id", e.id), "name", e.name)
  IN  EndElement(ExportFigures(tag, p, e))

\* A copy of a list of events, in the order of the export.
Copied(p) == [i \in DOMAIN list[MASTER][p] |-> Named(list[MASTER][p][i])]
Exported(p) == SortList(Copied(p), TRUE)

ExportList(d, p, events) ==
  LET start == AddAttribute(StartElement(d, "EventList"), "type", Phases[p])
      written[i \in 0 .. Len(events)] ==
        IF i = 0 THEN start ELSE ExportEvent(written[i - 1], p, events[i])
  IN  EndElement(written[Len(events)])

-------------------------------------------------------------------------------
(* main.                                                                         *)

GatherStep ==
  /\ MasterStep \/ \E r \in Senders : SenderStep(r)
  /\ UNCHANGED << options, naming, step, doc >>

\* The options and the names are there from the start; nothing before reads them.
Look ==
  /\ step = "gather" /\ phase[MASTER] = DONE
  /\ options' \in Options /\ naming' \in Namings
  /\ step' = IF options'.silent THEN "export" ELSE "time"
  /\ UNCHANGED << vars, doc >>

SortFor(p) ==
  /\ list' = [list EXCEPT ![MASTER][p] = SortList(@, FALSE)]
  /\ UNCHANGED << capacity, stats, phase, next, chan, masterVars, options, naming, doc >>

iiTimeReport == step = "time" /\ SortFor(1) /\ step' = "coretime"
iiCoreTimeReport == step = "coretime" /\ SortFor(2) /\ step' = "export"

\* Core time events come first.
export_xml ==
  /\ step = "export"
  /\ IF ~options.parseOnly /\ (options.export \/ options.silent)
     THEN doc' = EndElement(ExportList(ExportList(StartElement(NoDoc, "Report"), 2, Exported(2)),
                                       1, Exported(1)))
     ELSE doc' = doc
  /\ step' = "end"
  /\ UNCHANGED << vars, options, naming >>

ReportStep == Look \/ iiTimeReport \/ iiCoreTimeReport \/ export_xml

RTerminated == step = "end" /\ Terminated /\ UNCHANGED rvars

RNext == GatherStep \/ ReportStep \/ RTerminated

RSpec == RInit /\ [][RNext]_rvars

\* The gather functions run on (FairSpec); the report needs no more than to be reached.
RFairSpec ==
  /\ RSpec
  /\ WF_rvars(MasterStep /\ GatherStep)
  /\ \A r \in Senders : WF_rvars(SenderStep(r) /\ GatherStep)

-------------------------------------------------------------------------------
(* Properties.                                                                   *)

\* The printed reports show every rank's events together and in the order of their ids,
\* and show none twice (interpreter.c:1251, 1287; that they are the gathered ones is
\* Collects), though blocks in each other are gathered in other orders than they began,
\* and the master's own events in the opposite one (interpreter.c:188-193, main.c:161, 196).  The export has the sort priority
\* timing.c:205 names, name before rank before id, as long as strcmp returns no other
\* numbers than -1, 0 and 1: names that differ by more count as equal.
Earlier(e, f) == e.proc < f.proc \/ (e.proc = f.proc /\ e.id < f.id)
EarlierByName(e, f) ==
  e.name < f.name \/ (e.name = f.name /\ Earlier(e, f))
Less(full, e, f) == IF full THEN EarlierByName(e, f) ELSE Earlier(e, f)
Sorted(s, full) == \A i, j \in DOMAIN s : i < j => Less(full, s[i], s[j])
ReportOrdered ==
  \A p \in EventPhases :
    /\ ~options.silent /\ step \in (IF p = 1 THEN {"coretime", "export", "end"} ELSE {"export", "end"})
         => Sorted(list[MASTER][p], FALSE)
    /\ doc # NoDoc /\ (\A i, j \in DOMAIN naming : naming[i] - naming[j] \in -1 .. 1)
         => Sorted(Exported(p), TRUE)

\* The text of an element around the texts of its children.
Text(name, attributes, children) ==
  << << "<", name >> >> \o attributes \o
  (IF children = << >> THEN << << "/>" >> >>
   ELSE << << ">" >> >> \o FlattenSeq(children) \o << << "</", name >> >>)

EventText(p, e) ==
  Text("Event", << << "rank", e.proc >>, << "id", e.id >>, << "name", e.name >> >>,
    [i \in DOMAIN FigureNames(p) |-> Text(FigureNames(p)[i], << << "figures", e.label >> >>, << >>)])
ListText(p, events) ==
  Text("EventList", << << "type", Phases[p] >> >>, [i \in DOMAIN events |-> EventText(p, events[i])])

\* The exported document is the text of one tree with an element for every event the
\* master has, each in the list of its kind and with its own figures, also where a list
\* is empty; the copies that are sorted lose nothing though their order is no order
\* (main.c:341, 391; xml.c:70-127).
ExportReadsBack ==
  doc # NoDoc =>
    /\ doc.stack = << >>
    /\ doc.buffer = Text("Report", << >>, << ListText(2, Exported(2)), ListText(1, Exported(1)) >>)
    /\ \A p \in EventPhases : ToBag(Exported(p)) = ToBag(Copied(p))

===============================================================================
