--------------------------- MODULE PriceListSheet ---------------------------
(***************************************************************************)
(* Supervisors change the price list on a page (PriceListPage.tsx): row by *)
(* row, or by downloading it as a sheet, filling that in and uploading it  *)
(* (price_list_io.py).  The page sends the whole list, and the one in use  *)
(* is replaced by it or stays (price_list_service.py; its versions and     *)
(* their use are in PriceList).                                            *)
(*                                                                         *)
(* A row is its service, its price, its GST and its keywords; the model,   *)
(* part, hours, quantity and includes are read as one of these is, and the *)
(* settings of the list are edited as its rows are.  Money and percentages *)
(* are in hundredths; a keyword is one piece of text without a separator. A*)
(* row remembers whether one of its cells could not be read.               *)
(***************************************************************************)
EXTENDS Integers, Sequences, SequencesExt, FiniteSets

CONSTANTS
    Supervisors,
    Sample,                 \* DEFAULT_PRICE_LIST_ROWS
    Typed,                  \* rows a supervisor can enter
    Sheets,                 \* sheets a supervisor can fill in, besides what is downloaded
    MaxRows, HeaderSearch,
    MaxVersions, MaxSteps,  \* bounds
    None

SheetAssumption ==
    /\ {MaxRows, HeaderSearch, MaxVersions, MaxSteps} \subseteq Nat
    /\ Len(Sample) <= MaxRows

VARIABLES
    versions,   \* the lists saved, the last in use
    page,       \* of each supervisor
    steps       \* counts towards the bound

sheetVars == <<versions, page, steps>>

InUse == IF versions = <<>> THEN Sample ELSE Last(versions)

Loaded(list, n) ==
    [list |-> list, version |-> n, draft |-> None, editor |-> None,
     saving |-> None, answer |-> None, restoring |-> None,
     preview |-> None, error |-> FALSE]

Init ==
    /\ versions = <<>>
    /\ page = [s \in Supervisors |-> Loaded(Sample, 0)]
    /\ steps = 0

-----------------------------------------------------------------------------
(* Cells.  A cell is [kind, value]: blank, a number, a number shown as a   *)
(* percentage, text holding a number, or text that holds none.             *)

Blank == [kind |-> "blank", value |-> 0]
Readable(cell) == cell.kind # "junk"
Money(cell) == IF cell.kind \in {"number", "text"} THEN cell.value ELSE None
\* A cell shown as a percentage holds 18% as 0.18.
Percent(cell) ==
    CASE cell.kind = "percent" -> 100 * cell.value
      [] cell.kind \in {"number", "text"} -> cell.value
      [] OTHER -> None
Listed(pieces) == SelectSeq(pieces, LAMBDA k : k # "")

FirstOf(s, n) == SubSeq(s, 1, IF Len(s) < n THEN Len(s) ELSE n)

IsBlank(line) ==
    /\ line.service = None /\ Listed(line.keywords) = <<>>
    /\ line.price.kind = "blank" /\ line.gst.kind = "blank"

RowOf(line) ==
    [service |-> line.service, price |-> Money(line.price), gst |-> Percent(line.gst),
     keywords |-> Listed(line.keywords),
     unread |-> ~Readable(line.price) \/ ~Readable(line.gst)]

\* A sheet is [format, header, lines]: the row its header is on, 0 for none and 1 for the first.  Rows
\* past the most a list has are left unread, with an error.
Parsed(sheet) ==
    LET read == FirstOf(sheet.lines, MaxRows + HeaderSearch + 1 - sheet.header)
        filled == SelectSeq(read, LAMBDA l : ~IsBlank(l))
        taken == FirstOf(filled, MaxRows)
        rows == [i \in DOMAIN taken |-> RowOf(taken[i])]
    IN IF sheet.header \notin 1..HeaderSearch THEN None
       ELSE [rows |-> rows,
             errors |-> {i \in DOMAIN rows : rows[i].unread}
                        \cup (IF Len(filled) > MaxRows THEN {0} ELSE {})]

\* Numbers are written as numbers, to a CSV file as text.
Cell(format, value) ==
    IF value = None THEN Blank
    ELSE [kind |-> IF format = "csv" THEN "text" ELSE "number", value |-> value]
Exported(rows, format) ==
    [format |-> format, header |-> 1,
     lines |-> [i \in DOMAIN rows |->
        [service |-> rows[i].service, price |-> Cell(format, rows[i].price),
         gst |-> Cell(format, rows[i].gst), keywords |-> rows[i].keywords]]]

-----------------------------------------------------------------------------
(* What the service refuses: see also Estimates.                            *)
RowIsWrong(row) ==
    \/ row.service = None
    \/ row.price # None /\ row.price < 0
    \/ row.gst # None /\ row.gst \notin 0..10000
Wrong(rows) ==
    {i \in DOMAIN rows : RowIsWrong(rows[i])} \cup (IF Len(rows) > MaxRows THEN {0} ELSE {})

\* preview_upload(): nothing is saved.
Preview(sheet) ==
    LET parsed == Parsed(sheet) IN
    IF parsed = None THEN None
    ELSE [rows |-> parsed.rows, errors |-> parsed.errors \cup Wrong(parsed.rows)]

-----------------------------------------------------------------------------
(* The page.                                                                *)

Rows(p) == IF p.draft # None THEN p.draft ELSE p.list
IsDirty(p) == p.draft # None

Step == steps < MaxSteps /\ steps' = steps + 1
Turn(s, p) == page' = [page EXCEPT ![s] = p] /\ UNCHANGED versions

OpenEditor(s, i) ==
    /\ Step
    /\ i = 0 => page[s].saving = None
    /\ i \in 0..Len(Rows(page[s]))
    /\ page[s].editor # i
    /\ Turn(s, [page[s] EXCEPT !.editor = i])

\* A row is added (the editor is at 0) or changed.
SubmitRow(s, row) ==
    LET p == page[s] IN
    /\ p.editor # None
    /\ row.service # None
    /\ Step
    /\ Turn(s, [p EXCEPT !.editor = None,
                         !.draft = IF p.editor = 0 THEN Append(Rows(p), row)
                                   ELSE [Rows(p) EXCEPT ![p.editor] = row]])

DeleteRow(s, i) ==
    /\ Step /\ i \in DOMAIN Rows(page[s])
    /\ Turn(s, [page[s] EXCEPT !.editor = None, !.draft = RemoveAt(Rows(page[s]), i)])

Discard(s) ==
    LET p == page[s] IN
    /\ IsDirty(p) /\ p.saving = None
    /\ Step
    /\ Turn(s, [p EXCEPT !.draft = None, !.editor = None, !.error = FALSE])

ChooseFile(s, sheet) ==
    /\ Step /\ page[s].saving = None
    /\ Turn(s, [page[s] EXCEPT !.preview = Preview(sheet)])

CancelPreview(s) ==
    /\ page[s].preview # None /\ page[s].saving = None
    /\ Step /\ Turn(s, [page[s] EXCEPT !.preview = None])

Sends(p, rows, source) ==
    [p EXCEPT !.saving = [rows |-> rows, source |-> source], !.error = FALSE]

SaveChanges(s) ==
    LET p == page[s] IN
    /\ IsDirty(p) /\ p.saving = None
    /\ Step
    /\ Turn(s, Sends(p, Rows(p), "edit"))

\* Mutant: whatever the preview said.
ReplaceListAnyway(s) ==
    LET p == page[s] IN
    /\ p.preview # None /\ p.saving = None
    /\ Step
    /\ Turn(s, Sends(p, p.preview.rows, "upload"))

\* A preview with errors cannot be used; unsaved edits go only if the supervisor agrees.
ReplaceList(s) ==
    LET p == page[s] IN
    /\ p.preview # None /\ p.preview.errors = {} /\ p.saving = None
    /\ Step
    /\ Turn(s, Sends(p, p.preview.rows, "upload"))

Restore(s, n) ==
    LET p == page[s] IN
    /\ n \in DOMAIN versions /\ n # Len(versions)
    /\ p.restoring = None /\ p.saving = None
    /\ Step
    /\ Turn(s, [p EXCEPT !.restoring = [version |-> n, answer |-> None]])

Adds(rows) == Len(versions) < MaxVersions /\ versions' = Append(versions, rows)

\* The service has the request: the list is replaced, or is refused.
ServiceSaves(s) ==
    LET p == page[s] IN
    /\ p.saving # None /\ p.answer = None
    /\ IF Wrong(p.saving.rows) = {}
       THEN /\ Adds(p.saving.rows)
            /\ page' = [page EXCEPT ![s].answer = [saved |-> TRUE, version |-> Len(versions) + 1]]
       ELSE /\ page' = [page EXCEPT ![s].answer = [saved |-> FALSE, version |-> 0]]
            /\ UNCHANGED versions
    /\ UNCHANGED steps

ServiceRestores(s) ==
    LET p == page[s] IN
    /\ p.restoring # None /\ p.restoring.answer = None
    /\ Adds(versions[p.restoring.version])
    /\ page' = [page EXCEPT ![s].restoring.answer = Len(versions) + 1]
    /\ UNCHANGED steps

\* applySaved(): the page shows what was saved, and drops what is unsaved.
Applied(p, n) ==
    [p EXCEPT !.list = versions[n], !.version = n, !.draft = None, !.editor = None,
              !.error = FALSE]

SaveAnswered(s) ==
    LET p == page[s] IN
    /\ p.saving # None /\ p.answer # None
    /\ Turn(s, [(IF p.answer.saved THEN Applied(p, p.answer.version)
                 ELSE [p EXCEPT !.error = TRUE])
                EXCEPT !.saving = None, !.answer = None,
                       !.preview = IF p.answer.saved /\ p.saving.source = "upload"
                                   THEN None ELSE @])
    /\ UNCHANGED steps

RestoreAnswered(s) ==
    LET p == page[s] IN
    /\ p.restoring # None /\ p.restoring.answer # None
    /\ Turn(s, [Applied(p, p.restoring.answer) EXCEPT !.restoring = None])
    /\ UNCHANGED steps

\* The request is lost on its way to the service, or its answer on the way back.
RequestFails(s) ==
    LET p == page[s] IN
    /\ p.saving # None /\ Step
    /\ Turn(s, [p EXCEPT !.saving = None, !.answer = None, !.error = TRUE])

Next ==
    \E s \in Supervisors :
        \/ \E i \in 0..MaxRows : OpenEditor(s, i)
        \/ \E row \in Typed : SubmitRow(s, row)
        \/ \E i \in 1..MaxRows : DeleteRow(s, i)
        \/ Discard(s)
        \/ \E sheet \in Sheets \cup {Exported(InUse, f) : f \in {"csv", "xlsx"}} :
              ChooseFile(s, sheet)
        \/ CancelPreview(s) \/ SaveChanges(s) \/ ReplaceList(s)
        \/ \E n \in 1..MaxVersions : Restore(s, n)
        \/ ServiceSaves(s) \/ ServiceRestores(s)
        \/ SaveAnswered(s) \/ RestoreAnswered(s) \/ RequestFails(s)

Spec == Init /\ [][Next]_sheetVars

-----------------------------------------------------------------------------
(***************************************************************************)
(* A price that could not be read is never a blank price: a sheet with a   *)
(* cell in it that is not what its column holds does not become the list.  *)
(* And a sheet downloaded and uploaded again, as Excel or as CSV, is the   *)
(* list it was, whatever that list is.                                     *)
(***************************************************************************)
SheetsReadWell ==
    /\ \A v \in DOMAIN versions : \A i \in DOMAIN versions[v] : ~versions[v][i].unread
    /\ \A format \in {"csv", "xlsx"} :
          Preview(Exported(InUse, format)) = [rows |-> InUse, errors |-> {}]
==============================================================================
