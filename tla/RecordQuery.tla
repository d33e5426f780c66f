----------------------------- MODULE RecordQuery -----------------------------
(***************************************************************************)
(* Reading the records of a table through a view (modules/records): pages    *)
(* with a cursor that a client follows (ListRecords), and the export that    *)
(* follows the pages itself, encodes the rows and audits them before it      *)
(* answers (ExportRecords).  Records are written, the view is updated and a  *)
(* rebuild may switch the read pointer while a reader is between two pages.   *)
(*                                                                          *)
(* A record is its id and the value of one data field, Absent when its data  *)
(* has none.  One table and one view; the name of a column stands for the    *)
(* path that it is.                                                          *)
(***************************************************************************)
EXTENDS Integers, Sequences, FiniteSets, SequencesExt

CONSTANTS
  Readers,      \* clients and exports under way
  RecordIds,    \* positive numbers, in the order of the ids
  FieldValues,       \* natural numbers that the data field takes
  InitialViews, \* the view definitions at the start
  LaterViews,   \* the view definitions it may be updated to
  Forbidden,    \* forbiddenExportFields, among the columns
  PageSize,     \* page rows asked for (exportPageSize for an export)
  MaxRows,      \* maxExportRows
  MaxWrites,    \* bound: writes to the table
  MaxUpdates,   \* bound: updates of the view
  MaxSwitches   \* bound: switches of the read pointer

Absent == -1   \* BSON null: sorts before every value, and compares with none

ASSUME QueryAssumption ==
  /\ RecordIds \subseteq Nat /\ FieldValues \subseteq Nat
  /\ PageSize \in Nat \ {0} /\ MaxRows \in Nat
  /\ MaxWrites \in Nat /\ MaxUpdates \in Nat /\ MaxSwitches \in Nat
  /\ \A v \in InitialViews \cup LaterViews :
       /\ v.sorts \in Seq([field : {"id", "value"}, direction : {"asc", "desc"}])
       /\ v.columns \in Seq(STRING)

VARIABLES
  records,      \* the generation that the active read pointer names, or the record
                \* collection when there is none: a function from ids to values
  view,         \* the view document
  reader,       \* reader[r]: what reader r has asked for and been given
  exports,      \* audit entries of exports
  delivered,    \* exports answered to their callers
  writes, updates, switches

qvars == <<records, view, reader, exports, delivered, writes, updates, switches>>

NoCursor == <<>>
NotReading ==
  [step |-> "idle", kind |-> "list", view |-> view, cursor |-> NoCursor, rows |-> <<>>,
   steady |-> {}, odd |-> FALSE]
Generations ==
  UNION {[ids -> FieldValues \cup {Absent}] : ids \in {s \in SUBSET RecordIds : IsFiniteSet(s)}}

QueryInit ==
  /\ records \in Generations
  /\ view \in InitialViews
  /\ reader = [r \in Readers |-> NotReading]
  /\ exports = {} /\ delivered = {}
  /\ writes = 0 /\ updates = 0 /\ switches = 0

-----------------------------------------------------------------------------
(* The query of one page.                                                    *)

\* Mutant: nothing breaks ties.
ViewSortsUntied(v) == v.sorts

\* viewSorts: the id breaks ties, unless the view sorts by it already.
ViewSorts(v) ==
  IF \E i \in 1 .. Len(v.sorts) : v.sorts[i].field = "id" THEN v.sorts
  ELSE Append(v.sorts, [field |-> "id", direction |-> "asc"])

\* recordSortValue and viewMongoField.
SortValue(id, sort) == IF sort.field = "id" THEN id ELSE records[id]

\* mongoViewFilters: a comparison matches values only, $ne matches an absent field.
Matches(value, filter) ==
  CASE filter.operator = "none" -> TRUE
    [] filter.operator = "eq"   -> value = filter.value
    [] filter.operator = "ne"   -> value # filter.value
    [] filter.operator = "in"   -> value \in filter.values
    [] filter.operator = "gte"  -> value # Absent /\ value >= filter.value
    [] filter.operator = "lt"   -> value # Absent /\ value < filter.value

\* The order of a sort, in which an absent field comes before every value, and the
\* comparison of a filter ($gt, $lt), which an absent field or operand never meets.
Precedes(a, b, sort) == IF sort.direction = "asc" THEN a < b ELSE b < a
Beyond(a, b, sort) == a # Absent /\ b # Absent /\ Precedes(b, a, sort)

\* mongoSort.
Ordered(sorts, a, b) ==
  \E i \in 1 .. Len(sorts) :
    /\ \A j \in 1 .. i - 1 : SortValue(a, sorts[j]) = SortValue(b, sorts[j])
    /\ Precedes(SortValue(a, sorts[i]), SortValue(b, sorts[i]), sorts[i])

\* The $or of the cursor: equal in a prefix of the sorts, beyond in the next.
AfterCursor(sorts, cursor, id) ==
  cursor # NoCursor =>
    \E i \in 1 .. Len(sorts) :
      /\ \A j \in 1 .. i - 1 : SortValue(id, sorts[j]) = cursor[j]
      /\ Beyond(SortValue(id, sorts[i]), cursor[i], sorts[i])

\* encodeRecordCursor and decodeRecordCursor: the sort values of the last item.
Cursor(sorts, id) == [i \in 1 .. Len(sorts) |-> SortValue(id, sorts[i])]

\* The documents of a query in the order of the sorts, tied ones in any order.
InOrder(sorts, ids) ==
  CHOOSE list \in [1 .. Cardinality(ids) -> ids] :
    /\ \A id \in ids : \E i \in DOMAIN list : list[i] = id
    /\ \A i, j \in DOMAIN list : i < j => list[i] # list[j] /\ ~Ordered(sorts, list[j], list[i])

\* ListRecords: limit + 1 documents tell whether there is another page.
Selected(v, cursor) ==
  {id \in DOMAIN records : Matches(records[id], v.filter) /\ AfterCursor(ViewSorts(v), cursor, id)}
Page(v, cursor) ==
  LET sorts == ViewSorts(v)
      found == InOrder(sorts, Selected(v, cursor))
      count == IF Len(found) < PageSize THEN Len(found) ELSE PageSize
  IN  [items |-> [i \in 1 .. count |-> [id |-> found[i], value |-> records[found[i]]]],
       next |-> IF Len(found) > PageSize THEN Cursor(sorts, found[PageSize]) ELSE NoCursor]

\* decodeRecordCursor's check against the sorts of the view.
CursorFits(v, cursor) == cursor = NoCursor \/ Len(cursor) = Len(ViewSorts(v))

\* exportColumns: forbidden and repeated columns are dropped, the id comes first if it
\* is missing.
Allowed(columns) ==
  LET allowed[i \in 0 .. Len(columns)] ==
        IF i = 0 THEN <<>>
        ELSE IF columns[i] \in Forbidden \/ Contains(allowed[i - 1], columns[i])
        THEN allowed[i - 1]
        ELSE Append(allowed[i - 1], columns[i])
  IN  allowed[Len(columns)]
ExportColumns(v) ==
  IF Contains(Allowed(v.columns), "id") THEN Allowed(v.columns)
  ELSE <<"id">> \o Allowed(v.columns)
Redacted(v) == {v.columns[i] : i \in 1 .. Len(v.columns)} \cap Forbidden

\* exportValue: only a column that names its data path has a value of the data.
ExportValue(row, column) ==
  CASE column = "id" -> {row.id}
    [] column = "data.value" /\ row.value # Absent -> {row.value}
    [] OTHER -> {}
\* encodeExport: a row as the values of its columns.
Encode(rows, columns) ==
  [i \in 1 .. Len(rows) |-> [c \in 1 .. Len(columns) |-> ExportValue(rows[i], columns[c])]]

-----------------------------------------------------------------------------
\* Whether some record lacks the field that a view sorts by: the case in which
\* Beyond and Precedes disagree.
Lacks(v) ==
  /\ \E i \in 1 .. Len(v.sorts) : v.sorts[i].field # "id"
  /\ \E id \in DOMAIN records : records[id] = Absent

Reading(kind) ==
  [NotReading EXCEPT !.step = "page", !.kind = kind, !.steady = DOMAIN records,
                     !.odd = Lacks(view)]
\* A client of ListRecords names the view, which every page reads again;
\* ExportRecords reads it once.
StartList(r) ==
  /\ reader[r].step = "idle"
  /\ reader' = [reader EXCEPT ![r] = Reading("list")]
  /\ UNCHANGED <<records, view, exports, delivered, writes, updates, switches>>
StartExport(r) ==
  /\ reader[r].step = "idle"
  /\ reader' = [reader EXCEPT ![r] = Reading("export")]
  /\ UNCHANGED <<records, view, exports, delivered, writes, updates, switches>>

\* A reader is given a page, and goes to `last' when there is no other.
Take(r, page, last) ==
  reader' = [reader EXCEPT ![r].rows = @ \o page.items, ![r].cursor = page.next,
                           ![r].step = IF page.next # NoCursor THEN "page" ELSE last]
Refuse(r) == reader' = [reader EXCEPT ![r].step = "refused"]

\* A page of a listing.  A cursor that does not fit the view is ErrInvalidCursor.
ListPage(r) ==
  /\ reader[r].step = "page" /\ reader[r].kind = "list"
  /\ IF CursorFits(view, reader[r].cursor)
     THEN Take(r, Page(view, reader[r].cursor), "complete")
     ELSE Refuse(r)
  /\ UNCHANGED <<records, view, exports, delivered, writes, updates, switches>>

\* A page of an export.  A row past the limit is ErrExportTooLarge.
ExportPage(r) ==
  LET page == Page(reader[r].view, reader[r].cursor)
  IN
  /\ reader[r].step = "page" /\ reader[r].kind = "export"
  /\ IF Len(reader[r].rows) + Len(page.items) <= MaxRows THEN Take(r, page, "audit")
     ELSE Refuse(r)
  /\ UNCHANGED <<records, view, exports, delivered, writes, updates, switches>>

\* The query exceeds its time or its bytes (ErrQueryCostExceeded, ErrExportTooLarge),
\* the database or the audit append fails, or the client gives up.
Fail(r) ==
  /\ reader[r].step \in {"page", "audit"}
  /\ Refuse(r)
  /\ UNCHANGED <<records, view, exports, delivered, writes, updates, switches>>

\* Mutant: the columns are those of the view as it is now.
AuditEntryOfView(r) ==
  [reader |-> r, count |-> Len(reader[r].rows), fieldSet |-> ExportColumns(view),
   redacted |-> Redacted(view), hash |-> Encode(reader[r].rows, ExportColumns(view))]

\* The audit entry of an export: its rows are counted and hashed as encoded.
AuditEntryForExport(r) ==
  LET v == reader[r].view
  IN  [reader |-> r, count |-> Len(reader[r].rows), fieldSet |-> ExportColumns(v),
       redacted |-> Redacted(v), hash |-> Encode(reader[r].rows, ExportColumns(v))]

AppendExportAudit(r) ==
  /\ reader[r].step = "audit"
  /\ exports' = exports \cup {AuditEntryForExport(r)}
  /\ reader' = [reader EXCEPT ![r].step = "answer"]
  /\ UNCHANGED <<records, view, delivered, writes, updates, switches>>

AnswerExport(r) ==
  /\ reader[r].step = "answer"
  /\ delivered' = delivered \cup
       {[reader |-> r, body |-> Encode(reader[r].rows, ExportColumns(reader[r].view)),
         columns |-> ExportColumns(reader[r].view), rows |-> reader[r].rows]}
  /\ reader' = [reader EXCEPT ![r].step = "complete"]
  /\ UNCHANGED <<records, view, exports, writes, updates, switches>>

-----------------------------------------------------------------------------
(* What happens meanwhile.  A record is steady for a reader as long as it was *)
(* there when the reading started and nothing has changed it.                 *)

Touch(ids, odd) ==
  reader' = [r \in Readers |->
    IF reader[r].step = "idle" THEN reader[r]
    ELSE [reader[r] EXCEPT !.steady = @ \ ids, !.odd = @ \/ odd]]

Put(f, id, value) == [i \in DOMAIN f \cup {id} |-> IF i = id THEN value ELSE f[i]]

\* A record created, updated or deleted in the generation that is read.
WriteRecord(id, value) ==
  /\ writes < MaxWrites /\ writes' = writes + 1
  /\ records' = Put(records, id, value)
  /\ Touch({id}, value = Absent)
  /\ UNCHANGED <<view, exports, delivered, updates, switches>>
DeleteRecord(id) ==
  /\ writes < MaxWrites /\ writes' = writes + 1
  /\ id \in DOMAIN records
  /\ records' = [i \in DOMAIN records \ {id} |-> records[i]]
  /\ Touch({id}, FALSE)
  /\ UNCHANGED <<view, exports, delivered, updates, switches>>

UpdateViewDefinition ==
  /\ updates < MaxUpdates /\ updates' = updates + 1
  /\ view' \in LaterViews
  /\ reader' = [r \in Readers |->
       IF reader[r].step # "page" \/ reader[r].kind = "export" THEN reader[r]
       ELSE [reader[r] EXCEPT !.odd = TRUE]]
  /\ UNCHANGED <<records, exports, delivered, writes, switches>>

\* A rebuild activates a generation (ProjectionRebuild) that differs in a record: the
\* records that both generations hold with the same value stay steady.
SwitchPointer ==
  /\ switches < MaxSwitches /\ switches' = switches + 1
  /\ \E id \in RecordIds, value \in FieldValues :
       records' = Put(records, id, value) /\ Touch({id}, FALSE)
  /\ UNCHANGED <<view, exports, delivered, writes, updates>>

QueryNext ==
  \/ \E r \in Readers :
       \/ StartList(r) \/ StartExport(r) \/ ListPage(r) \/ ExportPage(r) \/ Fail(r)
       \/ AppendExportAudit(r) \/ AnswerExport(r)
  \/ \E id \in RecordIds :
       DeleteRecord(id) \/ \E value \in FieldValues \cup {Absent} : WriteRecord(id, value)
  \/ UpdateViewDefinition \/ SwitchPointer

QuerySpec == QueryInit /\ [][QueryNext]_qvars

-----------------------------------------------------------------------------
QueryTypeOK ==
  /\ records \in Generations
  /\ view \in InitialViews \cup LaterViews
  /\ \A r \in Readers :
       /\ reader[r].step \in {"idle", "page", "audit", "answer", "complete", "refused"}
       /\ reader[r].kind \in {"list", "export"} /\ reader[r].steady \subseteq RecordIds
       /\ \A i \in 1 .. Len(reader[r].rows) :
            reader[r].rows[i] \in [id : RecordIds, value : FieldValues \cup {Absent}]

Places(r, id) == {i \in 1 .. Len(reader[r].rows) : reader[r].rows[i].id = id}
\* A reading of which the view did not change under the client and in which no
\* record lacked the field sorted by.
Coherent(r) == ~reader[r].odd

\* A record that nothing changes during a reading is returned once, by a listing and
\* by an export, in the order of the view, whatever is written between the pages and
\* even if the read pointer moves: no page repeats it and no page skips it.
SteadyRecordsReadOnce ==
  \A r \in Readers : reader[r].step # "idle" /\ Coherent(r) =>
    LET v == reader[r].view
    IN  \A id \in reader[r].steady :
          /\ Cardinality(Places(r, id)) <= 1
          /\ reader[r].step \in {"audit", "answer", "complete"} /\ Matches(records[id], v.filter) =>
               Places(r, id) # {}
          /\ \A other \in reader[r].steady :
               \A i \in Places(r, id), j \in Places(r, other) :
                 i < j => Ordered(ViewSorts(v), id, other)

\* An export that a caller was given is in the audit log with the rows, the columns
\* and the content that were given, no export is longer than the limit, and each of its
\* rows names its record.
DeliveredIsAudited ==
  \A d \in delivered :
    /\ \E e \in exports : e.reader = d.reader /\ e.hash = d.body /\ e.count = Len(d.body)
                          /\ e.fieldSet = d.columns
    /\ Len(d.body) <= MaxRows
    /\ \A i \in 1 .. Len(d.body) : \E c \in 1 .. Len(d.columns) : d.body[i][c] = {d.rows[i].id}
=============================================================================
